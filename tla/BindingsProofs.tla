--------------------------- MODULE BindingsProofs ---------------------------
(***************************************************************************)
(* What HttpRequest and Accessors promise, for every argument, width,      *)
(* value and key.                                                          *)
(*                                                                         *)
(* http.request: every option changes one part of libcurl's handle         *)
(* (OptionsSet), so the handle that Start configures asks for the request  *)
(* (ConfiguredAs), which is the one of the argument (RequestInv).          *)
(*                                                                         *)
(* Properties: each is declared once, with a name and a field of its own   *)
(* (Declarations), so that the rows of an entity have their fields apart   *)
(* (RowsApart).  The invariant, Typed, says what the fields hold; every    *)
(* step is then one of a few effects on them (Steps).                      *)
(***************************************************************************)
EXTENDS Accessors, HttpRequest, TLAPS

-----------------------------------------------------------------------------
\* http.request.

Connect(timeout) == IF timeout < 10000 THEN timeout ELSE 10000
Names == {"verb", "custom", "size", "sent", "list", "timeout", "connect", "follow", "redirs"}
Kept(n, e, changed) == DOMAIN n = Names /\ \A f \in Names \ changed : n[f] = e[f]

(* One field of an easy handle replaced.                                   *)
LEMMA Replaced ==
    ASSUME NEW e, DOMAIN e = Names, NEW f \in Names, NEW v
    PROVE  LET n == [e EXCEPT ![f] = v] IN n[f] = v /\ Kept(n, e, {f})
BY Zenon DEF Kept

(* What each option that Start sets does to an easy handle.                *)
LEMMA OptionsSet ==
    ASSUME NEW e, DOMAIN e = Names, NEW v
    PROVE  /\ LET n == SetOption(e, "NOBODY", v) IN n.verb = "HEAD" /\ Kept(n, e, {"verb"})
           /\ LET n == SetOption(e, "CUSTOMREQUEST", v) IN n.custom = <<v>> /\ Kept(n, e, {"custom"})
           /\ LET n == SetOption(e, "POSTFIELDSIZE", v) IN n.size = v /\ Kept(n, e, {"size"})
           /\ LET n == SetOption(e, "COPYPOSTFIELDS", v)
              IN  n.verb = "POST" /\ (e.size # -1 => n.sent = e.size) /\ Kept(n, e, {"verb", "sent"})
           /\ LET n == SetOption(e, "HTTPHEADER", v) IN n.list = v /\ Kept(n, e, {"list"})
           /\ LET n == SetOption(e, "TIMEOUT_MS", v) IN n.timeout = v /\ Kept(n, e, {"timeout"})
           /\ LET n == SetOption(e, "CONNECTTIMEOUT_MS", v) IN n.connect = v /\ Kept(n, e, {"connect"})
           /\ LET n == SetOption(e, "FOLLOWLOCATION", v) IN n.follow = v /\ Kept(n, e, {"follow"})
           /\ LET n == SetOption(e, "MAXREDIRS", v) IN n.redirs = v /\ Kept(n, e, {"redirs"})
<1>1. LET n == SetOption(e, "NOBODY", v) IN n.verb = "HEAD" /\ Kept(n, e, {"verb"})
  <2>1. SetOption(e, "NOBODY", v) = [e EXCEPT !.verb = "HEAD"]
    BY SMT DEF SetOption
  <2> QED BY <2>1, Replaced, SMT DEF Names
<1>2. LET n == SetOption(e, "CUSTOMREQUEST", v) IN n.custom = <<v>> /\ Kept(n, e, {"custom"})
  <2>1. SetOption(e, "CUSTOMREQUEST", v) = [e EXCEPT !.custom = <<v>>]
    BY SMT DEF SetOption
  <2> QED BY <2>1, Replaced, SMT DEF Names
<1>3. LET n == SetOption(e, "POSTFIELDSIZE", v) IN n.size = v /\ Kept(n, e, {"size"})
  <2>1. SetOption(e, "POSTFIELDSIZE", v) = [e EXCEPT !.size = v]
    BY SMT DEF SetOption
  <2> QED BY <2>1, Replaced, SMT DEF Names
<1>4. LET n == SetOption(e, "COPYPOSTFIELDS", v)
      IN  n.verb = "POST" /\ (e.size # -1 => n.sent = e.size) /\ Kept(n, e, {"verb", "sent"})
  <2>1. PICK x : x = IF e.size = -1 THEN v.nul ELSE e.size
    BY Zenon
  <2>2. PICK m : m = [e EXCEPT !.verb = "POST"]
    BY Zenon
  <2>3. PICK n : n = [m EXCEPT !.sent = x]
    BY Zenon
  <2>4. SetOption(e, "COPYPOSTFIELDS", v) = n
    BY <2>1, <2>2, <2>3, SMT DEF SetOption
  <2>5. m.verb = "POST" /\ Kept(m, e, {"verb"})
    BY <2>2, Replaced, Zenon DEF Names
  <2>6. n.sent = x /\ Kept(n, m, {"sent"})
    BY <2>3, <2>5, Replaced, Zenon DEF Names, Kept
  <2>7. n.verb = "POST" /\ (e.size # -1 => n.sent = e.size) /\ Kept(n, e, {"verb", "sent"})
    BY ONLY <2>1, <2>5, <2>6, SMT DEF Kept, Names
  <2> QED BY ONLY <2>4, <2>7, Zenon
<1>5. LET n == SetOption(e, "HTTPHEADER", v) IN n.list = v /\ Kept(n, e, {"list"})
  <2>1. SetOption(e, "HTTPHEADER", v) = [e EXCEPT !.list = v]
    BY SMT DEF SetOption
  <2> QED BY <2>1, Replaced, SMT DEF Names
<1>6. LET n == SetOption(e, "TIMEOUT_MS", v) IN n.timeout = v /\ Kept(n, e, {"timeout"})
  <2>1. SetOption(e, "TIMEOUT_MS", v) = [e EXCEPT !.timeout = v]
    BY SMT DEF SetOption
  <2> QED BY <2>1, Replaced, SMT DEF Names
<1>7. LET n == SetOption(e, "CONNECTTIMEOUT_MS", v) IN n.connect = v /\ Kept(n, e, {"connect"})
  <2>1. SetOption(e, "CONNECTTIMEOUT_MS", v) = [e EXCEPT !.connect = v]
    BY SMT DEF SetOption
  <2> QED BY <2>1, Replaced, SMT DEF Names
<1>8. LET n == SetOption(e, "FOLLOWLOCATION", v) IN n.follow = v /\ Kept(n, e, {"follow"})
  <2>1. SetOption(e, "FOLLOWLOCATION", v) = [e EXCEPT !.follow = v]
    BY SMT DEF SetOption
  <2> QED BY <2>1, Replaced, SMT DEF Names
<1>9. LET n == SetOption(e, "MAXREDIRS", v) IN n.redirs = v /\ Kept(n, e, {"redirs"})
  <2>1. SetOption(e, "MAXREDIRS", v) = [e EXCEPT !.redirs = v]
    BY SMT DEF SetOption
  <2> QED BY <2>1, Replaced, SMT DEF Names
<1> QED BY ONLY <1>1, <1>2, <1>3, <1>4, <1>5, <1>6, <1>7, <1>8, <1>9, Zenon

(* The limits of a new handle: timeouts and redirects.                     *)
LEMMA LimitsSet ==
    ASSUME NEW r
    PROVE  LET n == Limits(NewEasy, r)
           IN  /\ Kept(n, NewEasy, {"timeout", "connect", "follow", "redirs"})
               /\ n.timeout = r.timeout_ms
               /\ n.connect = Connect(r.timeout_ms)
               /\ n.follow = IF r.max_redirects > 0 THEN 1 ELSE 0
               /\ n.redirs = r.max_redirects
<1>0. PICK e0, f, c :
        /\ e0 = NewEasy
        /\ f = IF r.max_redirects > 0 THEN 1 ELSE 0
        /\ c = IF r.timeout_ms < 10000 THEN r.timeout_ms ELSE 10000
  BY SMT
<1>1. PICK e1 : e1 = SetOption(e0, "FOLLOWLOCATION", f)
  OBVIOUS
<1>2. PICK e2 : e2 = SetOption(e1, "MAXREDIRS", r.max_redirects)
  OBVIOUS
<1>3. PICK e3 : e3 = SetOption(e2, "TIMEOUT_MS", r.timeout_ms)
  OBVIOUS
<1>4. PICK e4 : e4 = SetOption(e3, "CONNECTTIMEOUT_MS", c)
  OBVIOUS
<1>5. Limits(NewEasy, r) = e4
  BY <1>0, <1>1, <1>2, <1>3, <1>4, SMT DEF Limits
<1>6. DOMAIN e0 = Names
  BY <1>0, SMT DEF Names, NewEasy
<1>7. e1.follow = f /\ Kept(e1, e0, {"follow"})
  BY ONLY <1>1, <1>6, OptionsSet, SMT
<1>8. e2.redirs = r.max_redirects /\ Kept(e2, e1, {"redirs"})
  <2>1. DOMAIN e1 = Names
    BY <1>7 DEF Kept
  <2> QED BY ONLY <1>2, <2>1, OptionsSet, SMT
<1>9. e3.timeout = r.timeout_ms /\ Kept(e3, e2, {"timeout"})
  <2>1. DOMAIN e2 = Names
    BY <1>8 DEF Kept
  <2> QED BY ONLY <1>3, <2>1, OptionsSet, SMT
<1>10. e4.connect = c /\ Kept(e4, e3, {"connect"})
  <2>1. DOMAIN e3 = Names
    BY <1>9 DEF Kept
  <2> QED BY ONLY <1>4, <2>1, OptionsSet, SMT
<1>11. /\ Kept(e4, e0, {"timeout", "connect", "follow", "redirs"})
       /\ e4.timeout = r.timeout_ms /\ e4.connect = c /\ e4.follow = f /\ e4.redirs = r.max_redirects
  BY ONLY <1>7, <1>8, <1>9, <1>10, SMT DEF Kept, Names
<1> QED BY <1>0, <1>5, <1>11, SMT DEF Connect

(* The header list is set if there are headers, and nothing else with it.  *)
LEMMA HeadersSet ==
    ASSUME NEW e, DOMAIN e = Names, e.list = <<>>, NEW r
    PROVE  LET n == HeaderList(e, r)
           IN  /\ Kept(n, e, {"list"})
               /\ n.list = IF r.headers = <<>> THEN <<>>
                           ELSE [i \in DOMAIN r.headers |-> HeaderLine(r.headers[i])]
<1>1. CASE r.headers = <<>>
  BY <1>1, SMT DEF HeaderList, Kept
<1>2. CASE r.headers # <<>>
  <2>1. PICK list : list = [i \in DOMAIN r.headers |-> HeaderLine(r.headers[i])]
    BY Zenon
  <2>2. HeaderList(e, r) = SetOption(e, "HTTPHEADER", list)
    BY <1>2, <2>1, Zenon DEF HeaderList
  <2>3. LET n == SetOption(e, "HTTPHEADER", list) IN n.list = list /\ Kept(n, e, {"list"})
    BY OptionsSet, SMT
  <2> QED BY <1>2, <2>1, <2>2, <2>3, Zenon
<1> QED BY <1>1, <1>2

(* HEAD and methods of its own are set; GET and POST are left to the body. *)
LEMMA MethodSet ==
    ASSUME NEW e, DOMAIN e = Names, NEW r
    PROVE  LET n == RequestMethod(e, r)
           IN  /\ Kept(n, e, {"verb", "custom"})
               /\ n.verb = IF r.method = "HEAD" THEN "HEAD" ELSE e.verb
               /\ n.custom = IF r.method \in {"HEAD", "GET", "POST"} THEN e.custom ELSE <<r.method>>
<1>1. CASE r.method = "HEAD"
  <2>1. LET n == SetOption(e, "NOBODY", 1) IN n.verb = "HEAD" /\ Kept(n, e, {"verb"})
    BY OptionsSet, SMT
  <2>2. RequestMethod(e, r) = SetOption(e, "NOBODY", 1)
    BY <1>1, Zenon DEF RequestMethod
  <2> QED BY <1>1, <2>1, <2>2, SMT DEF Kept, Names
<1>2. CASE r.method \in {"GET", "POST"}
  BY <1>2, SMT DEF RequestMethod, Kept
<1>3. CASE r.method \notin {"HEAD", "GET", "POST"}
  <2>1. LET n == SetOption(e, "CUSTOMREQUEST", r.method) IN n.custom = <<r.method>> /\ Kept(n, e, {"custom"})
    BY OptionsSet, SMT
  <2>2. RequestMethod(e, r) = SetOption(e, "CUSTOMREQUEST", r.method)
    BY <1>3, SMT DEF RequestMethod
  <2> QED BY <1>3, <2>1, <2>2, SMT DEF Kept, Names
<1> QED BY <1>1, <1>2, <1>3

(* A body is copied after its size was set: all of it is sent.             *)
LEMMA BodySet ==
    ASSUME NEW e, DOMAIN e = Names, NEW r, r.has_body \in BOOLEAN, r.body.size \in Nat
    PROVE  LET n == Body(e, r)
           IN  /\ Kept(n, e, {"verb", "size", "sent"})
               /\ n.verb = IF r.has_body \/ r.method = "POST" THEN "POST" ELSE e.verb
               /\ r.has_body => n.sent = r.body.size
<1>1. \A size \in Nat : \A v : LET n == SetOption(SetOption(e, "POSTFIELDSIZE", size), "COPYPOSTFIELDS", v)
                               IN  n.verb = "POST" /\ n.sent = size /\ Kept(n, e, {"verb", "size", "sent"})
  <2> SUFFICES ASSUME NEW size \in Nat, NEW v
               PROVE  LET n == SetOption(SetOption(e, "POSTFIELDSIZE", size), "COPYPOSTFIELDS", v)
                      IN  n.verb = "POST" /\ n.sent = size /\ Kept(n, e, {"verb", "size", "sent"})
    OBVIOUS
  <2>1. PICK m : m = SetOption(e, "POSTFIELDSIZE", size)
    OBVIOUS
  <2>2. m.size = size /\ Kept(m, e, {"size"})
    BY ONLY <2>1, DOMAIN e = Names, OptionsSet, SMT
  <2>3. DOMAIN m = Names
    BY <2>2 DEF Kept
  <2>4. PICK n : n = SetOption(m, "COPYPOSTFIELDS", v)
    OBVIOUS
  <2>5. n.verb = "POST" /\ (m.size # -1 => n.sent = m.size) /\ Kept(n, m, {"verb", "sent"})
    BY ONLY <2>3, <2>4, OptionsSet, SMT
  <2>6. n.verb = "POST" /\ n.sent = size /\ Kept(n, e, {"verb", "size", "sent"})
    BY <2>2, <2>5, SMT DEF Kept, Names
  <2> QED BY <2>1, <2>4, <2>6, Zenon
<1>2. CASE r.has_body
  <2>1. Body(e, r) = SetOption(SetOption(e, "POSTFIELDSIZE", r.body.size), "COPYPOSTFIELDS", r.body)
    BY <1>2, Zenon DEF Body
  <2> QED BY ONLY <1>1, <1>2, <2>1, r.body.size \in Nat, SMT
<1>3. CASE ~r.has_body /\ r.method = "POST"
  <2>1. Body(e, r) = SetOption(SetOption(e, "POSTFIELDSIZE", 0), "COPYPOSTFIELDS", NoBody)
    BY <1>3, Zenon DEF Body
  <2> QED BY ONLY <1>1, <1>3, <2>1, SMT
<1>4. CASE ~r.has_body /\ r.method # "POST"
  BY <1>4, SMT DEF Body, Kept
<1> QED BY <1>2, <1>3, <1>4, Zenon

\* An easy handle that asks for a request.
Asks(n, r) ==
    /\ n.timeout = r.timeout_ms /\ n.connect = Connect(r.timeout_ms)
    /\ n.follow = (IF r.max_redirects > 0 THEN 1 ELSE 0) /\ n.redirs = r.max_redirects
    /\ n.list = IF r.headers = <<>> THEN <<>>
                ELSE [i \in DOMAIN r.headers |-> HeaderLine(r.headers[i])]
    /\ n.verb = IF r.has_body \/ r.method = "POST" THEN "POST"
                ELSE IF r.method = "HEAD" THEN "HEAD" ELSE "GET"
    /\ n.custom = IF r.method \in {"HEAD", "GET", "POST"} THEN <<>> ELSE <<r.method>>
    /\ r.has_body => n.sent = r.body.size

(* The handle that Start configures for a request asks for it.             *)
LEMMA ConfiguredAs ==
    ASSUME NEW r, r.has_body \in BOOLEAN, r.body.size \in Nat
    PROVE  Asks(Configured(r), r)
<1>0. PICK e0 : e0 = NewEasy
  OBVIOUS
<1>1. PICK e1 : e1 = Limits(NewEasy, r)
  OBVIOUS
<1>2. PICK e2 : e2 = HeaderList(e1, r)
  OBVIOUS
<1>3. PICK e3 : e3 = RequestMethod(e2, r)
  OBVIOUS
<1>4. PICK e4 : e4 = Body(e3, r)
  OBVIOUS
<1>5. Configured(r) = e4
  BY <1>1, <1>2, <1>3, <1>4, Zenon DEF Configured
<1>a. PICK c : c = Connect(r.timeout_ms)
  OBVIOUS
<1>6. PICK list : list = IF r.headers = <<>> THEN <<>>
                         ELSE [i \in DOMAIN r.headers |-> HeaderLine(r.headers[i])]
  BY Zenon
<1>7. /\ Kept(e1, e0, {"timeout", "connect", "follow", "redirs"})
      /\ e1.timeout = r.timeout_ms /\ e1.connect = c /\ e1.redirs = r.max_redirects
      /\ e1.follow = IF r.max_redirects > 0 THEN 1 ELSE 0
  BY <1>0, <1>1, <1>a, LimitsSet, SMT
<1>8. e0.verb = "GET" /\ e0.custom = <<>> /\ e0.list = <<>>
  BY <1>0, SMT DEF NewEasy
<1>9. DOMAIN e1 = Names /\ e1.list = <<>>
  BY <1>7, <1>8, SMT DEF Kept, Names
<1>10. Kept(e2, e1, {"list"}) /\ e2.list = list
  BY <1>2, <1>6, <1>9, HeadersSet, SMT
<1>11. DOMAIN e2 = Names
  BY <1>10 DEF Kept
<1>12. /\ Kept(e3, e2, {"verb", "custom"})
       /\ e3.verb = IF r.method = "HEAD" THEN "HEAD" ELSE e2.verb
       /\ e3.custom = IF r.method \in {"HEAD", "GET", "POST"} THEN e2.custom ELSE <<r.method>>
  BY <1>3, <1>11, MethodSet, SMT
<1>13. DOMAIN e3 = Names
  BY <1>12 DEF Kept
<1>14. /\ Kept(e4, e3, {"verb", "size", "sent"})
       /\ e4.verb = IF r.has_body \/ r.method = "POST" THEN "POST" ELSE e3.verb
       /\ r.has_body => e4.sent = r.body.size
  BY <1>4, <1>13, BodySet, SMT
<1>15. /\ e2.verb = "GET" /\ e2.custom = <<>>
       /\ e3.list = list /\ e4.list = list /\ e4.custom = e3.custom
       /\ e4.timeout = e1.timeout /\ e4.connect = e1.connect /\ e4.follow = e1.follow /\ e4.redirs = e1.redirs
  BY ONLY <1>7, <1>8, <1>10, <1>12, <1>14, SMT DEF Kept, Names
<1>16. /\ e4.timeout = r.timeout_ms /\ e4.connect = c /\ e4.redirs = r.max_redirects /\ e4.list = list
       /\ e4.follow = IF r.max_redirects > 0 THEN 1 ELSE 0
       /\ e4.verb = IF r.has_body \/ r.method = "POST" THEN "POST"
                    ELSE IF r.method = "HEAD" THEN "HEAD" ELSE "GET"
       /\ e4.custom = IF r.method \in {"HEAD", "GET", "POST"} THEN <<>> ELSE <<r.method>>
       /\ r.has_body => e4.sent = r.body.size
  BY ONLY <1>7, <1>12, <1>14, <1>15, SMT
<1>17. Asks(e4, r)
  BY ONLY <1>a, <1>6, <1>16, SMT DEF Asks
<1> QED BY <1>5, <1>17, Zenon

\* The request that ReadRequest makes of an argument.
RequestOf(o) == IF o.type = "string" THEN FromUrl(o) ELSE ReadRequest(o)

(* The timeouts of a request that passed the checks are at least a         *)
(* millisecond and at most an hour.                                        *)
LEMMA TimeoutsInRange ==
    ASSUME NEW o \in Options, Passes(o)
    PROVE  LET t == RequestOf(o).timeout_ms IN t \in Int /\ 1 <= t /\ t <= Hour
<1>1. CASE o.type = "string"
  BY <1>1, SMT DEF RequestOf, FromUrl, Hour
<1>2. CASE o.type = "table"
  <2>1. RequestOf(o).timeout_ms = IF o.timeout.type = "nil" THEN 30000 ELSE Milliseconds(o.timeout.v)
    BY <1>2, SMT DEF RequestOf, ReadRequest
  <2>2. CASE o.timeout.type = "nil"
    BY <2>1, <2>2, SMT DEF Hour
  <2>3. CASE o.timeout.type # "nil"
    <3>1. o.timeout.v > 0 /\ o.timeout.v <= 3600 * 10000 /\ o.timeout.type = "number"
      BY <1>2, <2>3, SMT DEF Passes, Accepted, CheckTimeout, kMaxTimeout
    <3>2. o.timeout.v \in Int
      BY <1>2, <3>1, OptionsAssumption DEF Argument
    <3> QED BY <2>1, <2>3, <3>1, <3>2, SMT DEF Milliseconds, Hour
  <2> QED BY <2>2, <2>3
<1> QED BY <1>1, <1>2 DEF Passes

(* The fields of the request that ReadRequest makes of a table.            *)
LEMMA ArgumentFields ==
    ASSUME NEW o, o.type = "table"
    PROVE  LET r == RequestOf(o)
           IN  /\ r.method = Method(o)
               /\ r.has_body = HasBody(o)
               /\ r.body = IF HasBody(o) THEN o.body.v ELSE NoBody
               /\ r.headers = IF o.headers.type = "nil" THEN <<>> ELSE o.headers.v
               /\ r.max_redirects = IF o.redirects.type = "nil" THEN 5 ELSE o.redirects.v \div 2
<1>1. RequestOf(o) = ReadRequest(o)
  BY Zenon DEF RequestOf
<1> QED BY <1>1, SMT DEF ReadRequest

(* A request has a body or not, and a body has a length.                   *)
LEMMA BodyTyped ==
    ASSUME NEW o \in Options, Passes(o)
    PROVE  RequestOf(o).has_body \in BOOLEAN /\ RequestOf(o).body.size \in Nat
<1>1. CASE o.type = "string"
  BY <1>1, SMT DEF RequestOf, FromUrl, NoBody
<1>2. CASE o.type = "table"
  <2>1. HasBody(o) => o.body.v \in [size : Nat, nul : Nat]
    BY <1>2, OptionsAssumption DEF Argument, HasBody
  <2>2. HasBody(o) \in BOOLEAN
    BY DEF HasBody
  <2>3. NoBody.size = 0
    BY SMT DEF NoBody
  <2> QED BY <1>2, <2>1, <2>2, <2>3, ArgumentFields, SMT
<1> QED BY <1>1, <1>2 DEF Passes

(* Start's timeouts end the request, and connecting is not given longer    *)
(* than the request.                                                       *)
LEMMA TimeoutsSent ==
    ASSUME NEW o \in Options, Passes(o), NEW n, n = Configured(RequestOf(o))
    PROVE  1 <= n.connect /\ n.connect <= n.timeout /\ n.timeout <= Hour
<1>1. PICK r : r = RequestOf(o)
  OBVIOUS
<1>2. r.has_body \in BOOLEAN /\ r.body.size \in Nat
  BY <1>1, BodyTyped
<1>3. n.timeout = r.timeout_ms /\ n.connect = Connect(r.timeout_ms)
  <2>1. Asks(Configured(r), r)
    BY <1>2, ConfiguredAs
  <2>2. Asks(n, r)
    BY <1>1, <2>1
  <2> QED BY ONLY <2>2, SMT DEF Asks
<1>4. r.timeout_ms \in Int /\ 1 <= r.timeout_ms /\ r.timeout_ms <= Hour
  BY <1>1, TimeoutsInRange
<1> QED BY ONLY <1>3, <1>4, SMT DEF Connect

(* What Start makes of the request of a table is what the table asks for.  *)
LEMMA TableSent ==
    ASSUME NEW o \in Options, Passes(o), o.type = "table",
           NEW n, n = Configured(RequestOf(o))
    PROVE  /\ (IF n.custom # <<>> THEN n.custom[1] ELSE n.verb) = Method(o)
           /\ HasBody(o) => n.sent = o.body.v.size
           /\ o.headers.type = "table" =>
                {[name |-> line.name, value |-> line.value] :
                    line \in {l \in Range(n.list) : l.form = "semicolon" \/ ~OnlyBlanks(l.value)}}
                = {f \in Range(o.headers.v) : f.value = <<>> \/ ~OnlyBlanks(f.value)}
           /\ o.redirects.type = "number" =>
                (IF n.follow = 1 THEN n.redirs ELSE 0) * 2 = o.redirects.v
<1>1. PICK r : r = RequestOf(o)
  OBVIOUS
<1>2. r.has_body \in BOOLEAN /\ r.body.size \in Nat
  BY <1>1, BodyTyped
<1>3. /\ n.follow = (IF r.max_redirects > 0 THEN 1 ELSE 0)
      /\ n.redirs = r.max_redirects
      /\ n.list = IF r.headers = <<>> THEN <<>>
                  ELSE [i \in DOMAIN r.headers |-> HeaderLine(r.headers[i])]
      /\ n.verb = IF r.has_body \/ r.method = "POST" THEN "POST"
                  ELSE IF r.method = "HEAD" THEN "HEAD" ELSE "GET"
      /\ n.custom = IF r.method \in {"HEAD", "GET", "POST"} THEN <<>> ELSE <<r.method>>
      /\ r.has_body => n.sent = r.body.size
  <2>1. Asks(Configured(r), r)
    BY <1>2, ConfiguredAs
  <2>2. Asks(n, r)
    BY <1>1, <2>1
  <2> QED BY ONLY <2>2, SMT DEF Asks
<1>4. /\ r.method = Method(o) /\ r.has_body = HasBody(o)
      /\ HasBody(o) => r.body = o.body.v
      /\ r.headers = IF o.headers.type = "nil" THEN <<>> ELSE o.headers.v
      /\ r.max_redirects = IF o.redirects.type = "nil" THEN 5 ELSE o.redirects.v \div 2
  BY <1>1, ArgumentFields, SMT
<1>5. (IF n.custom # <<>> THEN n.custom[1] ELSE n.verb) = Method(o)
  <2>1. r.has_body => r.method \notin {"GET", "HEAD"}
    BY <1>4, Zenon DEF Passes, Accepted
  <2>2. CASE r.method \in {"HEAD", "GET", "POST"}
    BY <1>3, <1>4, <2>1, <2>2, SMT
  <2>3. CASE r.method \notin {"HEAD", "GET", "POST"}
    <3>1. n.custom = <<r.method>>
      BY <1>3, <2>3, SMT
    <3>2. n.custom # <<>> /\ n.custom[1] = r.method
      BY ONLY <3>1, SMT
    <3> QED BY <1>4, <3>2, Zenon
  <2> QED BY <2>2, <2>3
<1>6. HasBody(o) => n.sent = o.body.v.size
  BY <1>3, <1>4, SMT
<1>7. ASSUME o.headers.type = "table"
      PROVE  {[name |-> line.name, value |-> line.value] :
                 line \in {l \in Range(n.list) : l.form = "semicolon" \/ ~OnlyBlanks(l.value)}}
             = {f \in Range(o.headers.v) : f.value = <<>> \/ ~OnlyBlanks(f.value)}
  <2>1. PICK h : h = o.headers.v
    OBVIOUS
  <2>2. h \in Seq([name : STRING, value : Seq(STRING)])
    BY <1>7, <2>1, OptionsAssumption DEF Argument
  <2>3. n.list = [i \in DOMAIN h |-> HeaderLine(h[i])]
    <3>1. r.headers = h
      BY <1>4, <1>7, <2>1, SMT
    <3>2. CASE h = <<>>
      BY <1>3, <3>1, <3>2, SMT
    <3>3. CASE h # <<>>
      BY <1>3, <3>1, <3>3, Zenon
    <3> QED BY <3>2, <3>3
  <2>4. \A i \in DOMAIN h : h[i] \in [name : STRING, value : Seq(STRING)]
    <3>1. \A S : h \in Seq(S) => \A i \in DOMAIN h : h[i] \in S
      BY ONLY SMT
    <3> QED BY <2>2, <3>1, Zenon
  <2>5. ASSUME NEW x \in [name : STRING, value : Seq(STRING)]
        PROVE  LET l == HeaderLine(x)
               IN  /\ l.form = "semicolon" <=> x.value = <<>>
                   /\ l.value = x.value
                   /\ [name |-> l.name, value |-> l.value] = x
    <3>1. PICK l : l = HeaderLine(x)
      OBVIOUS
    <3>2. l.name = x.name /\ l.value = x.value
      BY <3>1, SMT DEF HeaderLine
    <3>3. x.value = <<>> <=> l.form = "semicolon"
      BY <3>1, SMT DEF HeaderLine
    <3>4. [name |-> x.name, value |-> x.value] = x
      BY SMT
    <3> QED BY ONLY <3>1, <3>2, <3>3, <3>4, SMT
  <2>6. Range(n.list) = {HeaderLine(h[i]) : i \in DOMAIN h} /\ Range(h) = {h[i] : i \in DOMAIN h}
    BY <2>3, SMT DEF Range
  <2> DEFINE Good(l) == l.form = "semicolon" \/ ~OnlyBlanks(l.value)
             Sent(f) == f.value = <<>> \/ ~OnlyBlanks(f.value)
             Field(l) == [name |-> l.name, value |-> l.value]
  <2>7. \A i \in DOMAIN h : (Good(HeaderLine(h[i])) <=> Sent(h[i])) /\ Field(HeaderLine(h[i])) = h[i]
    BY <2>4, <2>5, Zenon
  <2> HIDE DEF Good, Sent, Field
  <2>8. {Field(line) : line \in {l \in Range(n.list) : Good(l)}} = {f \in Range(h) : Sent(f)}
    BY ONLY <2>6, <2>7, SMT
  <2> QED BY <2>1, <2>8, Zenon DEF Good, Sent, Field
<1>8. ASSUME o.redirects.type = "number"
      PROVE  (IF n.follow = 1 THEN n.redirs ELSE 0) * 2 = o.redirects.v
  <2>1. PICK k \in 0..20 : o.redirects.v = 2 * k
    BY <1>8, SMT DEF Passes, Accepted, CheckRedirects
  <2>2. r.max_redirects = k
    BY <1>4, <1>8, <2>1, SMT
  <2> QED BY <1>3, <2>1, <2>2, SMT
<1> QED BY <1>5, <1>6, <1>7, <1>8, Zenon

\* Between the two steps the request is the one that the argument asks for.
RequestInv ==
    /\ options \in Options
    /\ stage = "read" => Passes(options) /\ request = RequestOf(options)
    /\ SentAsAsked

(* ReadRequest and Start establish and keep the invariant.                 *)
LEMMA RequestStep == RequestInv /\ [RequestNext]_askedVars => RequestInv'
<1> SUFFICES ASSUME RequestInv, [RequestNext]_askedVars PROVE RequestInv'
  OBVIOUS
<1>1. CASE RefuseRequest
  <2>1. options' = options /\ stage' = "refused"
    BY <1>1, Zenon DEF RefuseRequest
  <2> QED BY <2>1, SMT DEF RequestInv, SentAsAsked
<1>2. CASE ReadArgument
  <2>1. /\ options' = options /\ stage' = "read" /\ Passes(options)
        /\ request' = RequestOf(options)
    BY <1>2, Zenon DEF ReadArgument, RequestOf
  <2>2. Passes(options') /\ request' = RequestOf(options')
    BY <2>1, Zenon
  <2> QED BY <2>1, <2>2, SMT DEF RequestInv, SentAsAsked
<1>3. CASE StartRequest
  <2>1. options' = options /\ stage' = "started" /\ stage = "read" /\ easy' = Configured(request)
    BY <1>3, Zenon DEF StartRequest
  <2>2. options \in Options /\ Passes(options) /\ request = RequestOf(options)
    BY <2>1, Zenon DEF RequestInv
  <2>3. PICK n, o : n = easy' /\ o = options /\ n = Configured(RequestOf(o))
    BY <2>1, <2>2, Zenon
  <2>4. 1 <= n.connect /\ n.connect <= n.timeout /\ n.timeout <= Hour
    BY <2>2, <2>3, TimeoutsSent
  <2>5. ASSUME options.type = "table"
        PROVE  /\ (IF easy'.custom # <<>> THEN easy'.custom[1] ELSE easy'.verb) = Method(options)
               /\ HasBody(options) => easy'.sent = options.body.v.size
               /\ options.headers.type = "table" =>
                    {[name |-> line.name, value |-> line.value] :
                        line \in {l \in Range(easy'.list) : l.form = "semicolon" \/ ~OnlyBlanks(l.value)}}
                    = {f \in Range(options.headers.v) : f.value = <<>> \/ ~OnlyBlanks(f.value)}
               /\ options.redirects.type = "number" =>
                    (IF easy'.follow = 1 THEN easy'.redirs ELSE 0) * 2 = options.redirects.v
    BY <2>2, <2>3, <2>5, TableSent, Zenon
  <2>6. options.type = "table" =>
            /\ options.method.type = "string" => Method(options) = options.method.upper
            /\ options.method.type = "nil" =>
                Method(options) = IF HasBody(options) THEN "POST" ELSE "GET"
    BY SMT DEF Method
  <2>7. SentAsAsked'
    BY <2>1, <2>3, <2>4, <2>5, <2>6, SMT DEF SentAsAsked, Verb, SentHeaders, HasBody
  <2> QED BY <2>1, <2>2, <2>7, SMT DEF RequestInv
<1>4. CASE UNCHANGED askedVars
  BY <1>4 DEF askedVars, RequestInv, SentAsAsked, Verb, SentHeaders
<1> QED BY <1>1, <1>2, <1>3, <1>4 DEF RequestNext

(***************************************************************************)
(* The request that http.request hands to libcurl is the one the script    *)
(* asked for (Http::Start after ReadRequest), for every argument: method,  *)
(* whole body, every header but one that is all blanks, redirects, and     *)
(* timeouts that end it.                                                   *)
(***************************************************************************)
THEOREM RequestsSent == RequestSpec => []SentAsAsked
<1>1. RequestInit => RequestInv
  BY SMT DEF RequestInit, RequestInv, SentAsAsked
<1>2. RequestInv => SentAsAsked
  BY DEF RequestInv
<1> QED BY <1>1, <1>2, RequestStep, PTL DEF RequestSpec

-----------------------------------------------------------------------------
\* Properties: declarations.

Whole == {"Int32", "UInt32", "UInt16", "UInt8", "Channel", "Double", "Boolean"}
Plain == Whole \cup {"Float", "String"}
Shapes == {"value", "void", "keyed", "table", "voidTable"}

(* The parts of a declaration.                                             *)
LEMMA Parts ==
    ASSUME NEW n, NEW f, NEW t, NEW o, NEW s
    PROVE  LET d == Declared(n, f, t, o, s)
           IN  d.name = n /\ d.field = f /\ d.types = t /\ d.optional = o /\ d.shape = s
BY DEF Declared

TypedAs(k, n, types) ==
    \A i \in DOMAIN types :
        /\ types[i] \in Plain \cup {"Colour", "Player"}
        /\ types[i] = "Colour" <=> (k = "Player" /\ n = "color") \/ (n = "wastedSettings" /\ i = 5)
        /\ types[i] = "Player" <=> n = "spectateTarget"
        /\ types[i] = "Float" <=> n \in FloatNames \/ (n = "wastedSettings" /\ i \in {3, 4})

WellDeclared(k, d) ==
    /\ d.shape \in Shapes
    /\ ~IsTable(d) => DOMAIN d.types = {1}
    /\ TypedAs(k, d.name, d.types)
    /\ d.shape = "keyed" => d.name \in {"Option", "3DArrowToPlayer", "PartStatus", "TyreStatus", "HandlingRule"}
    /\ d.name \notin {"repair", "resetHandlingRule", "none", "vehicle", "taxiLight"}
    /\ k = "Checkpoint" => d.name # "alpha"
    /\ k = "Vehicle" => d.name \notin RotationNames
    /\ d.field \notin {"PlayerVehicleId", "PlayerInVehicleSlot", "VehicleRotation", "VehicleSpawnRotation"}

(* The declarations of a player are well formed. *)
LEMMA PlayerDeclared == \A d \in Properties("Player") : WellDeclared("Player", d)
<1>1. \A d \in PlayerRows : WellDeclared("Player", d)
  BY Parts, SMT DEF PlayerRows, P, WellDeclared, TypedAs, Plain, Whole, FloatNames, RotationNames, Shapes, IsTable
<1>2. \A d \in PlayerPlaces : WellDeclared("Player", d)
  BY Parts, SMT DEF PlayerPlaces, P, Vec3, T, WellDeclared, TypedAs, Plain, Whole, FloatNames, RotationNames, Shapes, IsTable
<1>3. \A d \in PlayerMethods : WellDeclared("Player", d)
  BY Parts, SMT DEF PlayerMethods, P, Keyed, WellDeclared, TypedAs, Plain, Whole, FloatNames, RotationNames, Shapes, IsTable
<1>4. \A d \in PlayerArrows : WellDeclared("Player", d)
  BY Parts, SMT DEF PlayerArrows, Keyed, WellDeclared, TypedAs, Plain, Whole, FloatNames, RotationNames, Shapes, IsTable
<1> QED BY <1>1, <1>2, <1>3, <1>4 DEF Properties

(* The declarations of a vehicle are well formed. *)
LEMMA VehicleDeclared == \A d \in Properties("Vehicle") : WellDeclared("Vehicle", d)
<1>1. \A d \in VehicleRows : WellDeclared("Vehicle", d)
  BY Parts, SMT DEF VehicleRows, P, WellDeclared, TypedAs, Plain, Whole, FloatNames, RotationNames, Shapes, IsTable
<1>2. \A d \in VehicleTables : WellDeclared("Vehicle", d)
  BY Parts, SMT DEF VehicleTables, Vec3, T, WellDeclared, TypedAs, Plain, Whole, FloatNames, RotationNames, Shapes, IsTable
<1>3. \A d \in VehicleMethods : WellDeclared("Vehicle", d)
  BY Parts, SMT DEF VehicleMethods, Keyed, WellDeclared, TypedAs, Plain, Whole, FloatNames, RotationNames, Shapes, IsTable
<1>4. \A d \in VehicleRules : WellDeclared("Vehicle", d)
  BY Parts, SMT DEF VehicleRules, Keyed, WellDeclared, TypedAs, Plain, Whole, FloatNames, RotationNames, Shapes, IsTable
<1> QED BY <1>1, <1>2, <1>3, <1>4 DEF Properties

(* The declarations of an object are well formed. *)
LEMMA ObjectDeclared == \A d \in Properties("Object") : WellDeclared("Object", d)
<1>1. \A d \in ObjectRows : WellDeclared("Object", d)
  BY Parts, SMT DEF ObjectRows, P, Vec3, T, WellDeclared, TypedAs, Plain, Whole, FloatNames, RotationNames, Shapes, IsTable
<1> QED BY <1>1 DEF Properties

(* The declarations of a pickup are well formed. *)
LEMMA PickupDeclared == \A d \in Properties("Pickup") : WellDeclared("Pickup", d)
<1>1. \A d \in PickupRows : WellDeclared("Pickup", d)
  BY Parts, SMT DEF PickupRows, P, Vec3, T, Keyed, WellDeclared, TypedAs, Plain, Whole, FloatNames, RotationNames, Shapes, IsTable
<1> QED BY <1>1 DEF Properties

(* The declarations of a checkpoint are well formed. *)
LEMMA CheckpointDeclared == \A d \in Properties("Checkpoint") : WellDeclared("Checkpoint", d)
<1>1. \A d \in CheckpointRows : WellDeclared("Checkpoint", d)
  BY Parts, SMT DEF CheckpointRows, P, Vec3, T, WellDeclared, TypedAs, Plain, Whole, FloatNames, RotationNames, Shapes, IsTable
<1> QED BY <1>1 DEF Properties

(* The declarations of Server are well formed. *)
LEMMA ServerDeclared == \A d \in Properties("Server") : WellDeclared("Server", d)
<1>1. \A d \in ServerRows : WellDeclared("Server", d)
  BY Parts, SMT DEF ServerRows, P, WellDeclared, TypedAs, Plain, Whole, FloatNames, RotationNames, Shapes, IsTable
<1>2. \A d \in ServerOptions : WellDeclared("Server", d)
  BY Parts, SMT DEF ServerOptions, Keyed, WellDeclared, TypedAs, Plain, Whole, FloatNames, RotationNames, Shapes, IsTable
<1>3. \A d \in WorldRows : WellDeclared("Server", d)
  BY Parts, SMT DEF WorldRows, V, WellDeclared, TypedAs, Plain, Whole, FloatNames, RotationNames, Shapes, IsTable
<1>4. \A d \in {WastedSettings} : WellDeclared("Server", d)
  BY Parts, SMT DEF WastedSettings, WellDeclared, TypedAs, Plain, Whole, FloatNames, RotationNames, Shapes, IsTable
<1> QED BY <1>1, <1>2, <1>3, <1>4 DEF Properties

(* No two properties of a player have the same name or the same field. *)
LEMMA PlayerOnce == \A d, e \in Properties("Player") : d.name = e.name \/ d.field = e.field => d = e
BY Parts, SMT DEF Properties, PlayerRows, PlayerPlaces, PlayerMethods, PlayerArrows, P, Vec3, T, Keyed

(* No two properties of a vehicle have the same name or the same field. *)
LEMMA VehicleOnce == \A d, e \in Properties("Vehicle") : d.name = e.name \/ d.field = e.field => d = e
BY Parts, SMT DEF Properties, VehicleRows, VehicleTables, VehicleMethods, VehicleRules, P, Vec3, T, Keyed

(* No two properties of an object have the same name or the same field. *)
LEMMA ObjectOnce == \A d, e \in Properties("Object") : d.name = e.name \/ d.field = e.field => d = e
BY Parts, SMT DEF Properties, ObjectRows, P, Vec3, T

(* No two properties of a pickup have the same name or the same field. *)
LEMMA PickupOnce == \A d, e \in Properties("Pickup") : d.name = e.name \/ d.field = e.field => d = e
BY Parts, SMT DEF Properties, PickupRows, P, Vec3, T, Keyed

(* No two properties of a checkpoint have the same name or the same field. *)
LEMMA CheckpointOnce == \A d, e \in Properties("Checkpoint") : d.name = e.name \/ d.field = e.field => d = e
BY Parts, SMT DEF Properties, CheckpointRows, P, Vec3, T

(* No two properties of Server have the same name or the same field. *)
LEMMA ServerOnce == \A d, e \in Properties("Server") : d.name = e.name \/ d.field = e.field => d = e
BY Parts, SMT DEF Properties, ServerRows, ServerOptions, WorldRows, WastedSettings, P, Keyed, V

(* Declarations are well formed, and a name or a field has one.            *)
LEMMA Declarations ==
    ASSUME NEW k \in Kinds
    PROVE  /\ \A d \in Properties(k) : WellDeclared(k, d)
           /\ \A d, e \in Properties(k) : d.name = e.name \/ d.field = e.field => d = e
<1>1. \A d \in Properties(k) : WellDeclared(k, d)
  BY PlayerDeclared, VehicleDeclared, ObjectDeclared, PickupDeclared, CheckpointDeclared, ServerDeclared,
     Zenon DEF Kinds
<1>2. \A d, e \in Properties(k) : d.name = e.name \/ d.field = e.field => d = e
  BY PlayerOnce, VehicleOnce, ObjectOnce, PickupOnce, CheckpointOnce, ServerOnce, Zenon DEF Kinds
<1> QED BY <1>1, <1>2

-----------------------------------------------------------------------------
\* Properties: rows.

(* The parts of a row.                                                     *)
LEMMA RowParts ==
    ASSUME NEW d, NEW key
    PROVE  LET r == Row(d, key)
           IN  /\ r.name = <<d.name, key>>
               /\ r.fields = IF IsTable(d) THEN [i \in DOMAIN d.types |-> <<d.field, i>>]
                                           ELSE <<<<d.field, key>>>>
               /\ r.types = d.types /\ r.optional = d.optional /\ r.table = IsTable(d)
BY DEF Row

(* Every row comes from one declaration.                                   *)
LEMMA RowDeclared ==
    ASSUME NEW k \in Kinds, NEW r \in Rows[k]
    PROVE  \E d \in Properties(k) : \E key \in KeysOf(d) : r = Row(d, key)
BY Zenon DEF Rows

(* And every declaration gives its rows.                                   *)
LEMMA DeclaredRow ==
    ASSUME NEW k \in Kinds, NEW d \in Properties(k), NEW key \in KeysOf(d)
    PROVE  Row(d, key) \in Rows[k]
<1> DEFINE Of(e) == {Row(e, x) : x \in KeysOf(e)}
<1>1. Rows[k] = UNION {Of(e) : e \in Properties(k)}
  BY Zenon DEF Rows
<1>2. Row(d, key) \in Of(d)
  BY Zenon
<1> HIDE DEF Of
<1> QED BY <1>1, <1>2, SMT

\* The names of a vehicle's rotations.
TurnNames == {<<"rotation", 0>>, <<"angle", 0>>, <<"spawnRotation", 0>>}

RowOf(k, r) ==
    /\ DOMAIN r.fields = DOMAIN r.types
    /\ r.table \in BOOLEAN
    /\ ~r.table => DOMAIN r.types = {1}
    /\ \A i, j \in DOMAIN r.fields : i # j => r.fields[i] # r.fields[j]
    /\ \A i \in DOMAIN r.fields : r.fields[i] \in Fields(k) /\ r.fields[i] \notin OtherFields \cup TurnFields
    /\ r.name \notin {<<"repair", 0>>, <<"resetHandlingRule", 0>>, <<"none", 0>>, <<"vehicle", 0>>, <<"taxiLight", 0>>}
    /\ k = "Checkpoint" => r.name # <<"alpha", 0>>
    /\ k = "Vehicle" => r.name \notin TurnNames

\* What a declared type makes of a value: where colours and players are.
TypesOf(k, r) ==
    \A i \in DOMAIN r.types :
        /\ r.types[i] \in Plain \cup {"Colour", "Player"}
        /\ r.types[i] = "Colour" <=>
                (k = "Player" /\ r.name = <<"color", 0>>) \/ (r.name = <<"wastedSettings", 0>> /\ i = 5)
        /\ r.types[i] = "Player" <=> r.name = <<"spectateTarget", 0>>
        /\ r.types[i] = "Float" <=> r.name[1] \in FloatNames \/ (r.name = <<"wastedSettings", 0>> /\ i \in {3, 4})

(* Every row has one type for each of its fields, and no field twice.      *)
LEMMA RowFacts ==
    ASSUME NEW k \in Kinds, NEW r \in Rows[k]
    PROVE  RowOf(k, r) /\ TypesOf(k, r)
<1>1. PICK d \in Properties(k) : \E key \in KeysOf(d) : r = Row(d, key)
  BY RowDeclared
<1>2. PICK key \in KeysOf(d) : r = Row(d, key)
  BY <1>1
<1>3. WellDeclared(k, d)
  BY Declarations
<1>4. /\ r.name = <<d.name, key>> /\ r.types = d.types /\ r.table = IsTable(d)
      /\ r.fields = IF IsTable(d) THEN [i \in DOMAIN d.types |-> <<d.field, i>>] ELSE <<<<d.field, key>>>>
  BY <1>2, RowParts
<1>5. DOMAIN r.fields = DOMAIN r.types /\ r.table \in BOOLEAN /\ (~r.table => DOMAIN r.types = {1})
  <2>1. IsTable(d) \in BOOLEAN /\ (~IsTable(d) => DOMAIN d.types = {1})
    <3>1. IsTable(d) \in BOOLEAN
      BY DEF IsTable
    <3> QED BY <1>3, <3>1, Zenon DEF WellDeclared
  <2>2. CASE IsTable(d)
    BY <1>4, <2>1, <2>2, Zenon
  <2>3. CASE ~IsTable(d)
    <3>1. r.fields = <<<<d.field, key>>>>
      BY <1>4, <2>3
    <3>2. DOMAIN r.fields = {1}
      BY <3>1, SMT
    <3> QED BY <1>4, <2>1, <2>3, <3>2, Zenon
  <2> QED BY <2>2, <2>3
<1>6. \A i, j \in DOMAIN r.fields : i # j => r.fields[i] # r.fields[j]
  BY <1>3, <1>4, <1>5, SMT DEF WellDeclared
<1>7. ASSUME NEW i \in DOMAIN r.fields
      PROVE  r.fields[i] \in Fields(k) /\ r.fields[i] \notin OtherFields \cup TurnFields
  <2>1. r.fields[i] \in Fields(k)
    <3> DEFINE Of(q) == {q.fields[m] : m \in DOMAIN q.fields}
    <3>1. Fields(k) = (UNION {Of(q) : q \in Rows[k]})
                      \cup (IF k = "Player" THEN OtherFields ELSE IF k = "Vehicle" THEN TurnFields ELSE {})
      BY Zenon DEF Fields
    <3>2. r.fields[i] \in Of(r)
      BY Zenon
    <3> HIDE DEF Of
    <3> QED BY <3>1, <3>2, SMT
  <2>2. r.fields[i][1] = d.field
    BY <1>3, <1>4, <1>5, SMT DEF WellDeclared
  <2>3. r.fields[i] \notin OtherFields \cup TurnFields
    BY <1>3, <2>2, SMT DEF WellDeclared, OtherFields, TurnFields
  <2> QED BY <2>1, <2>3
<1>8. d.shape # "keyed" => key = 0
  BY DEF KeysOf
<1>9. /\ r.name \notin {<<"repair", 0>>, <<"resetHandlingRule", 0>>, <<"none", 0>>, <<"vehicle", 0>>, <<"taxiLight", 0>>}
      /\ k = "Checkpoint" => r.name # <<"alpha", 0>>
      /\ k = "Vehicle" => r.name \notin TurnNames
  BY <1>3, <1>4, SMT DEF WellDeclared, TurnNames, RotationNames
<1>10. TypesOf(k, r)
  <2>1. d.name \in {"color", "wastedSettings", "spectateTarget"} => key = 0
    BY <1>3, <1>8, SMT DEF WellDeclared
  <2> QED BY <1>3, <1>4, <2>1, SMT DEF WellDeclared, TypedAs, TypesOf
<1> QED BY <1>5, <1>6, <1>7, <1>9, <1>10 DEF RowOf

(* A name has one row, and no field is in two rows.                        *)
LEMMA RowsApart ==
    ASSUME NEW k \in Kinds, NEW r \in Rows[k], NEW s \in Rows[k]
    PROVE  /\ r.name = s.name => r.fields = s.fields
           /\ r.name # s.name => \A i \in DOMAIN r.fields, j \in DOMAIN s.fields : r.fields[i] # s.fields[j]
<1>1. PICK d \in Properties(k) : \E key \in KeysOf(d) : r = Row(d, key)
  BY RowDeclared
<1>2. PICK key \in KeysOf(d) : r = Row(d, key)
  BY <1>1
<1>3. PICK e \in Properties(k) : \E x \in KeysOf(e) : s = Row(e, x)
  BY RowDeclared
<1>4. PICK x \in KeysOf(e) : s = Row(e, x)
  BY <1>3
<1>5. /\ r.name = <<d.name, key>> /\ r.types = d.types
      /\ r.fields = IF IsTable(d) THEN [i \in DOMAIN d.types |-> <<d.field, i>>] ELSE <<<<d.field, key>>>>
  BY <1>2, RowParts
<1>6. /\ s.name = <<e.name, x>> /\ s.types = e.types
      /\ s.fields = IF IsTable(e) THEN [i \in DOMAIN e.types |-> <<e.field, i>>] ELSE <<<<e.field, x>>>>
  BY <1>4, RowParts
<1>7. d.name = e.name \/ d.field = e.field => d = e
  BY Declarations
<1>8. d.name = e.name => d = e
  BY <1>7
<1>9. ASSUME r.name = s.name PROVE r.fields = s.fields
  <2>1. d.name = e.name /\ key = x
    BY <1>5, <1>6, <1>9, SMT
  <2> QED BY <1>5, <1>6, <1>8, <2>1
<1>10. ASSUME r.name # s.name, NEW i \in DOMAIN r.fields, NEW j \in DOMAIN s.fields, r.fields[i] = s.fields[j]
       PROVE  FALSE
  <2>1. r.fields[i][1] = d.field /\ s.fields[j][1] = e.field
    BY <1>5, <1>6, SMT
  <2>2. d = e
    BY <1>7, <1>10, <2>1
  <2>3. key # x
    BY <1>5, <1>6, <1>10, <2>2
  <2>4. d.shape = "keyed"
    BY <2>2, <2>3, SMT DEF KeysOf
  <2>5. ~IsTable(d)
    BY <2>4, SMT DEF IsTable
  <2>6. r.fields[i] = <<d.field, key>> /\ s.fields[j] = <<d.field, x>>
    BY <1>5, <1>6, <2>2, <2>5, SMT
  <2>7. <<d.field, key>> = <<d.field, x>>
    BY <1>10, <2>6, Zenon
  <2> QED BY <2>3, <2>7, SMT
<1> QED BY ONLY <1>9, <1>10, Zenon

(* The fields that taxiLight, repair, resetHandlingRule and a checkpoint's *)
(* alpha write exist, and of the rows only lightsData and color read the   *)
(* ones of taxiLight and alpha.                                            *)
LEMMA DerivedFields ==
    /\ {<<"VehicleLightsData", 0>>, <<"VehicleHealth", 0>>, <<"VehicleDamageData", 0>>} \subseteq Fields("Vehicle")
    /\ \A key \in Keys : <<"InstHandlingRule", key>> \in Fields("Vehicle")
    /\ \A i \in 1..4 : <<"CheckPointColour", i>> \in Fields("Checkpoint")
    /\ \A r \in Rows["Vehicle"] : \A i \in DOMAIN r.fields :
            r.fields[i] = <<"VehicleLightsData", 0>> => r.name = <<"lightsData", 0>>
    /\ \A r \in Rows["Checkpoint"] : \A i \in DOMAIN r.fields :
            r.fields[i][1] = "CheckPointColour" => r.name = <<"color", 0>>
<1> DEFINE lights == P("lightsData", "VehicleLightsData", "UInt32")
           colour == T("color", "CheckPointColour", <<"Channel", "Channel", "Channel", "Channel">>, {4})
<1>1. "Vehicle" \in Kinds /\ "Checkpoint" \in Kinds
  BY DEF Kinds
<1>2. ASSUME NEW n, NEW f, NEW t, P(n, f, t) \in Properties("Vehicle")
      PROVE  /\ <<f, 0>> \in Fields("Vehicle")
             /\ \E r \in Rows["Vehicle"] : r.name = <<n, 0>> /\ r.fields = <<<<f, 0>>>>
  <2>1. PICK d : d = P(n, f, t)
    OBVIOUS
  <2>2. d.name = n /\ d.field = f /\ d.shape = "value" /\ ~IsTable(d)
    BY <2>1, Parts, SMT DEF P, IsTable
  <2>3. 0 \in KeysOf(d)
    BY <2>2, SMT DEF KeysOf
  <2>4. Row(d, 0) \in Rows["Vehicle"]
    BY <1>1, <1>2, <2>1, <2>3, DeclaredRow
  <2>5. PICK r \in Rows["Vehicle"] : r = Row(d, 0)
    BY <2>4
  <2>6. r.name = <<n, 0>> /\ r.fields = <<<<f, 0>>>>
    BY <2>2, <2>5, RowParts, Zenon
  <2>7. r.fields[1] \in Fields("Vehicle") /\ r.fields[1] = <<f, 0>>
    <3>1. 1 \in DOMAIN r.fields /\ r.fields[1] = <<f, 0>>
      BY <2>6, SMT
    <3> QED BY <1>1, <3>1, RowFacts DEF RowOf
  <2> QED BY <2>6, <2>7
<1>3. /\ lights \in Properties("Vehicle")
      /\ P("health", "VehicleHealth", "Float") \in Properties("Vehicle")
      /\ P("damage", "VehicleDamageData", "UInt32") \in Properties("Vehicle")
      /\ Keyed("HandlingRule", "InstHandlingRule", "Double") \in Properties("Vehicle")
      /\ colour \in Properties("Checkpoint")
  BY SMT DEF Properties, VehicleRows, VehicleRules, CheckpointRows
<1>4. {<<"VehicleLightsData", 0>>, <<"VehicleHealth", 0>>, <<"VehicleDamageData", 0>>} \subseteq Fields("Vehicle")
  BY <1>2, <1>3, Zenon
<1>5. ASSUME NEW key \in Keys PROVE <<"InstHandlingRule", key>> \in Fields("Vehicle")
  <2>1. PICK d : d = Keyed("HandlingRule", "InstHandlingRule", "Double")
    OBVIOUS
  <2>2. d.field = "InstHandlingRule" /\ d.shape = "keyed" /\ ~IsTable(d)
    BY <2>1, Parts, SMT DEF Keyed, IsTable
  <2>3. key \in KeysOf(d)
    BY <2>2, SMT DEF KeysOf
  <2>4. PICK r \in Rows["Vehicle"] : r = Row(d, key)
    BY <1>1, <1>3, <2>1, <2>3, DeclaredRow
  <2>5. r.fields = <<<<"InstHandlingRule", key>>>>
    BY <2>2, <2>4, RowParts, Zenon
  <2>6. 1 \in DOMAIN r.fields /\ r.fields[1] = <<"InstHandlingRule", key>>
    BY <2>5, SMT
  <2> QED BY <1>1, <2>6, RowFacts DEF RowOf
<1>6. PICK c \in Properties("Checkpoint") : c = colour
  BY <1>3
<1>7. c.name = "color" /\ c.field = "CheckPointColour" /\ IsTable(c) /\ DOMAIN c.types = 1..4 /\ KeysOf(c) = {0}
  BY <1>6, Parts, SMT DEF T, IsTable, KeysOf
<1>8. ASSUME NEW i \in 1..4 PROVE <<"CheckPointColour", i>> \in Fields("Checkpoint")
  <2>1. PICK r \in Rows["Checkpoint"] : r = Row(c, 0)
    BY <1>1, <1>7, DeclaredRow
  <2>2. r.fields = [m \in 1..4 |-> <<"CheckPointColour", m>>]
    BY <1>7, <2>1, RowParts, ZenonT(60)
  <2>3. i \in DOMAIN r.fields /\ r.fields[i] = <<"CheckPointColour", i>>
    BY <2>2
  <2> QED BY <1>1, <2>3, RowFacts DEF RowOf
<1>9. ASSUME NEW r \in Rows["Vehicle"], NEW i \in DOMAIN r.fields, r.fields[i] = <<"VehicleLightsData", 0>>
      PROVE  r.name = <<"lightsData", 0>>
  <2>1. PICK s \in Rows["Vehicle"] : s.name = <<"lightsData", 0>> /\ s.fields = <<<<"VehicleLightsData", 0>>>>
    BY <1>2, <1>3, Zenon
  <2>2. 1 \in DOMAIN s.fields /\ s.fields[1] = <<"VehicleLightsData", 0>>
    BY <2>1, SMT
  <2> QED BY <1>1, <1>9, <2>1, <2>2, RowsApart
<1>10. ASSUME NEW r \in Rows["Checkpoint"], NEW i \in DOMAIN r.fields, r.fields[i][1] = "CheckPointColour"
       PROVE  r.name = <<"color", 0>>
  <2>1. PICK d \in Properties("Checkpoint") : \E key \in KeysOf(d) : r = Row(d, key)
    BY <1>1, RowDeclared
  <2>2. PICK key \in KeysOf(d) : r = Row(d, key)
    BY <2>1
  <2>3. /\ r.name = <<d.name, key>>
        /\ r.fields = IF IsTable(d) THEN [m \in DOMAIN d.types |-> <<d.field, m>>] ELSE <<<<d.field, key>>>>
    BY <2>2, RowParts
  <2>4. r.fields[i][1] = d.field
    BY <2>3, SMT
  <2>5. d = c
    BY <1>1, <1>7, <1>10, <2>4, Declarations
  <2> QED BY <1>7, <2>2, <2>3, <2>5
<1> QED BY ONLY <1>4, <1>5, <1>8, <1>9, <1>10, Zenon

-----------------------------------------------------------------------------
\* Properties: arithmetic of the taxi light's bit.

(* Quotient and remainder of an integer.                                   *)
LEMMA DivMod ==
    ASSUME NEW d \in Nat, d > 0, NEW v \in Int
    PROVE  v \div d \in Int /\ v % d \in Int /\ 0 <= v % d /\ v % d < d /\ v = d * (v \div d) + (v % d)
BY SMT

(* They are the only ones.                                                 *)
LEMMA DivModUnique ==
    ASSUME NEW d \in Nat, d > 0, NEW q \in Int, NEW m \in Int, 0 <= m, m < d, NEW v \in Int, v = d * q + m
    PROVE  v \div d = q /\ v % d = m
<1>1. PICK p \in Int, r \in Int : p = v \div d /\ r = v % d /\ 0 <= r /\ r < d /\ v = d * p + r
  BY DivMod
<1>2. d * (q - p) = r - m
  <2>1. PICK x \in Int, y \in Int : x = d * q /\ y = d * p
    BY <1>1, SMT
  <2>2. d * (q - p) = x - y
    BY <2>1, SMT
  <2> QED BY <1>1, <2>1, <2>2, SMT
<1>3. -d < d * (q - p) /\ d * (q - p) < d
  BY <1>1, <1>2, SMT
<1>4. q - p = 0
  <2>1. q - p \in Int
    BY <1>1
  <2>2. PICK k \in Int : k = q - p
    BY <2>1
  <2>3. -d < d * k /\ d * k < d
    BY <1>3, <2>2
  <2>4. k = 0
    BY ONLY <2>3, d \in Nat, d > 0, k \in Int, SMT
  <2> QED BY <2>2, <2>4
<1> QED BY <1>1, <1>2, <1>4, SMT

(* Setting the bit changes the bit alone.                                  *)
LEMMA TaxiWritten ==
    ASSUME NEW lights \in Int, NEW on \in {0, 1}, NEW n, n = lights + (on - TaxiBit(lights)) * Bytes
    PROVE  /\ n \in Int /\ TaxiBit(n) = on /\ n % Bytes = lights % Bytes
           /\ n \div (2 * Bytes) = lights \div (2 * Bytes)
<1>1. PICK q \in Int, m \in Int :
        q = lights \div Bytes /\ m = lights % Bytes /\ 0 <= m /\ m < Bytes /\ lights = Bytes * q + m
  BY WidthAssumption, DivMod
<1>2. PICK h \in Int, b \in Int : h = q \div 2 /\ b = q % 2 /\ 0 <= b /\ b < 2 /\ q = 2 * h + b
  BY DivMod
<1>3. b \in {0, 1} /\ TaxiBit(lights) = b
  <2>1. b \in {0, 1}
    BY <1>2, SMT
  <2>2. TaxiBit(lights) = b
    BY <1>1, <1>2, Zenon DEF TaxiBit
  <2> QED BY <2>1, <2>2
<1>4. PICK p \in Int : p = q + on - b
  BY <1>3
<1>5. n \in Int /\ n = Bytes * p + m
  <2>1. CASE on = b
    BY <1>1, <1>3, <1>4, <2>1, WidthAssumption, SMT
  <2>2. CASE on = 1 /\ b = 0
    BY <1>1, <1>3, <1>4, <2>2, WidthAssumption, SMT
  <2>3. CASE on = 0 /\ b = 1
    BY <1>1, <1>3, <1>4, <2>3, WidthAssumption, SMT
  <2> QED BY <1>3, <2>1, <2>2, <2>3, SMT
<1>6. n \div Bytes = p /\ n % Bytes = m
  <2>1. Bytes \in Nat /\ Bytes > 0
    BY WidthAssumption, SMT
  <2>2. 0 <= m /\ m < Bytes
    BY <1>1
  <2>3. PICK d \in Nat : d = Bytes
    BY <2>1
  <2>4. d > 0 /\ 0 <= m /\ m < d /\ n \in Int /\ n = d * p + m
    BY ONLY <1>5, <2>1, <2>2, <2>3
  <2>5. n \div d = p /\ n % d = m
    BY ONLY <2>4, d \in Nat, p \in Int, m \in Int, DivModUnique
  <2> QED BY ONLY <2>3, <2>5
<1>7. p % 2 = on
  <2>1. p = 2 * h + on
    BY <1>2, <1>4, SMT
  <2> QED BY <2>1, DivModUnique
<1>8. PICK w \in Nat : w = 2 * Bytes
  BY WidthAssumption, SMT
<1>9. ASSUME NEW x \in {0, 1}, NEW v \in Int, v = Bytes * (2 * h + x) + m
      PROVE  v \div w = h
  <2>1. CASE x = 0
    <3>1. v = w * h + m /\ m < w /\ w > 0
      BY <1>1, <1>8, <1>9, <2>1, WidthAssumption, SMT
    <3> QED BY <1>1, <3>1, DivModUnique, Zenon
  <2>2. CASE x = 1
    <3>1. v = w * h + (Bytes + m) /\ Bytes + m < w /\ w > 0 /\ Bytes + m \in Int /\ 0 <= Bytes + m
      BY <1>1, <1>8, <1>9, <2>2, WidthAssumption, SMT
    <3> QED BY <3>1, DivModUnique
  <2> QED BY <2>1, <2>2
<1>10. n \div w = h /\ lights \div w = h
  <2>1. p = 2 * h + on
    BY <1>2, <1>4, SMT
  <2>2. n = Bytes * (2 * h + on) + m /\ lights = Bytes * (2 * h + b) + m
    BY <1>1, <1>2, <1>5, <2>1
  <2> QED BY <1>3, <1>5, <1>9, <2>2
<1> QED BY <1>1, <1>5, <1>6, <1>7, <1>8, <1>10, Zenon DEF TaxiBit

(* Clearing the low byte keeps the bit.                                    *)
LEMMA LowByteCleared ==
    ASSUME NEW lights \in Int, NEW n, n = lights - (lights % Bytes)
    PROVE  n \in Int /\ n % Bytes = 0 /\ TaxiBit(n) = TaxiBit(lights)
<1>1. PICK q \in Int, m \in Int :
        q = lights \div Bytes /\ m = lights % Bytes /\ 0 <= m /\ m < Bytes /\ lights = Bytes * q + m
  BY WidthAssumption, DivMod
<1>2. n \in Int /\ n = Bytes * q + 0
  BY <1>1, WidthAssumption, SMT
<1>3. n \div Bytes = q /\ n % Bytes = 0
  BY <1>2, DivModUnique, WidthAssumption
<1> QED BY <1>1, <1>2, <1>3 DEF TaxiBit

-----------------------------------------------------------------------------
\* Properties: the store and what is written to it.

Typed ==
    /\ kind \in Kinds
    /\ server \in [Fields(kind) -> Int]
    /\ kind = "Player" => server[<<"PlayerVehicleId", 0>>] \in Nat

(* Write changes the fields it is given, to the values it is given.        *)
LEMMA Written ==
    ASSUME NEW fields, NEW values, NEW n, n = Write(fields, values),
           \A i, j \in DOMAIN fields : i # j => fields[i] # fields[j]
    PROVE  /\ DOMAIN n = DOMAIN server
           /\ \A i \in DOMAIN fields : fields[i] \in DOMAIN server => n[fields[i]] = values[i]
           /\ \A f \in DOMAIN server : (\A i \in DOMAIN fields : fields[i] # f) => n[f] = server[f]
<1>1. DOMAIN n = DOMAIN server
  BY Zenon DEF Write
<1>2. ASSUME NEW i \in DOMAIN fields, fields[i] \in DOMAIN server PROVE n[fields[i]] = values[i]
  <2>1. (CHOOSE j \in DOMAIN fields : fields[j] = fields[i]) = i
    BY SMT
  <2> QED BY <1>2, <2>1, Zenon DEF Write
<1>3. ASSUME NEW f \in DOMAIN server, \A i \in DOMAIN fields : fields[i] # f PROVE n[f] = server[f]
  BY <1>3, Zenon DEF Write
<1> QED BY <1>1, <1>2, <1>3

(* A player has the two fields of the vehicle they are in.                 *)
LEMMA VehicleFields == OtherFields \subseteq Fields("Player") /\ <<"PlayerVehicleId", 0>> \in Fields("Player")
<1> DEFINE rows == UNION {{r.fields[i] : i \in DOMAIN r.fields} : r \in Rows["Player"]}
<1>1. Fields("Player") = rows \cup OtherFields
  BY Zenon DEF Fields
<1> HIDE DEF rows
<1> QED BY <1>1, Zenon DEF OtherFields

(* A vehicle has the fields of its rotations.                              *)
LEMMA RotationFields == TurnFields \subseteq Fields("Vehicle")
<1> DEFINE rows == UNION {{r.fields[i] : i \in DOMAIN r.fields} : r \in Rows["Vehicle"]}
<1>1. "Vehicle" # "Player"
  BY SMT
<1>2. Fields("Vehicle") = rows \cup TurnFields
  BY <1>1, Zenon DEF Fields
<1> HIDE DEF rows
<1> QED BY <1>2, Zenon

(* Integers written to fields other than the player's vehicle keep Typed.  *)
LEMMA WrittenTyped ==
    ASSUME Typed, NEW fields, NEW values, NEW n, n = Write(fields, values),
           \A i, j \in DOMAIN fields : i # j => fields[i] # fields[j],
           \A i \in DOMAIN fields : fields[i] \in Fields(kind) /\ values[i] \in Int
    PROVE  /\ n \in [Fields(kind) -> Int]
           /\ (\A i \in DOMAIN fields : fields[i] # <<"PlayerVehicleId", 0>>) =>
                (kind = "Player" => n[<<"PlayerVehicleId", 0>>] \in Nat)
<1>1. DOMAIN server = Fields(kind) /\ \A f \in Fields(kind) : server[f] \in Int
  BY Zenon DEF Typed
<1>2. /\ DOMAIN n = Fields(kind)
      /\ \A i \in DOMAIN fields : n[fields[i]] = values[i]
      /\ \A f \in Fields(kind) : (\A i \in DOMAIN fields : fields[i] # f) => n[f] = server[f]
  BY <1>1, Written
<1>3. \A f \in Fields(kind) : n[f] \in Int
  BY <1>1, <1>2
<1>4. n = [f \in Fields(kind) |-> n[f]]
  BY <1>2, Zenon DEF Write
<1>5. kind = "Player" => <<"PlayerVehicleId", 0>> \in Fields(kind)
  BY VehicleFields
<1> QED BY <1>2, <1>3, <1>4, <1>5 DEF Typed

(* What failed checks leave is an integer too.                             *)
LEMMA BadInt == Bad \in Int
BY SMT DEF Bad

\* What a property reads as after n, or a value that is no table, was assigned to
\* its element i.
Read(k, name, i, n) ==
    IF ((name = <<"color", 0>> /\ k = "Player") \/ (name = <<"wastedSettings", 0>> /\ i = 5)) /\ n < 0
    THEN n + 2 * Half
    ELSE IF name[1] \in FloatNames \/ (name = <<"wastedSettings", 0>> /\ i \in {3, 4}) THEN Single(n)
    ELSE n
ReadAs(k, name, i, value) ==
    IF name = <<"spectateTarget", 0>> /\ value.type = "nil" THEN -1
    ELSE IF value.type = "string" THEN c_str(value)
    ELSE Read(k, name, i, value.v)

\* What an assigned value holds.
Held(value) == value.v \in Int /\ (value.type = "string" /\ value.e # <<>> => value.e[1] \in Int)

(* The nearest float is an integer.                                        *)
LEMMA SingleInt == \A n \in Int : Single(n) \in Int
BY WidthAssumption, SMT DEF Single

(* A colour is stored as its 32 bits.                                      *)
LEMMA ColourBits ==
    ASSUME NEW n \in Int32 \cup UInt32
    PROVE  n % (2 * Half) = IF n < 0 THEN n + 2 * Half ELSE n
<1>1. PICK w \in Nat : w = 2 * Half /\ w > 0
  BY WidthAssumption, SMT
<1>2. n \in Int /\ -w <= n /\ n < w
  BY <1>1, WidthAssumption, SMT DEF Int32, UInt32
<1>3. CASE n < 0
  <2>1. n = w * (-1) + (n + w) /\ n + w \in Int /\ 0 <= n + w /\ n + w < w
    BY <1>1, <1>2, <1>3, SMT
  <2>2. n % w = n + w
    BY <1>1, <1>2, <2>1, DivModUnique
  <2> QED BY <1>1, <1>3, <2>2
<1>4. CASE ~(n < 0)
  <2>1. n = w * 0 + n /\ 0 <= n
    BY <1>1, <1>2, <1>4, SMT
  <2>2. n % w = n
    BY <1>1, <1>2, <2>1, DivModUnique
  <2> QED BY <1>1, <1>4, <2>2
<1> QED BY <1>3, <1>4

(* What a check makes of a value that it accepts.                          *)
LEMMA ConvertedAs ==
    ASSUME NEW value, Held(value), NEW t \in Plain \cup {"Colour", "Player"},
           NEW n, n = Converted(t, value)
    PROVE  /\ n \in Int
           /\ n # Bad /\ t \in Whole => n = value.v /\ value.type # "string"
           /\ n # Bad /\ t = "Float" => n = Single(value.v) /\ value.type # "string"
           /\ n # Bad /\ t = "String" => n = c_str(value) /\ (value.type # "string" => n = value.v)
           /\ n # Bad /\ t = "Colour" =>
                /\ n = IF value.v < 0 THEN value.v + 2 * Half ELSE value.v
                /\ value.type # "string"
           /\ n # Bad /\ t = "Player" =>
                /\ n = IF value.type = "nil" THEN -1 ELSE value.v
                /\ value.type # "string"
<1>1. CASE t \in Whole
  <2>1. (n = value.v /\ value.type # "string") \/ n = Bad
    BY <1>1, SMT DEF Converted, Whole, CheckInteger, CheckNumber, CheckBoolean
  <2>2. t \notin {"Float", "String", "Colour", "Player"}
    BY <1>1, SMT DEF Whole
  <2> QED BY <1>1, <2>1, <2>2, BadInt, Zenon DEF Held
<1>2. CASE t = "Float"
  <2>1. (n = Single(value.v) /\ value.type # "string") \/ n = Bad
    BY <1>2, SMT DEF Converted, CheckFloat
  <2>2. Single(value.v) \in Int
    BY SingleInt DEF Held
  <2> QED BY <1>2, <2>1, <2>2, BadInt, SMT DEF Whole
<1>3. CASE t = "String"
  <2>1. n = c_str(value)
    BY <1>3, SMT DEF Converted
  <2>2. value.type # "string" => n = Bad \/ n = value.v
    BY <2>1, Zenon DEF c_str, CheckString
  <2>3. value.type = "string" => n \in Int
    BY <2>1, SMT DEF c_str, CheckString, Held
  <2>4. n \in Int
    BY <2>2, <2>3, BadInt, Zenon DEF Held
  <2>5. t \notin Whole /\ t \notin {"Float", "Colour", "Player"}
    BY <1>3, SMT DEF Whole
  <2> QED BY <1>3, <2>1, <2>2, <2>4, <2>5, Zenon
<1>4. CASE t = "Colour"
  <2>1. n = CheckColour(value)
    BY <1>4, SMT DEF Converted
  <2>2. n = Bad \/ (value.v \in Int32 \cup UInt32 /\ n = value.v % (2 * Half) /\ value.type # "string")
    BY <2>1, SMT DEF CheckColour, CheckInteger
  <2>3. n # Bad => n = IF value.v < 0 THEN value.v + 2 * Half ELSE value.v
    BY <2>2, ColourBits
  <2>4. n \in Int
    BY <2>3, BadInt, WidthAssumption, SMT DEF Held
  <2> QED BY <1>4, <2>2, <2>3, <2>4, SMT DEF Whole
<1>5. CASE t = "Player"
  <2>1. n = IF value.type = "nil" THEN -1 ELSE IF value.type = "player" THEN value.v ELSE Bad
    BY <1>5, SMT DEF Converted
  <2> QED BY <1>5, <2>1, BadInt, SMT DEF Whole, Held
<1> QED BY <1>1, <1>2, <1>3, <1>4, <1>5 DEF Plain

(* An element of an assigned value, as the server gets it.                 *)
LEMMA ElementAs ==
    ASSUME NEW k \in Kinds, NEW row \in Rows[k], NEW i \in DOMAIN row.types, NEW value, Held(value),
           NEW n, n = Converted(row.types[i], value)
    PROVE  n \in Int /\ (n # Bad => n = ReadAs(k, row.name, i, value))
<1>1. PICK t : t = row.types[i]
  OBVIOUS
<1>2. PICK name : name = row.name
  OBVIOUS
<1>3. /\ t \in Plain \cup {"Colour", "Player"}
      /\ t = "Colour" <=> (k = "Player" /\ name = <<"color", 0>>) \/ (name = <<"wastedSettings", 0>> /\ i = 5)
      /\ t = "Player" <=> name = <<"spectateTarget", 0>>
      /\ t = "Float" <=> name[1] \in FloatNames \/ (name = <<"wastedSettings", 0>> /\ i \in {3, 4})
  BY <1>1, <1>2, RowFacts DEF TypesOf
<1>0. n = Converted(t, value)
  BY <1>1, Zenon
<1>4. /\ n \in Int
      /\ n # Bad /\ t \in Whole => n = value.v /\ value.type # "string"
      /\ n # Bad /\ t = "Float" => n = Single(value.v) /\ value.type # "string"
      /\ n # Bad /\ t = "String" => n = c_str(value) /\ (value.type # "string" => n = value.v)
      /\ n # Bad /\ t = "Colour" =>
            /\ n = IF value.v < 0 THEN value.v + 2 * Half ELSE value.v
            /\ value.type # "string"
      /\ n # Bad /\ t = "Player" =>
            /\ n = IF value.type = "nil" THEN -1 ELSE value.v
            /\ value.type # "string"
  BY ONLY Held(value), <1>0, <1>3, ConvertedAs
<1>5. CASE t = "Colour"
  <2>1. t # "Player" /\ t # "Float"
    BY <1>5, SMT
  <2>2. Read(k, name, i, value.v) = IF value.v < 0 THEN value.v + 2 * Half ELSE value.v
    <3>1. (name = <<"color", 0>> /\ k = "Player") \/ (name = <<"wastedSettings", 0>> /\ i = 5)
      BY ONLY <1>3, <1>5, Zenon
    <3>2. ~(name[1] \in FloatNames \/ (name = <<"wastedSettings", 0>> /\ i \in {3, 4}))
      BY ONLY <1>3, <2>1, Zenon
    <3> QED BY ONLY <3>1, <3>2, Zenon DEF Read
  <2>3. name # <<"spectateTarget", 0>>
    BY ONLY <1>3, <2>1, Zenon
  <2> QED BY ONLY <1>2, <1>4, <1>5, <2>2, <2>3, Zenon DEF ReadAs
<1>6. ASSUME t # "Colour", t # "Float" PROVE Read(k, name, i, value.v) = value.v
  <2>1. ~((name = <<"color", 0>> /\ k = "Player") \/ (name = <<"wastedSettings", 0>> /\ i = 5))
    BY ONLY <1>3, <1>6, Zenon
  <2>2. ~(name[1] \in FloatNames \/ (name = <<"wastedSettings", 0>> /\ i \in {3, 4}))
    BY ONLY <1>3, <1>6, Zenon
  <2> QED BY ONLY <2>1, <2>2, Zenon DEF Read
<1>7. CASE t = "Player"
  <2>1. t # "Colour" /\ t # "Float"
    BY <1>7, SMT
  <2>2. name = <<"spectateTarget", 0>>
    BY ONLY <1>3, <1>7, Zenon
  <2> QED BY ONLY <1>2, <1>4, <1>6, <1>7, <2>1, <2>2, Zenon DEF ReadAs
<1>8. CASE t = "Float"
  <2>1. t # "Colour" /\ t # "Player"
    BY <1>8, SMT
  <2>2. Read(k, name, i, value.v) = Single(value.v)
    <3>1. ~((name = <<"color", 0>> /\ k = "Player") \/ (name = <<"wastedSettings", 0>> /\ i = 5))
      BY ONLY <1>3, <2>1, Zenon
    <3>2. name[1] \in FloatNames \/ (name = <<"wastedSettings", 0>> /\ i \in {3, 4})
      BY ONLY <1>3, <1>8, Zenon
    <3> QED BY ONLY <3>1, <3>2, Zenon DEF Read
  <2>3. name # <<"spectateTarget", 0>>
    BY ONLY <1>3, <2>1, Zenon
  <2> QED BY ONLY <1>2, <1>4, <1>8, <2>2, <2>3, Zenon DEF ReadAs
<1>9. CASE t = "String"
  <2>1. t # "Colour" /\ t # "Player" /\ t # "Float"
    BY <1>9, SMT
  <2>2. name # <<"spectateTarget", 0>>
    BY ONLY <1>3, <2>1, Zenon
  <2> QED BY ONLY <1>2, <1>4, <1>6, <1>9, <2>1, <2>2, Zenon DEF ReadAs
<1>10. CASE t \in Whole
  <2>1. t # "Colour" /\ t # "Player" /\ t # "Float"
    BY <1>10, SMT DEF Whole
  <2>2. name # <<"spectateTarget", 0>>
    BY ONLY <1>3, <2>1, Zenon
  <2> QED BY ONLY <1>2, <1>4, <1>6, <1>10, <2>1, <2>2, Zenon DEF ReadAs
<1> QED BY <1>2, <1>3, <1>4, <1>5, <1>7, <1>8, <1>9, <1>10, Zenon DEF Plain

(* Tables that are assigned to a row have integers for some of its elements. *)
LEMMA TablesOf ==
    ASSUME NEW row, NEW value \in Tables(row)
    PROVE  value.type = "table" /\ \A i \in DOMAIN value.e : i \in DOMAIN row.types /\ value.e[i] \in Int
<1>1. PICK D \in SUBSET (DOMAIN row.types) : \E e \in [D -> Elements] : value = Table(e)
  BY Zenon DEF Tables
<1>2. PICK e \in [D -> Elements] : value = Table(e)
  BY <1>1
<1>3. value.type = "table" /\ value.e = e
  BY <1>2 DEF Table, Value
<1> QED BY <1>2, <1>3, ValuesAssumption, Zenon

\* Values that a script may assign to a property of a row, and what an accepted
\* one leaves in the fields: what the documentation says that it then reads as.
ValuesFor(row) == Scalars \cup (IF row.table THEN Tables(row) ELSE {})
StoredAs(row, value, m) ==
    /\ \A i \in DOMAIN row.fields : m[i] \in Int
    /\ value.type = "table" =>
         \A i \in DOMAIN row.fields :
             m[i] = IF i \in DOMAIN value.e THEN Read(kind, row.name, i, value.e[i])
                    ELSE server[row.fields[i]]
    /\ value.type # "table" =>
         /\ DOMAIN row.fields = {1}
         /\ m[1] = ReadAs(kind, row.name, 1, value)

(* What an accepted assignment writes.                                     *)
LEMMA AssignedValues ==
    ASSUME Typed, NEW row \in Rows[kind], NEW value \in ValuesFor(row),
           ~Refused(row, value), NEW m, m = Merged(row, value)
    PROVE  StoredAs(row, value, m)
<1>1. kind \in Kinds /\ RowOf(kind, row)
  BY RowFacts DEF Typed
<1>2. \A i \in DOMAIN row.types : m[i] # Bad
  BY Zenon DEF Refused
<1>3. row.table => value.type = "table"
  BY Zenon DEF Refused
<1>4. DOMAIN row.fields = DOMAIN row.types /\ row.table \in BOOLEAN
  BY <1>1 DEF RowOf
<1>5. CASE row.table
  <2>1. value \in Tables(row)
    <3>1. ASSUME value \in Scalars PROVE FALSE
      <4>1. value.type \in {"number", "boolean", "string", "nil", "player", "vehicle"}
        BY <3>1, ValuesAssumption, Zenon DEF Scalar
      <4> QED BY <1>3, <1>5, <4>1, SMT
    <3> QED BY <1>5, <3>1 DEF ValuesFor
  <2>2. \A i \in DOMAIN value.e : i \in DOMAIN row.types /\ value.e[i] \in Int
    BY <2>1, TablesOf
  <2>3. ASSUME NEW i \in DOMAIN row.types
        PROVE  /\ m[i] \in Int
               /\ m[i] = IF i \in DOMAIN value.e THEN Read(kind, row.name, i, value.e[i])
                         ELSE server[row.fields[i]]
    <3>1. CASE i \in DOMAIN value.e
      <4>1. PICK one : one = Num(value.e[i])
        OBVIOUS
      <4>2. one.v = value.e[i] /\ one.type = "number"
        BY <4>1 DEF Num, Value
      <4>3. m[i] = Converted(row.types[i], one)
        BY <1>5, <3>1, <4>1, Zenon DEF Merged
      <4>4. one.type # "nil" /\ one.type # "string"
        BY <4>2, SMT
      <4>5. Held(one)
        BY <2>2, <3>1, <4>2, <4>4 DEF Held
      <4>6. m[i] \in Int /\ m[i] = ReadAs(kind, row.name, i, one)
        BY <1>1, <1>2, <4>3, <4>5, ElementAs
      <4> QED BY <3>1, <4>2, <4>4, <4>6, Zenon DEF ReadAs
    <3>2. CASE i \notin DOMAIN value.e
      <4>1. m[i] = IF i \in row.optional THEN server[row.fields[i]] ELSE Bad
        BY <1>5, <3>2, Zenon DEF Merged
      <4>2. m[i] = server[row.fields[i]]
        BY <1>2, <4>1
      <4>3. row.fields[i] \in Fields(kind)
        BY <1>1, <1>4, Zenon DEF RowOf
      <4> QED BY <3>2, <4>2, <4>3, Zenon DEF Typed
    <3> QED BY <3>1, <3>2
  <2> QED BY <1>3, <1>4, <1>5, <2>3, Zenon DEF StoredAs
<1>6. CASE ~row.table
  <2>1. value \in Scalars /\ Held(value) /\ value.type # "table"
    <3>1. value \in Scalars
      BY <1>6 DEF ValuesFor
    <3>2. Held(value) /\ value.type \in {"number", "boolean", "string", "nil", "player", "vehicle"}
      BY <3>1, ValuesAssumption, Zenon DEF Scalar, Held
    <3> QED BY <3>1, <3>2, SMT
  <2>2. DOMAIN row.types = {1}
    BY <1>1, <1>6 DEF RowOf
  <2>3. m[1] = Converted(row.types[1], value)
    BY <1>6, <2>2, Zenon DEF Merged
  <2>4. m[1] \in Int /\ m[1] = ReadAs(kind, row.name, 1, value)
    <3>1. 1 \in DOMAIN row.types /\ m[1] # Bad
      BY <1>2, <2>2
    <3> QED BY <1>1, <2>1, <2>3, <3>1, ElementAs
  <2> QED BY <1>4, <2>1, <2>2, <2>4, Zenon DEF StoredAs
<1> QED BY <1>4, <1>5, <1>6

-----------------------------------------------------------------------------
\* Properties: what calls do.

(* A setter of the server writes, or fails and leaves the fields alone.    *)
LEMMA SetsEffect ==
    ASSUME NEW name, NEW value, NEW fields, NEW values, NEW answer \in Answers,
           Sets(name, value, fields, values, answer)
    PROVE  /\ last'.name = name /\ last'.value = value
           /\ \/ last'.result = "true" /\ server' = Write(fields, values)
              \/ last'.result # "true" /\ server' = server
<1>1. last' = [name |-> name, value |-> value, result |-> Check(answer)]
  BY Zenon DEF Sets, Called
<1>2. last'.name = name /\ last'.value = value /\ last'.result = Check(answer)
  BY <1>1
<1>3. server' = IF answer = "none" THEN Write(fields, values) ELSE server
  BY Zenon DEF Sets, Called
<1>4. Check(answer) = "true" <=> answer = "none"
  BY SMT DEF Check, Answers
<1> QED BY <1>2, <1>3, <1>4, Zenon

(* A call that raises leaves the fields alone.                             *)
LEMMA RaisesEffect ==
    ASSUME NEW name, NEW value, Called(name, value, "raised", server)
    PROVE  last'.name = name /\ last'.value = value /\ last'.result # "true" /\ server' = server
<1>1. last' = [name |-> name, value |-> value, result |-> "raised"] /\ server' = server
  BY Zenon DEF Called
<1> QED BY <1>1, SMT

(* Setters in turn: true means that every one of them wrote.               *)
LEMMA InTurnEffect ==
    ASSUME NEW name, NEW value, NEW fields, NEW values, NEW answers,
           InTurn(name, value, fields, values, answers)
    PROVE  /\ last'.name = name /\ last'.value = value
           /\ server' = [f \in DOMAIN server |-> server'[f]]
           /\ \A f \in DOMAIN server :
                \/ server'[f] = server[f] /\ (last'.result = "true" => \A i \in DOMAIN answers : fields[i] # f)
                \/ \E i \in DOMAIN answers : fields[i] = f /\ server'[f] = values[i]
           /\ last'.result = "true" => \A i \in DOMAIN answers : answers[i] # "failed"
<1> DEFINE done == Done(answers)
<1>1. last' = [name |-> name, value |-> value, result |-> Result(answers)]
  BY Zenon DEF InTurn, Called
<1>2. last'.name = name /\ last'.value = value /\ last'.result = Result(answers)
  BY <1>1
<1>3. server' = [f \in DOMAIN server |->
                    IF \E i \in done : fields[i] = f THEN values[CHOOSE i \in done : fields[i] = f]
                    ELSE server[f]]
  BY Zenon DEF InTurn, Called
<1>4. done \subseteq DOMAIN answers
  BY Zenon DEF Done, Reached
<1>5. Result(answers) = "true" => done = DOMAIN answers /\ \A i \in DOMAIN answers : answers[i] # "failed"
  BY SMT DEF Result
<1> HIDE DEF done
<1>6. ASSUME NEW f \in DOMAIN server
      PROVE  \/ server'[f] = server[f] /\ (last'.result = "true" => \A i \in DOMAIN answers : fields[i] # f)
             \/ \E i \in DOMAIN answers : fields[i] = f /\ server'[f] = values[i]
  <2>1. CASE \E i \in done : fields[i] = f
    <3>1. PICK i : i = CHOOSE j \in done : fields[j] = f
      OBVIOUS
    <3>2. i \in done /\ fields[i] = f
      BY <2>1, <3>1, Zenon
    <3>3. server'[f] = values[i]
      BY <1>3, <2>1, <3>1, Zenon
    <3> QED BY <1>4, <3>2, <3>3
  <2>2. CASE ~ \E i \in done : fields[i] = f
    <3>1. server'[f] = server[f]
      BY <1>3, <2>2, Zenon
    <3> QED BY <1>2, <1>5, <2>2, <3>1, Zenon
  <2> QED BY <2>1, <2>2
<1>7. server' = [f \in DOMAIN server |-> server'[f]]
  BY <1>3, Zenon
<1> QED BY <1>2, <1>5, <1>6, <1>7

\* A step of a script or of the server, by what it does.
Assigns(row, value) ==
    /\ row \in Rows[kind] /\ value \in ValuesFor(row)
    /\ ~Refused(row, value) /\ last'.name = row.name /\ last'.value = value
    /\ last'.result = "true" /\ server' = Write(row.fields, Merged(row, value))

Fails == last'.result # "true" /\ server' = server /\
         last'.name \notin {<<"repair", 0>>, <<"resetHandlingRule", 0>>}

AlphaFields == [i \in 1..4 |-> <<"CheckPointColour", i>>]
SetsAlpha(value) ==
    /\ kind = "Checkpoint" /\ last'.name = <<"alpha", 0>> /\ last'.value = value /\ last'.result = "true"
    /\ value.type = "number" /\ value.v \in Int
    /\ server' = Write(AlphaFields, [i \in 1..4 |-> IF i = 4 THEN value.v ELSE server[AlphaFields[i]]])

SetsTaxiLight(value) ==
    /\ kind = "Vehicle" /\ last'.name = <<"taxiLight", 0>> /\ last'.value = value /\ last'.result = "true"
    /\ value.type = "boolean" /\ value.v \in {0, 1}
    /\ server' = Write(<<<<"VehicleLightsData", 0>>>>, <<Lights + (value.v - TaxiBit(Lights)) * Bytes>>)

SetsVehicle(value) ==
    /\ kind = "Player" /\ last'.name = <<"vehicle", 0>> /\ last'.value = value /\ last'.result = "true"
    /\ value.type \in {"nil", "vehicle"} /\ value.v \in Nat
    /\ \/ server' = Write(<<<<"PlayerVehicleId", 0>>, <<"PlayerInVehicleSlot", 0>>>>, <<value.v, 0>>)
       \/ server' = server /\ server[<<"PlayerVehicleId", 0>>] = value.v

RotationFieldsOf(name) == [i \in 1..7 |-> <<RotationOf(name), i>>]
Rotates(name, value) ==
    /\ kind = "Vehicle" /\ name \in RotationNames /\ value \in Turns
    /\ last'.name = <<name, 0>> /\ last'.value = value /\ last'.result = "true"
    /\ \E other \in Elements : server' = Write(RotationFieldsOf(name), Turned(Rotation(RotationTable(value)), other))

Repairs == kind = "Vehicle" /\ \E answers \in [1..3 -> Answers] : repair(answers)
Resets ==
    kind = "Vehicle" /\ \E n \in 1..2 : \E rules \in [1..n -> Keys \cup {Half}], answers \in [1..n -> Answers] :
        resetHandlingRule(rules, answers)
Changes ==
    /\ last'.name = <<"none", 0>>
    /\ \E f \in DOMAIN server, n \in Nat : server' = [server EXCEPT ![f] = n]

(* Every step is one of these.                                             *)
LEMMA Steps ==
    ASSUME Typed, [Next]_vars
    PROVE  /\ kind' = kind
           /\ \/ UNCHANGED vars
              \/ \E row, value : Assigns(row, value)
              \/ Fails
              \/ \E value : SetsAlpha(value)
              \/ \E value : SetsTaxiLight(value)
              \/ \E value : SetsVehicle(value)
              \/ \E name, value : Rotates(name, value)
              \/ Repairs \/ Resets \/ Changes
<1>1. CASE UNCHANGED vars
  BY <1>1 DEF vars
<1>2. CASE Next
  <2>1. kind' = kind /\ Calls
    BY <1>2, Zenon DEF Next
  <2>2. ASSUME NEW row \in Rows[kind], NEW value \in ValuesFor(row),
               NEW a \in Answers, Assign(row, value, a)
        PROVE  Assigns(row, value) \/ Fails
    <3>1. row.name \notin {<<"repair", 0>>, <<"resetHandlingRule", 0>>}
      BY RowFacts, Zenon DEF RowOf, Typed
    <3>2. CASE Refused(row, value)
      <4>1. Called(row.name, value, "raised", server)
        BY <2>2, <3>2, Zenon DEF Assign
      <4>2. last'.name = row.name /\ last'.result # "true" /\ server' = server
        BY <4>1, RaisesEffect
      <4> QED BY <3>1, <4>2, Zenon DEF Fails
    <3>3. CASE ~Refused(row, value)
      <4>1. Sets(row.name, value, row.fields, Merged(row, value), a)
        BY <2>2, <3>3, Zenon DEF Assign
      <4>2. /\ last'.name = row.name /\ last'.value = value
            /\ \/ last'.result = "true" /\ server' = Write(row.fields, Merged(row, value))
               \/ last'.result # "true" /\ server' = server
        BY <4>1, SetsEffect
      <4> QED BY <3>1, <3>3, <4>2, Zenon DEF Assigns, Fails
    <3> QED BY <3>2, <3>3
  <2>3. ASSUME kind = "Checkpoint", NEW value \in Scalars, NEW a \in Answers, Alpha(value, a)
        PROVE  SetsAlpha(value) \/ Fails
    <3>1. PICK n : n = CheckInteger(value, Int32)
      OBVIOUS
    <3>2. n = Bad => Called(<<"alpha", 0>>, value, "raised", server)
      BY <2>3, <3>1, Zenon DEF Alpha
    <3>3. n # Bad => Sets(<<"alpha", 0>>, value, AlphaFields,
                          [i \in 1..4 |-> IF i = 4 THEN n ELSE server[AlphaFields[i]]], a)
      BY <2>3, <3>1, Zenon DEF Alpha, AlphaFields
    <3>4. n # Bad => n = value.v /\ value.type = "number"
      BY <3>1, Zenon DEF CheckInteger
    <3>5. value.v \in Int
      BY ValuesAssumption, Zenon DEF Scalar
    <3>6. <<"alpha", 0>> # <<"repair", 0>> /\ <<"alpha", 0>> # <<"resetHandlingRule", 0>>
      BY SMT
    <3>7. CASE n = Bad
      <4>1. last'.name = <<"alpha", 0>> /\ last'.result # "true" /\ server' = server
        BY <3>2, <3>7, RaisesEffect
      <4> QED BY <3>6, <4>1, Zenon DEF Fails
    <3>8. CASE n # Bad
      <4>1. /\ last'.name = <<"alpha", 0>> /\ last'.value = value
            /\ \/ last'.result = "true"
                  /\ server' = Write(AlphaFields, [i \in 1..4 |-> IF i = 4 THEN n ELSE server[AlphaFields[i]]])
               \/ last'.result # "true" /\ server' = server
        BY <3>3, <3>8, SetsEffect
      <4> QED BY <2>3, <3>4, <3>5, <3>6, <3>8, <4>1, Zenon DEF SetsAlpha, Fails
    <3> QED BY <3>7, <3>8
  <2>4. ASSUME kind = "Vehicle", NEW value \in Scalars, NEW a \in Answers, TaxiLight(value, a)
        PROVE  SetsTaxiLight(value) \/ Fails
    <3>1. PICK n : n = CheckBoolean(value)
      OBVIOUS
    <3>2. n = Bad => Called(<<"taxiLight", 0>>, value, "raised", server)
      BY <2>4, <3>1, Zenon DEF TaxiLight
    <3>3. n # Bad => Sets(<<"taxiLight", 0>>, value, <<<<"VehicleLightsData", 0>>>>,
                          <<Lights + (n - TaxiBit(Lights)) * Bytes>>, a)
      BY <2>4, <3>1, Zenon DEF TaxiLight
    <3>4. n # Bad => n = value.v /\ value.type = "boolean"
      BY <3>1, Zenon DEF CheckBoolean
    <3>5. value.type = "boolean" => value.v \in {0, 1}
      BY ValuesAssumption, Zenon DEF Scalar
    <3>6. <<"taxiLight", 0>> # <<"repair", 0>> /\ <<"taxiLight", 0>> # <<"resetHandlingRule", 0>>
      BY SMT
    <3>7. CASE n = Bad
      <4>1. last'.name = <<"taxiLight", 0>> /\ last'.result # "true" /\ server' = server
        BY <3>2, <3>7, RaisesEffect
      <4> QED BY <3>6, <4>1, Zenon DEF Fails
    <3>8. CASE n # Bad
      <4>1. /\ last'.name = <<"taxiLight", 0>> /\ last'.value = value
            /\ \/ last'.result = "true"
                  /\ server' = Write(<<<<"VehicleLightsData", 0>>>>, <<Lights + (n - TaxiBit(Lights)) * Bytes>>)
               \/ last'.result # "true" /\ server' = server
        BY <3>3, <3>8, SetsEffect
      <4> QED BY <2>4, <3>4, <3>5, <3>6, <3>8, <4>1, Zenon DEF SetsTaxiLight, Fails
    <3> QED BY <3>7, <3>8
  <2>5. ASSUME kind = "Player", NEW value \in Scalars, NEW a \in Answers, PlayerVehicle(value, a)
        PROVE  SetsVehicle(value) \/ Fails
    <3> DEFINE name == <<"vehicle", 0>>
               fields == <<<<"PlayerVehicleId", 0>>, <<"PlayerInVehicleSlot", 0>>>>
    <3>1. name # <<"repair", 0>> /\ name # <<"resetHandlingRule", 0>> /\ fields[1] = <<"PlayerVehicleId", 0>>
      BY SMT
    <3>2. /\ value.type = "nil" => value.v = 0
          /\ value.type = "vehicle" => value.v \in Nat
      BY ValuesAssumption, SMT DEF Scalar
    <3>3. server[<<"PlayerVehicleId", 0>>] \in Nat
      BY <2>5 DEF Typed
    <3>4. CASE value.type \notin {"nil", "vehicle"}
      <4>1. Called(name, value, "raised", server)
        BY <2>5, <3>4, SMT DEF PlayerVehicle
      <4>2. last'.name = name /\ last'.result # "true" /\ server' = server
        BY <4>1, RaisesEffect
      <4> QED BY <3>1, <4>2, Zenon DEF Fails
    <3>5. CASE \/ value.type = "vehicle"
               \/ value.type = "nil" /\ server[<<"PlayerVehicleId", 0>>] > 0
      <4>1. Sets(name, value, fields, <<value.v, 0>>, a)
        BY <2>5, <3>2, <3>5, SMT DEF PlayerVehicle
      <4>2. /\ last'.name = name /\ last'.value = value
            /\ \/ last'.result = "true" /\ server' = Write(fields, <<value.v, 0>>)
               \/ last'.result # "true" /\ server' = server
        BY <4>1, SetsEffect
      <4>3. value.v \in Nat
        BY <3>2, <3>5, SMT
      <4> QED BY <2>5, <3>1, <3>5, <4>2, <4>3, Zenon DEF SetsVehicle, Fails
    <3>6. CASE value.type = "nil" /\ ~(server[<<"PlayerVehicleId", 0>>] > 0)
      <4>1. Called(name, value, "true", server)
        BY <2>5, <3>6, SMT DEF PlayerVehicle
      <4>2. last' = [name |-> name, value |-> value, result |-> "true"] /\ server' = server
        BY <4>1, Zenon DEF Called
      <4>3. last'.name = name /\ last'.value = value /\ last'.result = "true"
        BY <4>2
      <4>4. server[<<"PlayerVehicleId", 0>>] = value.v /\ value.v \in Nat
        BY <3>2, <3>3, <3>6, SMT
      <4> QED BY <2>5, <3>6, <4>2, <4>3, <4>4, Zenon DEF SetsVehicle
    <3> QED BY <3>4, <3>5, <3>6
  <2>6. ASSUME NEW f \in {<<"VehicleLightsData", 0>>, <<"VehicleHealth", 0>>, <<"PlayerVehicleId", 0>>} \cap DOMAIN server,
               ServerChanges(f, 2 * Bytes + 1)
        PROVE  Changes
    <3>1. 2 * Bytes + 1 \in Nat
      BY WidthAssumption, SMT
    <3>2. server' = [server EXCEPT ![f] = 2 * Bytes + 1] /\ last' = [name |-> <<"none", 0>>, value |-> Nil, result |-> "true"]
      BY <2>6, Zenon DEF ServerChanges
    <3>3. last'.name = <<"none", 0>>
      BY <3>2
    <3> QED BY <3>1, <3>2, <3>3, Zenon DEF Changes
  <2>7. ASSUME kind = "Vehicle", NEW name \in RotationNames, NEW value \in Scalars \cup Turns,
               NEW other \in Elements, NEW a \in Answers, SetRotation(name, value, other, a)
        PROVE  Rotates(name, value) \/ Fails
    <3>1. PICK given : given = Rotation(RotationTable(value))
      OBVIOUS
    <3>2. <<name, 0>> \notin {<<"repair", 0>>, <<"resetHandlingRule", 0>>}
      BY <2>7, SMT DEF RotationNames
    <3>3. value.type = "table" => value \in Turns
      <4>1. ASSUME value \in Scalars PROVE value.type # "table"
        <5>1. value.type \in {"number", "boolean", "string", "nil", "player", "vehicle"}
          BY <4>1, ValuesAssumption, Zenon DEF Scalar
        <5> QED BY <5>1, SMT
      <4> QED BY <4>1
    <3>4. CASE value.type # "table" \/ Bad \in Range(given)
      <4>1. Called(<<name, 0>>, value, "raised", server)
        BY <2>7, <3>1, <3>4, Zenon DEF SetRotation
      <4>2. last'.name = <<name, 0>> /\ last'.result # "true" /\ server' = server
        BY <4>1, RaisesEffect
      <4> QED BY <3>2, <4>2, Zenon DEF Fails
    <3>5. CASE ~(value.type # "table" \/ Bad \in Range(given))
      <4>1. Sets(<<name, 0>>, value, RotationFieldsOf(name), Turned(given, other), a)
        BY <2>7, <3>1, <3>5, Zenon DEF SetRotation, RotationFieldsOf
      <4>2. /\ last'.name = <<name, 0>> /\ last'.value = value
            /\ \/ last'.result = "true" /\ server' = Write(RotationFieldsOf(name), Turned(given, other))
               \/ last'.result # "true" /\ server' = server
        BY <4>1, SetsEffect
      <4> QED BY <2>7, <3>1, <3>2, <3>3, <3>5, <4>2, Zenon DEF Rotates, Fails
    <3> QED BY <3>4, <3>5
  <2> QED BY <2>1, <2>2, <2>3, <2>4, <2>5, <2>6, <2>7, Zenon DEF Calls, ValuesFor, Repairs, Resets
<1> QED BY <1>1, <1>2

(* The fields of a vehicle that repair writes.                             *)
LEMMA RepairWrites ==
    ASSUME Typed, NEW answers \in [1..3 -> Answers], kind = "Vehicle", repair(answers)
    PROVE  /\ last'.name = <<"repair", 0>>
           /\ server' \in [Fields(kind) -> Int]
           /\ last'.result = "true" =>
                /\ server'[<<"VehicleHealth", 0>>] = 1000
                /\ server'[<<"VehicleDamageData", 0>>] = 0
                /\ server'[<<"VehicleLightsData", 0>>] = Lights - (Lights % Bytes)
<1> DEFINE fields == <<<<"VehicleHealth", 0>>, <<"VehicleDamageData", 0>>, <<"VehicleLightsData", 0>>>>
<1>1. PICK lights : lights = Lights - (Lights % Bytes)
  OBVIOUS
<1>2. InTurn(<<"repair", 0>>, Nil, fields, <<1000, 0, lights>>, answers)
  BY <1>1, ZenonT(60) DEF repair
<1>3. PICK values : values = <<1000, 0, lights>>
  BY ZenonT(60)
<1>4. PICK fs : fs = fields
  BY Zenon
<1>5. /\ last'.name = <<"repair", 0>>
      /\ server' = [f \in DOMAIN server |-> server'[f]]
      /\ \A f \in DOMAIN server :
            \/ server'[f] = server[f] /\ (last'.result = "true" => \A i \in DOMAIN answers : fs[i] # f)
            \/ \E i \in DOMAIN answers : fs[i] = f /\ server'[f] = values[i]
  BY <1>2, <1>3, <1>4, InTurnEffect
<1>6. /\ <<"VehicleHealth", 0>> \in Fields(kind) /\ <<"VehicleDamageData", 0>> \in Fields(kind)
      /\ <<"VehicleLightsData", 0>> \in Fields(kind)
  BY DerivedFields
<1>7. DOMAIN server = Fields(kind) /\ \A f \in Fields(kind) : server[f] \in Int
  BY Zenon DEF Typed
<1>8. lights \in Int
  BY <1>1, <1>6, <1>7, LowByteCleared DEF Lights
<1>9. \A i \in 1..3 : values[i] \in Int
  BY <1>3, <1>8, SMT
<1>10. DOMAIN answers = 1..3
  OBVIOUS
<1>11. \A f \in Fields(kind) : server'[f] \in Int
  BY ONLY <1>5, <1>7, <1>9, <1>10, Zenon
<1>12. server' = [f \in Fields(kind) |-> server'[f]]
  BY ONLY <1>5, <1>7, Zenon
<1>13. server' \in [Fields(kind) -> Int]
  BY ONLY <1>11, <1>12, Zenon
<1>14. /\ fs[1] = <<"VehicleHealth", 0>> /\ fs[2] = <<"VehicleDamageData", 0>> /\ fs[3] = <<"VehicleLightsData", 0>>
       /\ values[1] = 1000 /\ values[2] = 0 /\ values[3] = lights
       /\ fs[1] # fs[2] /\ fs[1] # fs[3] /\ fs[2] # fs[3]
  BY <1>3, <1>4, SMT
<1>15. ASSUME last'.result = "true", NEW i \in 1..3 PROVE server'[fs[i]] = values[i]
  <2>1. fs[i] \in DOMAIN server
    BY <1>6, <1>7, <1>14, SMT
  <2>2. \E j \in 1..3 : fs[j] = fs[i] /\ server'[fs[i]] = values[j]
    BY ONLY <1>5, <1>10, <1>15, <2>1, Zenon
  <2>3. PICK j \in 1..3 : fs[j] = fs[i] /\ server'[fs[i]] = values[j]
    BY <2>2
  <2>4. j = i
    BY <1>14, <2>3, SMT
  <2> QED BY <2>3, <2>4
<1>16. 1 \in 1..3 /\ 2 \in 1..3 /\ 3 \in 1..3
  BY SMT
<1>17. last'.result = "true" => server'[fs[1]] = values[1] /\ server'[fs[2]] = values[2] /\ server'[fs[3]] = values[3]
  BY ONLY <1>15, <1>16, Zenon
<1> QED BY ONLY <1>1, <1>5, <1>13, <1>14, <1>17, SMT

(* The rules that resetHandlingRule writes.                                *)
LEMMA ResetWrites ==
    ASSUME Typed, NEW m \in 1..2, NEW rules \in [1..m -> Keys \cup {Half}], NEW answers \in [1..m -> Answers],
           kind = "Vehicle", resetHandlingRule(rules, answers)
    PROVE  /\ last'.name = <<"resetHandlingRule", 0>> /\ last'.value.e = rules
           /\ server' \in [Fields(kind) -> Int]
           /\ last'.result = "true" => \A i \in DOMAIN rules : server'[<<"InstHandlingRule", rules[i]>>] = 0
<1>1. PICK fs : fs = [i \in DOMAIN rules |-> <<"InstHandlingRule", rules[i]>>]
  BY Zenon
<1>2. PICK values : values = [i \in DOMAIN rules |-> 0]
  BY Zenon
<1>3. PICK given : given = [i \in DOMAIN rules |-> IF rules[i] \in Int32 THEN answers[i] ELSE "failed"]
  BY Zenon
<1>4. InTurn(<<"resetHandlingRule", 0>>, Table(rules), fs, values, given)
  BY <1>1, <1>2, <1>3, Zenon DEF resetHandlingRule
<1>5. /\ last'.name = <<"resetHandlingRule", 0>> /\ last'.value = Table(rules)
      /\ server' = [f \in DOMAIN server |-> server'[f]]
      /\ \A f \in DOMAIN server :
            \/ server'[f] = server[f] /\ (last'.result = "true" => \A i \in DOMAIN given : fs[i] # f)
            \/ \E i \in DOMAIN given : fs[i] = f /\ server'[f] = values[i]
      /\ last'.result = "true" => \A i \in DOMAIN given : given[i] # "failed"
  BY <1>4, InTurnEffect
<1>6. last'.value.e = rules
  BY <1>5 DEF Table, Value
<1>7. DOMAIN rules = 1..m /\ DOMAIN given = 1..m /\ \A i \in 1..m : rules[i] \in Keys \cup {Half}
  BY <1>3, Zenon
<1>8. DOMAIN server = Fields(kind) /\ \A f \in Fields(kind) : server[f] \in Int
  BY Zenon DEF Typed
<1>9. \A i \in 1..m : values[i] = 0 /\ fs[i] = <<"InstHandlingRule", rules[i]>>
  BY <1>1, <1>2, <1>7, Zenon
<1>10. 0 \in Int
  OBVIOUS
<1>11. ASSUME NEW f \in Fields(kind) PROVE server'[f] \in Int
  <2>1. server'[f] = server[f] \/ \E i \in 1..m : server'[f] = values[i]
    BY ONLY <1>5, <1>7, <1>8, f \in Fields(kind), Zenon
  <2> QED BY ONLY <1>8, <1>9, <1>10, <2>1, f \in Fields(kind), Zenon
<1>12. server' = [f \in Fields(kind) |-> server'[f]]
  BY ONLY <1>5, <1>8, Zenon
<1>13. server' \in [Fields(kind) -> Int]
  BY ONLY <1>11, <1>12, Zenon
<1>14. ASSUME last'.result = "true", NEW i \in 1..m PROVE server'[<<"InstHandlingRule", rules[i]>>] = 0
  <2>1. rules[i] \in Int32
    BY ONLY <1>3, <1>5, <1>7, <1>14, Zenon
  <2>2. rules[i] # Half
    BY <2>1, WidthAssumption, SMT DEF Int32
  <2>3. fs[i] \in DOMAIN server
    BY <1>7, <1>8, <1>9, <2>2, DerivedFields
  <2>4. \E j \in 1..m : fs[j] = fs[i] /\ server'[fs[i]] = values[j]
    BY ONLY <1>5, <1>7, <1>14, <2>3, Zenon
  <2> QED BY ONLY <1>9, <2>4, i \in 1..m, Zenon
<1> QED BY ONLY <1>5, <1>6, <1>7, <1>13, <1>14, Zenon

(* What the table of a rotation holds, and what is made of it.             *)
LEMMA RotationGiven ==
    ASSUME NEW value, Turn(value), NEW e, e = RotationTable(value).e, NEW given, given = Rotation(RotationTable(value))
    PROVE  /\ Len(e) < 4 => Len(given) = 3
           /\ Len(e) >= 4 => Len(given) = 4
           /\ \A i \in 1..Len(given) : given[i] \in Int /\ (i <= Len(e) => given[i] = Single(e[i]))
           /\ Len(e) \in Nat
<1>1. PICK t : t = RotationTable(value)
  OBVIOUS
<1>2. t.e = e /\ e \in Seq(Int)
  <2>1. \A x : Table(x).e = x
    BY DEF Table, Value
  <2> QED BY <1>1, <2>1, SMT DEF RotationTable, Turn
<1>3. PICK k \in 3..4 : k = IF Len(e) >= 4 THEN 4 ELSE 3
  BY SMT
<1>4. given = [i \in 1..k |-> TableNumber(t, i)]
  BY <1>1, <1>2, <1>3, Zenon DEF Rotation
<1>5. ASSUME NEW i \in 1..4 PROVE TableNumber(t, i) \in Int /\ (i <= Len(e) => TableNumber(t, i) = Single(e[i]))
  <2>1. DOMAIN t.e = 1..Len(e) /\ Len(e) \in Nat /\ \A x \in 1..Len(e) : e[x] \in Int
    BY <1>2, SMT
  <2>2. CASE i \in DOMAIN t.e
    <3>1. TableNumber(t, i) = Single(e[i])
      BY <1>2, <2>2, Zenon DEF TableNumber
    <3> QED BY <2>1, <2>2, <3>1, SingleInt, Zenon
  <2>3. CASE i \notin DOMAIN t.e
    <3>1. TableNumber(t, i) = Bad
      BY <2>3, Zenon DEF TableNumber
    <3>2. ~(i <= Len(e))
      BY ONLY <2>1, <2>3, i \in 1..4, SMT
    <3> QED BY <3>1, <3>2, BadInt, Zenon
  <2> QED BY <2>2, <2>3
<1>6. given \in Seq(Int) /\ Len(given) = k /\ \A i \in 1..k : given[i] = TableNumber(t, i)
  <2>1. \A i \in 1..k : TableNumber(t, i) \in Int
    BY <1>5
  <2>2. PICK f : f = [i \in 1..k |-> TableNumber(t, i)]
    OBVIOUS
  <2>3. f \in [1..k -> Int] /\ \A i \in 1..k : f[i] = TableNumber(t, i)
    BY ONLY <2>1, <2>2, Zenon
  <2>4. f \in Seq(Int) /\ Len(f) = k
    BY ONLY <2>3, k \in 3..4, SMT
  <2> QED BY ONLY <1>4, <2>2, <2>3, <2>4, Zenon
<1>7. Len(e) \in Nat
  BY <1>2
<1>8. ASSUME NEW i \in 1..Len(given)
      PROVE  given[i] \in Int /\ (i <= Len(e) => given[i] = Single(e[i]))
  <2>1. i \in 1..4 /\ given[i] = TableNumber(t, i)
    BY ONLY <1>6, <1>8, k \in 3..4, SMT
  <2> QED BY ONLY <1>5, <2>1, Zenon
<1>9. (Len(e) < 4 => Len(given) = 3) /\ (Len(e) >= 4 => Len(given) = 4)
  BY ONLY <1>3, <1>6, <1>7, SMT
<1> QED BY ONLY <1>7, <1>8, <1>9, Zenon

\* A server whose fields of a rotation hold the elements e of a table.
Holds(state, name, e) ==
    \A i \in 1..7 :
        /\ Len(e) = 3 /\ i <= 3 => state[<<RotationOf(name), i>>] = Single(e[i])
        /\ Len(e) >= 4 /\ i > 3 => state[<<RotationOf(name), i>>] = Single(e[i - 3])

(* A rotation writes its own fields, in the form that was given.           *)
LEMMA RotateWrites ==
    ASSUME Typed, NEW name, NEW value, Rotates(name, value), NEW e, e = RotationTable(value).e
    PROVE  /\ server' \in [Fields(kind) -> Int]
           /\ Holds(server', name, e)
           /\ \A f \in Fields(kind) : f[1] # RotationOf(name) => server'[f] = server[f]
<1>1. PICK given : given = Rotation(RotationTable(value))
  OBVIOUS
<1>2. kind = "Vehicle" /\ value \in Turns
  BY Zenon DEF Rotates
<1>3. PICK other \in Elements : server' = Write(RotationFieldsOf(name), Turned(given, other))
  BY <1>1, Zenon DEF Rotates
<1>4. /\ Len(e) < 4 => Len(given) = 3
      /\ Len(e) >= 4 => Len(given) = 4
      /\ \A i \in 1..Len(given) : given[i] \in Int /\ (i <= Len(e) => given[i] = Single(e[i]))
      /\ Len(e) \in Nat
  BY <1>1, <1>2, RotationGiven, ValuesAssumption
<1>5. PICK fs : fs = RotationFieldsOf(name)
  OBVIOUS
<1>6. PICK vs : vs = Turned(given, other)
  OBVIOUS
<1>7. DOMAIN fs = 1..7 /\ \A i \in 1..7 : fs[i] = <<RotationOf(name), i>>
  BY <1>5 DEF RotationFieldsOf
<1>8. \A i \in 1..7 : vs[i] = IF i <= 3 THEN (IF Len(given) = 3 THEN given[i] ELSE other)
                               ELSE (IF Len(given) = 4 THEN given[i - 3] ELSE other)
  BY <1>6, Zenon DEF Turned
<1>9. other \in Int
  BY <1>3, ValuesAssumption
<1>10. ASSUME NEW i \in 1..7
       PROVE  /\ vs[i] \in Int
              /\ Len(e) = 3 /\ i <= 3 => vs[i] = Single(e[i])
              /\ Len(e) >= 4 /\ i > 3 => vs[i] = Single(e[i - 3])
  <2>1. CASE Len(e) >= 4
    <3>1. Len(given) = 4 /\ Len(given) # 3
      BY ONLY <1>4, <2>1, SMT
    <3>2. CASE i <= 3
      <4>1. vs[i] = other
        BY ONLY <1>8, <3>1, <3>2, i \in 1..7, Zenon
      <4>2. Len(e) # 3 /\ ~(i > 3)
        BY ONLY <1>4, <2>1, <3>2, i \in 1..7, SMT
      <4> QED BY ONLY <1>9, <4>1, <4>2, Zenon
    <3>3. CASE i > 3
      <4>1. vs[i] = given[i - 3] /\ i - 3 \in 1..4
        BY ONLY <1>8, <3>1, <3>3, i \in 1..7, SMT
      <4>2. given[i - 3] \in Int /\ given[i - 3] = Single(e[i - 3])
        BY ONLY <1>4, <2>1, <3>1, <4>1, i \in 1..7, SMT
      <4> QED BY ONLY <1>4, <2>1, <3>3, <4>1, <4>2, i \in 1..7, SMT
    <3> QED BY ONLY <3>2, <3>3, i \in 1..7, SMT
  <2>2. CASE ~(Len(e) >= 4)
    <3>1. Len(given) = 3 /\ Len(given) # 4
      BY ONLY <1>4, <2>2, SMT
    <3>2. CASE i <= 3
      <4>1. vs[i] = given[i] /\ i \in 1..3
        BY ONLY <1>8, <3>1, <3>2, i \in 1..7, SMT
      <4>2. given[i] \in Int /\ (i <= Len(e) => given[i] = Single(e[i]))
        BY ONLY <1>4, <3>1, <4>1, SMT
      <4> QED BY ONLY <1>4, <2>2, <3>2, <4>1, <4>2, SMT
    <3>3. CASE i > 3
      <4>1. vs[i] = other
        BY ONLY <1>8, <3>1, <3>3, i \in 1..7, SMT
      <4> QED BY ONLY <1>4, <1>9, <2>2, <3>3, <4>1, i \in 1..7, SMT
    <3> QED BY ONLY <3>2, <3>3, i \in 1..7, SMT
  <2> QED BY <2>1, <2>2
<1>11. \A i \in 1..7 : fs[i] \in Fields(kind)
  <2>1. RotationOf(name) \in {"VehicleRotation", "VehicleSpawnRotation"}
    BY DEF RotationOf
  <2>2. \A i \in 1..7 : fs[i] \in TurnFields
    BY <1>7, <2>1, SMT DEF TurnFields
  <2> QED BY <1>2, <2>2, RotationFields, Zenon
<1>12. PICK n : n = server' /\ n = Write(fs, vs)
  BY <1>3, <1>5, <1>6
<1>13. \A i, j \in DOMAIN fs : i # j => fs[i] # fs[j]
  BY <1>7
<1>14. \A i \in DOMAIN fs : fs[i] \in Fields(kind) /\ vs[i] \in Int
  BY <1>7, <1>10, <1>11
<1>15. n \in [Fields(kind) -> Int]
  BY <1>12, <1>13, <1>14, WrittenTyped
<1>16. DOMAIN server = Fields(kind)
  BY Zenon DEF Typed
<1>17. /\ \A i \in DOMAIN fs : fs[i] \in DOMAIN server => n[fs[i]] = vs[i]
       /\ \A f \in DOMAIN server : (\A i \in DOMAIN fs : fs[i] # f) => n[f] = server[f]
  BY <1>12, <1>13, Written
<1>18. \A i \in 1..7 : n[<<RotationOf(name), i>>] = vs[i]
  BY <1>7, <1>11, <1>16, <1>17
<1>19. ASSUME NEW f \in Fields(kind), f[1] # RotationOf(name) PROVE n[f] = server[f]
  <2>1. \A i \in DOMAIN fs : fs[i] # f
    BY <1>7, <1>19, SMT
  <2> QED BY <1>16, <1>17, <2>1
<1>20. Holds(n, name, e)
  BY ONLY <1>10, <1>18, Zenon DEF Holds
<1> QED BY ONLY <1>12, <1>15, <1>19, <1>20, Zenon

(* The two fields of a player's vehicle are written with their values.     *)
LEMMA VehicleWrites ==
    ASSUME Typed, NEW value, SetsVehicle(value)
    PROVE  /\ server' \in [Fields(kind) -> Int] /\ server'[<<"PlayerVehicleId", 0>>] = value.v
           /\ \A f \in Fields(kind) : f \notin OtherFields => server'[f] = server[f]
<1>1. kind = "Player" /\ value.v \in Nat
  BY Zenon DEF SetsVehicle
<1>2. CASE server' = server /\ server[<<"PlayerVehicleId", 0>>] = value.v
  BY <1>2, Zenon DEF Typed
<1>3. CASE server' = Write(<<<<"PlayerVehicleId", 0>>, <<"PlayerInVehicleSlot", 0>>>>, <<value.v, 0>>)
  <2>1. PICK fs : fs = <<<<"PlayerVehicleId", 0>>, <<"PlayerInVehicleSlot", 0>>>>
    BY Zenon
  <2>2. PICK vs : vs = <<value.v, 0>>
    BY Zenon
  <2>3. DOMAIN fs = 1..2 /\ fs[1] = <<"PlayerVehicleId", 0>> /\ fs[2] = <<"PlayerInVehicleSlot", 0>> /\ fs[1] # fs[2]
    BY <2>1, SMT
  <2>4. vs[1] = value.v /\ vs[2] = 0
    BY <2>2, SMT
  <2>5. fs[1] \in Fields(kind) /\ fs[2] \in Fields(kind)
    BY <1>1, <2>3, VehicleFields, Zenon DEF OtherFields
  <2>6. PICK n : n = server' /\ n = Write(fs, vs)
    BY <1>3, <2>1, <2>2, Zenon
  <2>7. \A i, j \in DOMAIN fs : i # j => fs[i] # fs[j]
    BY <2>3, SMT
  <2>8. \A i \in DOMAIN fs : fs[i] \in Fields(kind) /\ vs[i] \in Int
    BY <1>1, <2>3, <2>4, <2>5, SMT
  <2>9. n \in [Fields(kind) -> Int]
    BY ONLY Typed, <2>6, <2>7, <2>8, WrittenTyped, Zenon
  <2>10. DOMAIN server = Fields(kind)
    BY Zenon DEF Typed
  <2>11. /\ \A i \in DOMAIN fs : fs[i] \in DOMAIN server => n[fs[i]] = vs[i]
         /\ \A f \in DOMAIN server : (\A i \in DOMAIN fs : fs[i] # f) => n[f] = server[f]
    BY <2>6, <2>7, Written
  <2>12. n[fs[1]] = vs[1]
    BY <2>3, <2>5, <2>10, <2>11, SMT
  <2>13. ASSUME NEW f \in Fields(kind), f \notin OtherFields PROVE n[f] = server[f]
    <3>1. \A i \in DOMAIN fs : fs[i] # f
      BY <2>3, <2>13, SMT DEF OtherFields
    <3> QED BY <2>10, <2>11, <3>1
  <2> QED BY ONLY <2>3, <2>4, <2>6, <2>9, <2>12, <2>13, Zenon
<1> QED BY <1>2, <1>3, Zenon DEF SetsVehicle

(* taxiLight writes the lights alone.                                      *)
LEMMA TaxiWrites ==
    ASSUME Typed, NEW value, SetsTaxiLight(value)
    PROVE  /\ server' \in [Fields(kind) -> Int]
           /\ Lights \in Int
           /\ server'[<<"VehicleLightsData", 0>>] = Lights + (value.v - TaxiBit(Lights)) * Bytes
           /\ \A f \in Fields(kind) : f # <<"VehicleLightsData", 0>> => server'[f] = server[f]
<1>1. PICK x : x = Lights + (value.v - TaxiBit(Lights)) * Bytes
  OBVIOUS
<1>2. PICK fs : fs = <<<<"VehicleLightsData", 0>>>>
  BY Zenon
<1>3. PICK vs : vs = <<x>>
  BY Zenon
<1>4. kind = "Vehicle" /\ value.v \in {0, 1} /\ server' = Write(fs, vs)
  BY <1>1, <1>2, <1>3, Zenon DEF SetsTaxiLight
<1>5. DOMAIN fs = {1} /\ fs[1] = <<"VehicleLightsData", 0>> /\ vs[1] = x
  BY <1>2, <1>3, SMT
<1>6. fs[1] \in Fields(kind) /\ DOMAIN server = Fields(kind)
  BY <1>4, <1>5, DerivedFields, Zenon DEF Typed
<1>7. Lights \in Int
  BY <1>5, <1>6, Zenon DEF Typed, Lights
<1>8. x \in Int
  BY <1>1, <1>4, <1>7, TaxiWritten
<1>9. PICK n : n = server' /\ n = Write(fs, vs)
  BY <1>4
<1>10. \A i, j \in DOMAIN fs : i # j => fs[i] # fs[j]
  BY <1>5
<1>11. \A i \in DOMAIN fs : fs[i] \in Fields(kind) /\ vs[i] \in Int
  BY <1>5, <1>6, <1>8
<1>12. n \in [Fields(kind) -> Int]
  BY ONLY Typed, <1>9, <1>10, <1>11, WrittenTyped, Zenon
<1>13. /\ \A i \in DOMAIN fs : fs[i] \in DOMAIN server => n[fs[i]] = vs[i]
       /\ \A f \in DOMAIN server : (\A i \in DOMAIN fs : fs[i] # f) => n[f] = server[f]
  BY <1>9, <1>10, Written
<1>14. n[<<"VehicleLightsData", 0>>] = x
  BY <1>5, <1>6, <1>13
<1>15. \A f \in Fields(kind) : f # <<"VehicleLightsData", 0>> => n[f] = server[f]
  BY <1>5, <1>6, <1>13
<1> QED BY ONLY <1>1, <1>7, <1>9, <1>12, <1>14, <1>15, Zenon

(* A checkpoint's alpha writes the fourth channel of its colour.           *)
LEMMA AlphaWrites ==
    ASSUME Typed, NEW value, SetsAlpha(value)
    PROVE  /\ server' \in [Fields(kind) -> Int]
           /\ server'[<<"CheckPointColour", 4>>] = value.v
           /\ \A i \in 1..3 : server'[<<"CheckPointColour", i>>] = server[<<"CheckPointColour", i>>]
           /\ \A f \in Fields(kind) : f[1] # "CheckPointColour" => server'[f] = server[f]
<1>1. PICK fs : fs = AlphaFields
  OBVIOUS
<1>2. PICK vs : vs = [i \in 1..4 |-> IF i = 4 THEN value.v ELSE server[AlphaFields[i]]]
  BY Zenon
<1>3. kind = "Checkpoint" /\ value.v \in Int /\ server' = Write(fs, vs)
  BY <1>1, <1>2, Zenon DEF SetsAlpha
<1>4. DOMAIN fs = 1..4 /\ \A i \in 1..4 : fs[i] = <<"CheckPointColour", i>>
  BY <1>1 DEF AlphaFields
<1>5. \A i \in 1..4 : vs[i] = IF i = 4 THEN value.v ELSE server[fs[i]]
  BY <1>1, <1>2, Zenon
<1>6. DOMAIN server = Fields(kind) /\ \A f \in Fields(kind) : server[f] \in Int
  BY Zenon DEF Typed
<1>7. \A i \in 1..4 : fs[i] \in Fields(kind)
  BY <1>3, <1>4, DerivedFields
<1>8. PICK n : n = server' /\ n = Write(fs, vs)
  BY <1>3
<1>9. \A i, j \in DOMAIN fs : i # j => fs[i] # fs[j]
  BY <1>4
<1>10. \A i \in DOMAIN fs : fs[i] \in Fields(kind) /\ vs[i] \in Int
  BY <1>3, <1>4, <1>5, <1>6, <1>7
<1>11. n \in [Fields(kind) -> Int]
  BY ONLY Typed, <1>8, <1>9, <1>10, WrittenTyped, Zenon
<1>12. /\ \A i \in DOMAIN fs : fs[i] \in DOMAIN server => n[fs[i]] = vs[i]
       /\ \A f \in DOMAIN server : (\A i \in DOMAIN fs : fs[i] # f) => n[f] = server[f]
  BY <1>8, <1>9, Written
<1>13. \A i \in 1..4 : n[<<"CheckPointColour", i>>] = vs[i]
  BY <1>4, <1>6, <1>7, <1>12
<1>14. n[<<"CheckPointColour", 4>>] = value.v
  BY <1>5, <1>13, 4 \in 1..4
<1>15. \A i \in 1..3 : n[<<"CheckPointColour", i>>] = server[<<"CheckPointColour", i>>]
  BY <1>4, <1>5, <1>13, \A i \in 1..3 : i \in 1..4 /\ i # 4
<1>16. ASSUME NEW f \in Fields(kind), f[1] # "CheckPointColour" PROVE n[f] = server[f]
  <2>1. \A i \in DOMAIN fs : fs[i] # f
    BY <1>4, <1>16, SMT
  <2> QED BY <1>6, <1>12, <2>1
<1> QED BY ONLY <1>8, <1>11, <1>14, <1>15, <1>16, Zenon

(* An assignment writes the fields of its row.                             *)
LEMMA AssignWrites ==
    ASSUME Typed, NEW row, NEW value, Assigns(row, value)
    PROVE  /\ server' \in [Fields(kind) -> Int]
           /\ \A i \in DOMAIN row.fields : server'[row.fields[i]] = Merged(row, value)[i]
           /\ \A f \in Fields(kind) : (\A i \in DOMAIN row.fields : row.fields[i] # f) => server'[f] = server[f]
<1>1. PICK m : m = Merged(row, value)
  OBVIOUS
<1>2. /\ kind \in Kinds /\ row \in Rows[kind] /\ ~Refused(row, value) /\ DOMAIN server = Fields(kind)
      /\ value \in ValuesFor(row)
  BY Zenon DEF Assigns, Typed
<1>3. \A i \in DOMAIN row.fields : m[i] \in Int
  <2>1. StoredAs(row, value, m)
    BY <1>1, <1>2, AssignedValues, Zenon
  <2> QED BY <2>1, Zenon DEF StoredAs
<1>4. /\ \A i, j \in DOMAIN row.fields : i # j => row.fields[i] # row.fields[j]
      /\ \A i \in DOMAIN row.fields : row.fields[i] \in Fields(kind)
  BY <1>2, RowFacts DEF RowOf
<1>5. PICK n : n = server' /\ n = Write(row.fields, m)
  BY <1>1, Zenon DEF Assigns
<1>6. PICK fs : fs = row.fields
  OBVIOUS
<1>7. /\ \A i, j \in DOMAIN fs : i # j => fs[i] # fs[j]
      /\ \A i \in DOMAIN fs : fs[i] \in Fields(kind) /\ m[i] \in Int
      /\ n = Write(fs, m)
  BY ONLY <1>3, <1>4, <1>5, <1>6, Zenon
<1>8. n \in [Fields(kind) -> Int]
  BY ONLY Typed, <1>7, WrittenTyped, Zenon
<1>9. /\ \A i \in DOMAIN fs : fs[i] \in DOMAIN server => n[fs[i]] = m[i]
      /\ \A f \in DOMAIN server : (\A i \in DOMAIN fs : fs[i] # f) => n[f] = server[f]
  BY <1>7, Written
<1> QED BY ONLY <1>1, <1>2, <1>5, <1>6, <1>7, <1>8, <1>9, Zenon

(* The store keeps its type.                                               *)
LEMMA TypedStep == Typed /\ [Next]_vars => Typed'
<1> SUFFICES ASSUME Typed, [Next]_vars PROVE Typed'
  OBVIOUS
<1>1. kind' = kind /\ kind \in Kinds
  BY Steps DEF Typed
<1>2. SUFFICES /\ server' \in [Fields(kind) -> Int]
               /\ kind = "Player" => server'[<<"PlayerVehicleId", 0>>] \in Nat
  BY <1>1, Zenon DEF Typed
<1>3. CASE server' = server
  BY <1>3, Zenon DEF Typed
<1>4. ASSUME NEW row, NEW value, Assigns(row, value)
      PROVE  /\ server' \in [Fields(kind) -> Int]
             /\ kind = "Player" => server'[<<"PlayerVehicleId", 0>>] \in Nat
  <2>1. /\ server' \in [Fields(kind) -> Int]
        /\ \A f \in Fields(kind) : (\A i \in DOMAIN row.fields : row.fields[i] # f) => server'[f] = server[f]
    BY <1>4, AssignWrites
  <2>2. \A i \in DOMAIN row.fields : row.fields[i] \notin OtherFields
    BY <1>1, <1>4, RowFacts DEF RowOf, Assigns
  <2>3. ASSUME kind = "Player" PROVE server'[<<"PlayerVehicleId", 0>>] \in Nat
    <3>1. <<"PlayerVehicleId", 0>> \in Fields(kind) /\ <<"PlayerVehicleId", 0>> \in OtherFields
      BY <2>3, VehicleFields DEF OtherFields
    <3>2. server'[<<"PlayerVehicleId", 0>>] = server[<<"PlayerVehicleId", 0>>]
      BY <2>1, <2>2, <3>1, Zenon
    <3> QED BY <2>3, <3>2, Zenon DEF Typed
  <2> QED BY <2>1, <2>3
<1>5. ASSUME NEW value, SetsAlpha(value)
      PROVE  server' \in [Fields(kind) -> Int] /\ kind # "Player"
  BY ONLY Typed, <1>5, AlphaWrites, SMT DEF SetsAlpha
<1>6. ASSUME NEW value, SetsTaxiLight(value)
      PROVE  server' \in [Fields(kind) -> Int] /\ kind # "Player"
  BY ONLY Typed, <1>6, TaxiWrites, SMT DEF SetsTaxiLight
<1>7. ASSUME NEW value, SetsVehicle(value)
      PROVE  server' \in [Fields(kind) -> Int] /\ server'[<<"PlayerVehicleId", 0>>] \in Nat
  BY <1>7, VehicleWrites, Zenon DEF SetsVehicle
<1>11. ASSUME NEW name, NEW value, Rotates(name, value)
       PROVE  server' \in [Fields(kind) -> Int] /\ kind # "Player"
  <2>1. server' \in [Fields(kind) -> Int]
    BY <1>11, RotateWrites
  <2>2. kind = "Vehicle"
    BY <1>11, Zenon DEF Rotates
  <2> QED BY <2>1, <2>2, SMT
<1>8. ASSUME Repairs PROVE server' \in [Fields(kind) -> Int] /\ kind # "Player"
  <2>1. kind = "Vehicle" /\ \E answers \in [1..3 -> Answers] : repair(answers)
    BY <1>8, Zenon DEF Repairs
  <2>2. server' \in [Fields(kind) -> Int]
    BY <2>1, RepairWrites
  <2> QED BY <2>1, <2>2, SMT
<1>9. ASSUME Resets PROVE server' \in [Fields(kind) -> Int] /\ kind # "Player"
  <2>1. /\ kind = "Vehicle"
        /\ \E n \in 1..2 : \E rules \in [1..n -> Keys \cup {Half}], answers \in [1..n -> Answers] :
                resetHandlingRule(rules, answers)
    BY <1>9, Zenon DEF Resets
  <2>2. server' \in [Fields(kind) -> Int]
    BY <2>1, ResetWrites
  <2> QED BY <2>1, <2>2, SMT
<1>10. ASSUME Changes
       PROVE  /\ server' \in [Fields(kind) -> Int]
              /\ kind = "Player" => server'[<<"PlayerVehicleId", 0>>] \in Nat
  <2>1. PICK f \in DOMAIN server, n \in Nat : server' = [server EXCEPT ![f] = n]
    BY <1>10, Zenon DEF Changes
  <2>2. n \in Int /\ f \in Fields(kind) /\ server \in [Fields(kind) -> Int]
    BY <2>1 DEF Typed
  <2>3. server' \in [Fields(kind) -> Int]
    BY ONLY <2>1, <2>2, Zenon
  <2>4. ASSUME kind = "Player" PROVE server'[<<"PlayerVehicleId", 0>>] \in Nat
    <3>1. <<"PlayerVehicleId", 0>> \in DOMAIN server /\ server[<<"PlayerVehicleId", 0>>] \in Nat
      BY <2>4, VehicleFields DEF Typed
    <3> QED BY <2>1, <3>1
  <2> QED BY <2>3, <2>4
<1> QED BY <1>1, <1>3, <1>4, <1>5, <1>6, <1>7, <1>8, <1>9, <1>10, <1>11, Steps, Zenon DEF Fails, vars

(* It has it from the start.                                               *)
LEMMA TypedInit == Init => Typed
<1> SUFFICES ASSUME Init PROVE Typed
  OBVIOUS
<1>1. kind \in Kinds /\ server = [f \in Fields(kind) |-> 0]
  BY Zenon DEF Init
<1>2. server \in [Fields(kind) -> Int]
  BY <1>1
<1>3. kind = "Player" => server[<<"PlayerVehicleId", 0>>] = 0
  BY <1>1, VehicleFields
<1> QED BY <1>1, <1>2, <1>3 DEF Typed

-----------------------------------------------------------------------------
\* Properties: repair and resetHandlingRule.

(* Only repair and resetHandlingRule are calls of those names.             *)
LEMMA OtherNames ==
    /\ Typed => \A row, value : Assigns(row, value) => last'.name \notin {<<"repair", 0>>, <<"resetHandlingRule", 0>>}
    /\ \A value : SetsAlpha(value) \/ SetsTaxiLight(value) \/ SetsVehicle(value) =>
            last'.name \notin {<<"repair", 0>>, <<"resetHandlingRule", 0>>}
    /\ \A name, value : Rotates(name, value) => last'.name \notin {<<"repair", 0>>, <<"resetHandlingRule", 0>>}
    /\ Changes => last'.name \notin {<<"repair", 0>>, <<"resetHandlingRule", 0>>}
<1>1. ASSUME Typed, NEW row, NEW value, Assigns(row, value)
      PROVE  last'.name \notin {<<"repair", 0>>, <<"resetHandlingRule", 0>>}
  BY <1>1, RowFacts, Zenon DEF RowOf, Assigns, Typed
<1>2. ASSUME NEW value, SetsAlpha(value) \/ SetsTaxiLight(value) \/ SetsVehicle(value)
      PROVE  last'.name \notin {<<"repair", 0>>, <<"resetHandlingRule", 0>>}
  <2>1. last'.name \in {<<"alpha", 0>>, <<"taxiLight", 0>>, <<"vehicle", 0>>}
    BY <1>2, Zenon DEF SetsAlpha, SetsTaxiLight, SetsVehicle
  <2> QED BY <2>1, SMT
<1>3. ASSUME Changes PROVE last'.name \notin {<<"repair", 0>>, <<"resetHandlingRule", 0>>}
  <2>1. last'.name = <<"none", 0>>
    BY <1>3, Zenon DEF Changes
  <2> QED BY <2>1, SMT
<1>4. ASSUME NEW name, NEW value, Rotates(name, value)
      PROVE  last'.name \notin {<<"repair", 0>>, <<"resetHandlingRule", 0>>}
  <2>1. last'.name = <<name, 0>> /\ name \in RotationNames
    BY <1>4, Zenon DEF Rotates
  <2> QED BY <2>1, SMT DEF RotationNames
<1> QED BY ONLY <1>1, <1>2, <1>3, <1>4, Zenon

(***************************************************************************)
(* vehicle:repair() and resetHandlingRule return true only if every setter *)
(* of theirs succeeded, and the fields are then what the call is for; the  *)
(* taxi light, which shares its word with the damage, stays as it was.     *)
(***************************************************************************)
THEOREM RepairIsWhole == Spec => TrueMeansDone
<1>1. ASSUME Typed, [Next]_vars PROVE [TakesEveryStep]_vars
  <2>1. CASE last'.name \notin {<<"repair", 0>>, <<"resetHandlingRule", 0>>}
    BY <2>1, Zenon DEF TakesEveryStep, AssignedTo
  <2>2. <<"repair", 0>> # <<"resetHandlingRule", 0>>
    BY SMT
  <2>3. CASE Repairs
    <3>1. PICK answers \in [1..3 -> Answers] : repair(answers)
      BY <2>3, Zenon DEF Repairs
    <3>2. kind = "Vehicle" /\ <<"VehicleLightsData", 0>> \in Fields(kind)
      BY <2>3, DerivedFields DEF Repairs
    <3>3. /\ last'.name = <<"repair", 0>>
          /\ last'.result = "true" =>
                /\ server'[<<"VehicleHealth", 0>>] = 1000
                /\ server'[<<"VehicleDamageData", 0>>] = 0
                /\ server'[<<"VehicleLightsData", 0>>] = Lights - (Lights % Bytes)
      BY <1>1, <3>1, <3>2, RepairWrites
    <3>4. Lights \in Int /\ Lights' = server'[<<"VehicleLightsData", 0>>]
      BY <1>1, <3>2 DEF Lights, Typed
    <3>5. last'.result = "true" => Lights' % Bytes = 0 /\ TaxiBit(Lights') = TaxiBit(Lights)
      BY <3>3, <3>4, LowByteCleared
    <3>6. TakesEveryStep
      BY ONLY <2>2, <3>3, <3>5, SMT DEF TakesEveryStep, AssignedTo
    <3> QED BY <3>6, Zenon
  <2>4. CASE Resets
    <3>1. PICK n \in 1..2 : \E rules \in [1..n -> Keys \cup {Half}], answers \in [1..n -> Answers] :
                resetHandlingRule(rules, answers)
      BY <2>4, Zenon DEF Resets
    <3>4. PICK rules \in [1..n -> Keys \cup {Half}], answers \in [1..n -> Answers] : resetHandlingRule(rules, answers)
      BY <3>1
    <3>2. kind = "Vehicle"
      BY <2>4, Zenon DEF Resets
    <3>3. /\ last'.name = <<"resetHandlingRule", 0>> /\ last'.value.e = rules
          /\ last'.result = "true" => \A i \in DOMAIN rules : server'[<<"InstHandlingRule", rules[i]>>] = 0
      BY <1>1, <3>2, <3>4, ResetWrites
    <3> QED BY ONLY <2>2, <3>3, Zenon DEF TakesEveryStep, AssignedTo
  <2>5. CASE Fails
    BY <2>1, <2>5, Zenon DEF Fails
  <2>6. CASE UNCHANGED vars
    BY <2>6
  <2> QED BY <1>1, <2>1, <2>3, <2>4, <2>5, <2>6, Steps, OtherNames, Zenon
<1> QED BY <1>1, TypedInit, TypedStep, PTL DEF Spec, TrueMeansDone

-----------------------------------------------------------------------------
\* Properties: reading what was assigned.

(* What a script can read, beside the rows.                                *)
LEMMA DerivedViews ==
    ASSUME NEW view \in Derived(kind), kind \in Kinds
    PROVE  \/ kind = "Player" /\ view.name = <<"vehicle", 0>> /\ view.fields = <<<<"PlayerVehicleId", 0>>>>
           \/ kind = "Vehicle" /\ view.name = <<"taxiLight", 0>> /\ view.fields = <<<<"VehicleLightsData", 0>>>>
           \/ kind = "Checkpoint" /\ view.name = <<"alpha", 0>> /\ view.fields = <<<<"CheckPointColour", 4>>>>
<1>1. \A name, field : View(name, field).name = name /\ View(name, field).fields = <<field>>
  BY DEF View
<1>2. CASE kind = "Player"
  <2>1. view = View(<<"vehicle", 0>>, <<"PlayerVehicleId", 0>>)
    BY <1>2, SMT DEF Derived
  <2> QED BY <1>1, <1>2, <2>1, Zenon
<1>3. CASE kind = "Vehicle"
  <2>1. view = View(<<"taxiLight", 0>>, <<"VehicleLightsData", 0>>)
    BY <1>3, SMT DEF Derived
  <2> QED BY <1>1, <1>3, <2>1, Zenon
<1>4. CASE kind = "Checkpoint"
  <2>1. view = View(<<"alpha", 0>>, <<"CheckPointColour", 4>>)
    BY <1>4, SMT DEF Derived
  <2> QED BY <1>1, <1>4, <2>1, Zenon
<1>5. CASE kind \in {"Object", "Pickup", "Server"}
  BY <1>5, SMT DEF Derived
<1> QED BY <1>2, <1>3, <1>4, <1>5 DEF Kinds

(* What a script can read of a vehicle's rotations.                        *)
LEMMA TurnViews ==
    ASSUME NEW view \in Turnable(kind)
    PROVE  /\ kind = "Vehicle"
           /\ \E name \in RotationNames :
                /\ view.name = <<name, 0>>
                /\ DOMAIN view.fields \subseteq 1..7
                /\ \A i \in DOMAIN view.fields : view.fields[i] = <<RotationOf(name), i>>
<1>1. kind = "Vehicle"
  BY SMT DEF Turnable
<1>2. PICK name \in RotationNames : view = RotationView(name)
  BY <1>1, Zenon DEF Turnable
<1>3. PICK D : D = IF name = "spawnRotation" THEN 1..3 ELSE 1..7
  BY Zenon
<1>4. D \subseteq 1..7
  BY <1>3, SMT
<1>5. view.name = <<name, 0>> /\ view.fields = [i \in D |-> <<RotationOf(name), i>>]
  BY <1>2, <1>3, Zenon DEF RotationView
<1>6. DOMAIN view.fields = D /\ \A i \in D : view.fields[i] = <<RotationOf(name), i>>
  BY <1>5, Zenon
<1> QED BY ONLY <1>1, <1>4, <1>5, <1>6, name \in RotationNames, Zenon

(* The names of rotations, as calls record them.                           *)
LEMMA TurnNamed == \A name \in RotationNames : <<name, 0>> \in TurnNames /\ <<name, 0>>[1] = name
BY SMT DEF RotationNames, TurnNames

(* No property has the name of a method that is not a setter.              *)
LEMMA ViewNames ==
    ASSUME Typed, NEW view \in Views
    PROVE  view.name \notin {<<"repair", 0>>, <<"resetHandlingRule", 0>>, <<"none", 0>>}
<1>1. CASE view \in Rows[kind]
  BY <1>1, RowFacts, Zenon DEF RowOf, Typed
<1>2. CASE view \in Derived(kind)
  <2>1. view.name \in {<<"vehicle", 0>>, <<"taxiLight", 0>>, <<"alpha", 0>>}
    BY <1>2, DerivedViews, Zenon DEF Typed
  <2> QED BY <2>1, SMT
<1>3. CASE view \in Turnable(kind)
  <2>1. view.name \in TurnNames
    BY <1>3, TurnViews, TurnNamed, Zenon
  <2> QED BY <2>1, SMT DEF TurnNames
<1> QED BY <1>1, <1>2, <1>3 DEF Views, Settings

(* A rotation is no other property.                                        *)
LEMMA TurnsApart ==
    ASSUME Typed, kind = "Vehicle", NEW view \in Settings
    PROVE  view.name \notin TurnNames
<1>1. CASE view \in Rows[kind]
  BY <1>1, RowFacts, Zenon DEF RowOf, Typed
<1>2. CASE view \in Derived(kind)
  <2>1. view.name \in {<<"vehicle", 0>>, <<"taxiLight", 0>>, <<"alpha", 0>>}
    BY <1>2, DerivedViews, Zenon DEF Typed
  <2> QED BY <2>1, SMT DEF TurnNames
<1> QED BY <1>1, <1>2 DEF Settings

(* What is expected, element by element.                                   *)
LEMMA ExpectedAs ==
    ASSUME NEW name, NEW value, NEW before
    PROVE  Expected(name, value, before) =
             IF value.type = "table"
             THEN [i \in DOMAIN before |->
                     IF i \in DOMAIN value.e THEN Read(kind, name, i, value.e[i]) ELSE before[i]]
             ELSE <<ReadAs(kind, name, 1, value)>>
BY Zenon DEF Expected, Read, ReadAs

(* What a property with one field reads as.                                *)
LEMMA OneField ==
    ASSUME NEW view, view.name # <<"taxiLight", 0>>, NEW fields, DOMAIN view.fields = {1}
    PROVE  Reading(view, fields) = <<fields[view.fields[1]]>>
<1>1. Reading(view, fields) = [i \in {1} |-> fields[view.fields[i]]]
  BY Zenon DEF Reading
<1>2. [i \in {1} |-> fields[view.fields[i]]] = <<fields[view.fields[1]]>>
  BY SMT
<1> QED BY <1>1, <1>2, Zenon

(* A property that was assigned reads as assigned.                         *)
LEMMA RowIsRead ==
    ASSUME Typed, NEW row, NEW value, Assigns(row, value), NEW view \in Settings, view.name = row.name
    PROVE  Reading(view, server') = Expected(view.name, value, Reading(view, server))
<1>1. /\ kind \in Kinds /\ row \in Rows[kind] /\ ~Refused(row, value)
      /\ value \in ValuesFor(row)
  BY Zenon DEF Assigns, Typed
<1>2. /\ row.name \notin {<<"vehicle", 0>>, <<"taxiLight", 0>>}
      /\ kind = "Checkpoint" => row.name # <<"alpha", 0>>
  BY <1>1, RowFacts, Zenon DEF RowOf
<1>3. view \in Rows[kind]
  <2>1. ASSUME view \in Derived(kind) PROVE FALSE
    BY <1>1, <1>2, <2>1, DerivedViews, Zenon
  <2> QED BY <2>1 DEF Settings
<1>4. view.fields = row.fields
  BY <1>1, <1>3, RowsApart
<1>5. PICK fs : fs = row.fields
  OBVIOUS
<1>6. PICK m : m = Merged(row, value)
  OBVIOUS
<1>7. \A i \in DOMAIN fs : server'[fs[i]] = m[i]
  BY <1>5, <1>6, AssignWrites
<1>8. PICK before : before = Reading(view, server)
  OBVIOUS
<1>9. before = [i \in DOMAIN fs |-> server[fs[i]]]
  BY <1>2, <1>4, <1>5, <1>8, ZenonT(60) DEF Reading
<1>10. Reading(view, server') = [i \in DOMAIN fs |-> server'[fs[i]]]
  BY <1>2, <1>4, <1>5, Zenon DEF Reading
<1>11. /\ value.type = "table" =>
            \A i \in DOMAIN fs :
                m[i] = IF i \in DOMAIN value.e THEN Read(kind, row.name, i, value.e[i]) ELSE server[fs[i]]
       /\ value.type # "table" =>
            /\ DOMAIN fs = {1}
            /\ m[1] = ReadAs(kind, row.name, 1, value)
  <2>1. StoredAs(row, value, m)
    BY <1>1, <1>6, AssignedValues, Zenon
  <2> QED BY ONLY <1>5, <2>1, Zenon DEF StoredAs
<1>12. PICK expected : expected = Expected(row.name, value, before)
  BY Zenon
<1>13. expected = IF value.type = "table"
                  THEN [i \in DOMAIN before |->
                         IF i \in DOMAIN value.e THEN Read(kind, row.name, i, value.e[i]) ELSE before[i]]
                  ELSE <<ReadAs(kind, row.name, 1, value)>>
  BY <1>12, ExpectedAs, Zenon
<1>14. CASE value.type = "table"
  <2>1. expected = [i \in DOMAIN fs |->
                      IF i \in DOMAIN value.e THEN Read(kind, row.name, i, value.e[i]) ELSE server[fs[i]]]
    BY ONLY <1>9, <1>13, <1>14, Zenon
  <2>2. [i \in DOMAIN fs |-> server'[fs[i]]] = expected
    BY ONLY <1>7, <1>11, <1>14, <2>1, Zenon
  <2> QED BY <1>8, <1>10, <1>12, <2>2
<1>15. CASE value.type # "table"
  <2>1. DOMAIN fs = {1} /\ expected = <<m[1]>>
    BY ONLY <1>11, <1>13, <1>15, Zenon
  <2>2. Reading(view, server') = <<server'[fs[1]]>>
    BY <1>2, <1>4, <1>5, <2>1, OneField, Zenon
  <2>3. server'[fs[1]] = m[1]
    BY <1>7, <2>1
  <2> QED BY <1>8, <1>12, <2>1, <2>2, <2>3
<1> QED BY <1>14, <1>15

(* The three that are derived read as assigned.                            *)
LEMMA DerivedIsRead ==
    ASSUME Typed, NEW value, SetsAlpha(value) \/ SetsTaxiLight(value) \/ SetsVehicle(value),
           NEW view \in Settings, view.name = last'.name
    PROVE  Reading(view, server') = Expected(view.name, value, Reading(view, server))
<1>1. /\ value.type \in {"number", "boolean", "nil", "vehicle"}
      /\ last'.name \in {<<"alpha", 0>>, <<"taxiLight", 0>>, <<"vehicle", 0>>}
      /\ last'.name = <<"alpha", 0>> => kind = "Checkpoint"
  <2>1. SetsAlpha(value) => /\ value.type = "number" /\ last'.name = <<"alpha", 0>> /\ kind = "Checkpoint"
    BY Zenon DEF SetsAlpha
  <2>2. SetsTaxiLight(value) => value.type = "boolean" /\ last'.name = <<"taxiLight", 0>>
    BY Zenon DEF SetsTaxiLight
  <2>3. SetsVehicle(value) => value.type \in {"nil", "vehicle"} /\ last'.name = <<"vehicle", 0>>
    BY Zenon DEF SetsVehicle
  <2> QED BY <2>1, <2>2, <2>3, SMT
<1>2. view \in Derived(kind)
  <2>1. ASSUME view \in Rows[kind] PROVE FALSE
    <3>1. /\ view.name \notin {<<"vehicle", 0>>, <<"taxiLight", 0>>}
          /\ kind = "Checkpoint" => view.name # <<"alpha", 0>>
      BY <2>1, RowFacts, Zenon DEF RowOf, Typed
    <3> QED BY <1>1, <3>1, Zenon
  <2> QED BY <2>1 DEF Settings
<1>3. Expected(view.name, value, Reading(view, server)) = <<value.v>>
  <2>1. /\ value.type # "table" /\ value.type # "string"
        /\ view.name # <<"spectateTarget", 0>> /\ view.name # <<"color", 0>> /\ view.name # <<"wastedSettings", 0>>
        /\ view.name[1] \notin FloatNames
    BY <1>1, SMT DEF FloatNames
  <2> QED BY <2>1, ExpectedAs, Zenon DEF Read, ReadAs
<1>4. kind \in Kinds
  BY DEF Typed
<1>5. <<"alpha", 0>> # <<"taxiLight", 0>> /\ <<"vehicle", 0>> # <<"taxiLight", 0>> /\ <<"vehicle", 0>> # <<"alpha", 0>>
  BY SMT
<1>6. CASE SetsAlpha(value)
  <2>1. view.name = <<"alpha", 0>> /\ view.fields = <<<<"CheckPointColour", 4>>>>
    BY <1>2, <1>4, <1>5, <1>6, DerivedViews, Zenon DEF SetsAlpha
  <2>2. DOMAIN view.fields = {1} /\ view.fields[1] = <<"CheckPointColour", 4>>
    BY <2>1, SMT
  <2>3. Reading(view, server') = <<server'[<<"CheckPointColour", 4>>]>>
    BY <1>5, <2>1, <2>2, OneField
  <2> QED BY <1>3, <1>6, <2>3, AlphaWrites
<1>7. CASE SetsTaxiLight(value)
  <2>1. view.name = <<"taxiLight", 0>>
    BY <1>7, Zenon DEF SetsTaxiLight
  <2>2. Reading(view, server') = <<TaxiBit(server'[<<"VehicleLightsData", 0>>])>>
    BY <2>1, Zenon DEF Reading
  <2>3. value.v \in {0, 1}
    BY <1>7, Zenon DEF SetsTaxiLight
  <2>4. Lights \in Int /\ server'[<<"VehicleLightsData", 0>>] = Lights + (value.v - TaxiBit(Lights)) * Bytes
    BY <1>7, TaxiWrites
  <2>5. TaxiBit(server'[<<"VehicleLightsData", 0>>]) = value.v
    BY <2>3, <2>4, TaxiWritten
  <2> QED BY <1>3, <2>2, <2>5
<1>8. CASE SetsVehicle(value)
  <2>1. view.name = <<"vehicle", 0>> /\ view.fields = <<<<"PlayerVehicleId", 0>>>>
    BY <1>2, <1>4, <1>5, <1>8, DerivedViews, Zenon DEF SetsVehicle
  <2>2. DOMAIN view.fields = {1} /\ view.fields[1] = <<"PlayerVehicleId", 0>>
    BY <2>1, SMT
  <2>3. Reading(view, server') = <<server'[<<"PlayerVehicleId", 0>>]>>
    BY <1>5, <2>1, <2>2, OneField
  <2> QED BY <1>3, <1>8, <2>3, VehicleWrites
<1> QED BY <1>6, <1>7, <1>8

(* Two names of one rotation are names of the same fields, and others not. *)
LEMMA TurnPairs ==
    ASSUME NEW a \in RotationNames, NEW b \in RotationNames
    PROVE  /\ a = b \/ {<<a, 0>>, <<b, 0>>} \in Shared => RotationOf(a) = RotationOf(b)
           /\ a # b /\ {<<a, 0>>, <<b, 0>>} \notin Shared => RotationOf(a) # RotationOf(b)
<1>1. a \in {"rotation", "angle"} /\ b \in {"rotation", "angle"} => RotationOf(a) = RotationOf(b)
  BY SMT DEF RotationOf
<1>2. a \in {"rotation", "angle"} /\ b \in {"rotation", "angle"} /\ a # b =>
        {<<a, 0>>, <<b, 0>>} = {<<"rotation", 0>>, <<"angle", 0>>}
  <2> SUFFICES ASSUME a \in {"rotation", "angle"}, b \in {"rotation", "angle"}, a # b
               PROVE  {<<a, 0>>, <<b, 0>>} = {<<"rotation", 0>>, <<"angle", 0>>}
    OBVIOUS
  <2>1. CASE a = "rotation" /\ b = "angle"
    BY <2>1
  <2>2. CASE a = "angle" /\ b = "rotation"
    BY <2>2
  <2>3. (a = "rotation" /\ b = "angle") \/ (a = "angle" /\ b = "rotation")
    BY SMT
  <2> QED BY ONLY <2>1, <2>2, <2>3
<1>3. (a = "spawnRotation" /\ b # a) \/ (b = "spawnRotation" /\ b # a) => RotationOf(a) # RotationOf(b)
  BY SMT DEF RotationOf
<1>4. <<"spawnRotation", 0>> \notin {<<"lightsData", 0>>, <<"taxiLight", 0>>, <<"color", 0>>, <<"alpha", 0>>,
                                     <<"rotation", 0>>, <<"angle", 0>>}
  BY SMT
<1>5. a = "spawnRotation" \/ b = "spawnRotation" => {<<a, 0>>, <<b, 0>>} \notin Shared
  BY <1>4, Zenon DEF Shared
<1> QED BY <1>1, <1>2, <1>3, <1>5, Zenon DEF RotationNames, Shared

(* A rotation that was assigned reads as assigned, under both its names.   *)
LEMMA TurnIsRead ==
    ASSUME Typed, NEW name, NEW value, Rotates(name, value),
           NEW view \in Turnable(kind), NEW other \in Turnable(kind), view.name = last'.name,
           other.name = view.name \/ {view.name, other.name} \in Shared
    PROVE  ReadsAsTurned(Reading(other, server'), value)
<1>1. PICK b \in RotationNames :
        /\ other.name = <<b, 0>> /\ DOMAIN other.fields \subseteq 1..7
        /\ \A i \in DOMAIN other.fields : other.fields[i] = <<RotationOf(b), i>>
  BY TurnViews
<1>2. name \in RotationNames /\ view.name = <<name, 0>>
  BY Zenon DEF Rotates
<1>3. RotationOf(b) = RotationOf(name)
  <2>1. other.name = view.name => b = name
    BY <1>1, <1>2, TurnNamed, Zenon
  <2>2. b = name \/ {<<name, 0>>, <<b, 0>>} \in Shared
    BY <1>1, <1>2, <2>1, Zenon
  <2> QED BY <1>2, <2>2, TurnPairs
<1>4. PICK e : e = RotationTable(value).e
  OBVIOUS
<1>5. Holds(server', name, e)
  BY ONLY Typed, Rotates(name, value), <1>4, RotateWrites, Zenon
<1>6. other.name # <<"taxiLight", 0>>
  BY <1>1, SMT DEF RotationNames
<1>7. Reading(other, server') = [i \in DOMAIN other.fields |-> server'[other.fields[i]]]
  BY <1>6, Zenon DEF Reading
<1>8. PICK reading : reading = Reading(other, server')
  OBVIOUS
<1>9. DOMAIN reading \subseteq 1..7 /\ \A i \in DOMAIN reading : reading[i] = server'[<<RotationOf(name), i>>]
  <2>1. DOMAIN reading = DOMAIN other.fields /\ \A i \in DOMAIN reading : reading[i] = server'[other.fields[i]]
    BY ONLY <1>7, <1>8, Zenon
  <2> QED BY ONLY <1>1, <1>3, <2>1, Zenon
<1>10. \A i \in DOMAIN reading :
        /\ Len(e) = 3 /\ i <= 3 => reading[i] = Single(e[i])
        /\ Len(e) >= 4 /\ i > 3 => reading[i] = Single(e[i - 3])
  BY ONLY <1>5, <1>9, Zenon DEF Holds
<1> QED BY ONLY <1>4, <1>8, <1>10, Zenon DEF ReadsAsTurned

(***************************************************************************)
(* What a script assigns to a property, and the server accepts, is what    *)
(* the property reads as, up to the rounding to a float and the NUL that   *)
(* ends a C string: for the 71 declared properties and settings of the six *)
(* tables, the three derived views and the rotations of a vehicle, every   *)
(* Lua value, table and key, and after any calls before.                   *)
(***************************************************************************)
THEOREM PropertiesRead == Spec => AssignedIsRead
<1>1. ASSUME Typed, [Next]_vars PROVE [ReadsAsAssigned]_vars
  <2>1. ASSUME NEW view \in Views, last'.name = view.name, last'.result = "true", ~UNCHANGED vars
        PROVE  \/ \E row, value : Assigns(row, value)
               \/ \E value : SetsAlpha(value) \/ SetsTaxiLight(value) \/ SetsVehicle(value)
               \/ \E name, value : Rotates(name, value)
    <3>1. last'.name \notin {<<"repair", 0>>, <<"resetHandlingRule", 0>>, <<"none", 0>>}
      BY <1>1, <2>1, ViewNames
    <3>2. ~Fails /\ ~Changes
      BY <2>1, <3>1, Zenon DEF Fails, Changes
    <3>3. ~Repairs
      <4>1. Repairs => last'.name = <<"repair", 0>>
        BY <1>1, RepairWrites, Zenon DEF Repairs
      <4> QED BY <3>1, <4>1
    <3>4. ~Resets
      <4>1. Resets => last'.name = <<"resetHandlingRule", 0>>
        BY <1>1, ResetWrites, Zenon DEF Resets
      <4> QED BY <3>1, <4>1
    <3> QED BY <1>1, <2>1, <3>2, <3>3, <3>4, Steps, Zenon
  <2>2. ASSUME NEW view \in Settings, last'.name = view.name, last'.result = "true", ~UNCHANGED vars
        PROVE  Reading(view, server') = Expected(view.name, last'.value, Reading(view, server))
    <3>1. ASSUME NEW row, NEW value, Assigns(row, value)
          PROVE  Reading(view, server') = Expected(view.name, last'.value, Reading(view, server))
      <4>1. last'.value = value /\ last'.name = row.name
        BY <3>1, Zenon DEF Assigns
      <4>2. Typed /\ Assigns(row, value) /\ view \in Settings /\ view.name = row.name
        BY <1>1, <2>2, <3>1, <4>1, Zenon
      <4>3. Reading(view, server') = Expected(view.name, value, Reading(view, server))
        BY ONLY <4>2, RowIsRead, Zenon
      <4> QED BY <4>1, <4>3, Zenon
    <3>2. ASSUME NEW value, SetsAlpha(value) \/ SetsTaxiLight(value) \/ SetsVehicle(value)
          PROVE  Reading(view, server') = Expected(view.name, last'.value, Reading(view, server))
      <4>1. last'.value = value
        BY <3>2, Zenon DEF SetsAlpha, SetsTaxiLight, SetsVehicle
      <4>2. Reading(view, server') = Expected(view.name, value, Reading(view, server))
        BY <1>1, <2>2, <3>2, DerivedIsRead
      <4> QED BY <4>1, <4>2, Zenon
    <3>3. ASSUME NEW name, NEW value, Rotates(name, value) PROVE FALSE
      <4>1. kind = "Vehicle" /\ name \in RotationNames /\ view.name = <<name, 0>>
        BY <2>2, <3>3, Zenon DEF Rotates
      <4> QED BY <1>1, <4>1, TurnNamed, TurnsApart, Zenon
    <3>4. view \in Views
      BY <2>2 DEF Views
    <3> QED BY <2>1, <2>2, <3>1, <3>2, <3>3, <3>4, Zenon
  <2>3. ASSUME NEW view \in Turnable(kind), last'.name = view.name, last'.result = "true", ~UNCHANGED vars,
               NEW other \in Turnable(kind), other.name = view.name \/ {view.name, other.name} \in Shared
        PROVE  ReadsAsTurned(Reading(other, server'), last'.value)
    <3>1. kind = "Vehicle" /\ last'.name \in TurnNames /\ view \in Views
      BY <2>3, TurnViews, TurnNamed, Zenon DEF Views
    <3>2. ASSUME NEW row, NEW value, Assigns(row, value) PROVE FALSE
      <4>1. row \in Settings /\ last'.name = row.name
        BY <3>2, Zenon DEF Assigns, Settings
      <4> QED BY <1>1, <3>1, <4>1, TurnsApart, Zenon
    <3>3. ASSUME NEW value, SetsAlpha(value) \/ SetsTaxiLight(value) \/ SetsVehicle(value) PROVE FALSE
      <4>1. last'.name \in {<<"alpha", 0>>, <<"taxiLight", 0>>, <<"vehicle", 0>>}
        BY <3>3, Zenon DEF SetsAlpha, SetsTaxiLight, SetsVehicle
      <4> QED BY <3>1, <4>1, SMT DEF TurnNames
    <3>4. PICK name, value : Rotates(name, value)
      BY <2>1, <2>3, <3>1, <3>2, <3>3, Zenon
    <3>5. last'.value = value
      BY <3>4, Zenon DEF Rotates
    <3>6. ReadsAsTurned(Reading(other, server'), value)
      BY <1>1, <2>3, <3>4, TurnIsRead
    <3> QED BY <3>5, <3>6, Zenon
  <2> QED BY ONLY <2>2, <2>3, Zenon DEF ReadsAsAssigned, AssignedTo
<1> QED BY <1>1, TypedInit, TypedStep, PTL DEF Spec, AssignedIsRead

-----------------------------------------------------------------------------
\* Properties: leaving the others alone.

(* A property reads as before if its fields are as before.                 *)
LEMMA SameReading ==
    ASSUME Typed, NEW other \in Views, \A i \in DOMAIN other.fields : server'[other.fields[i]] = server[other.fields[i]]
    PROVE  Reading(other, server') = Reading(other, server)
<1>1. CASE other.name = <<"taxiLight", 0>>
  <2>1. other \in Derived(kind)
    <3>1. other \in Rows[kind] => other.name # <<"taxiLight", 0>>
      BY RowFacts, Zenon DEF RowOf, Typed
    <3>2. other \in Turnable(kind) => other.name \in TurnNames
      BY TurnViews, TurnNamed, Zenon
    <3>3. <<"taxiLight", 0>> \notin TurnNames
      BY SMT DEF TurnNames
    <3> QED BY <1>1, <3>1, <3>2, <3>3, Zenon DEF Views, Settings
  <2>2. <<"vehicle", 0>> # <<"taxiLight", 0>> /\ <<"alpha", 0>> # <<"taxiLight", 0>>
    BY SMT
  <2>3. other.fields = <<<<"VehicleLightsData", 0>>>>
    BY <1>1, <2>1, <2>2, DerivedViews, Zenon DEF Typed
  <2>4. 1 \in DOMAIN other.fields /\ other.fields[1] = <<"VehicleLightsData", 0>>
    BY <2>3, SMT
  <2>5. server'[<<"VehicleLightsData", 0>>] = server[<<"VehicleLightsData", 0>>]
    BY <2>4
  <2> QED BY <1>1, <2>5, Zenon DEF Reading
<1>2. CASE other.name # <<"taxiLight", 0>>
  BY <1>2, Zenon DEF Reading
<1> QED BY <1>1, <1>2

(* The fields of a rotation are those of no row.                           *)
LEMMA TurnFieldsOf ==
    ASSUME NEW other \in Turnable(kind), NEW i \in DOMAIN other.fields
    PROVE  other.fields[i] \in TurnFields
<1>1. PICK name \in RotationNames : DOMAIN other.fields \subseteq 1..7 /\ other.fields[i] = <<RotationOf(name), i>>
  BY TurnViews
<1>2. RotationOf(name) \in {"VehicleRotation", "VehicleSpawnRotation"}
  BY DEF RotationOf
<1> QED BY <1>1, <1>2, SMT DEF TurnFields

(* A property that is derived has fields that exist.                       *)
LEMMA ViewFields ==
    ASSUME Typed, NEW other \in Views
    PROVE  \A i \in DOMAIN other.fields : other.fields[i] \in Fields(kind)
<1>1. CASE other \in Rows[kind]
  BY <1>1, RowFacts, Zenon DEF RowOf, Typed
<1>2. CASE other \in Derived(kind)
  <2>1. \/ kind = "Player" /\ other.fields = <<<<"PlayerVehicleId", 0>>>>
        \/ kind = "Vehicle" /\ other.fields = <<<<"VehicleLightsData", 0>>>>
        \/ kind = "Checkpoint" /\ other.fields = <<<<"CheckPointColour", 4>>>>
    BY <1>2, DerivedViews, Zenon DEF Typed
  <2>2. \E f \in Fields(kind) : other.fields = <<f>>
    <3>1. 4 \in 1..4
      BY SMT
    <3>2. <<"VehicleLightsData", 0>> \in Fields("Vehicle") /\ <<"CheckPointColour", 4>> \in Fields("Checkpoint")
      BY <3>1, DerivedFields, Zenon
    <3> QED BY <2>1, <3>2, VehicleFields, Zenon
  <2> QED BY <2>2, SMT
<1>3. CASE other \in Turnable(kind)
  <2>1. kind = "Vehicle"
    BY <1>3, TurnViews
  <2> QED BY <1>3, <2>1, TurnFieldsOf, RotationFields, Zenon
<1> QED BY <1>1, <1>2, <1>3 DEF Views, Settings

(* An assignment to one row leaves the other properties alone.             *)
LEMMA RowKeepsOthers ==
    ASSUME Typed, NEW row, NEW value, Assigns(row, value), NEW other \in Views, other.name # row.name,
           {row.name, other.name} \notin Shared
    PROVE  Reading(other, server') = Reading(other, server)
<1>1. kind \in Kinds /\ row \in Rows[kind]
  BY Zenon DEF Assigns, Typed
<1>2. \A f \in Fields(kind) : (\A i \in DOMAIN row.fields : row.fields[i] # f) => server'[f] = server[f]
  BY AssignWrites
<1>3. ASSUME NEW j \in DOMAIN other.fields, NEW i \in DOMAIN row.fields, row.fields[i] = other.fields[j] PROVE FALSE
  <2>1. CASE other \in Rows[kind]
    BY <1>1, <1>3, <2>1, RowsApart
  <2>2. CASE kind = "Player" /\ other.fields = <<<<"PlayerVehicleId", 0>>>>
    <3>1. other.fields[j] \in OtherFields
      BY <2>2, SMT DEF OtherFields
    <3> QED BY <1>1, <1>3, <3>1, RowFacts DEF RowOf
  <2>3. CASE kind = "Vehicle" /\ other.name = <<"taxiLight", 0>> /\ other.fields = <<<<"VehicleLightsData", 0>>>>
    <3>1. other.fields[j] = <<"VehicleLightsData", 0>>
      BY <2>3, SMT
    <3>2. row.name = <<"lightsData", 0>>
      BY <1>1, <1>3, <2>3, <3>1, DerivedFields, Zenon
    <3> QED BY <2>3, <3>2, Zenon DEF Shared
  <2>4. CASE kind = "Checkpoint" /\ other.name = <<"alpha", 0>> /\ other.fields = <<<<"CheckPointColour", 4>>>>
    <3>1. other.fields[j] = <<"CheckPointColour", 4>>
      BY <2>4, SMT
    <3>2. row.fields[i][1] = "CheckPointColour"
      BY <1>3, <3>1, SMT
    <3>3. row.name = <<"color", 0>>
      BY <1>1, <2>4, <3>2, DerivedFields, Zenon
    <3> QED BY <2>4, <3>3, Zenon DEF Shared
  <2>5. CASE other \in Turnable(kind)
    <3>1. other.fields[j] \in TurnFields
      BY <2>5, TurnFieldsOf
    <3> QED BY <1>1, <1>3, <3>1, RowFacts DEF RowOf
  <2> QED BY <1>1, <2>1, <2>2, <2>3, <2>4, <2>5, DerivedViews, Zenon DEF Views, Settings
<1>4. \A j \in DOMAIN other.fields : server'[other.fields[j]] = server[other.fields[j]]
  BY <1>2, <1>3, ViewFields, Zenon
<1> QED BY <1>4, SameReading

(* And so do the three that are derived.                                   *)
LEMMA DerivedKeepsOthers ==
    ASSUME Typed, NEW value, SetsAlpha(value) \/ SetsTaxiLight(value) \/ SetsVehicle(value),
           NEW other \in Views, other.name # last'.name, {last'.name, other.name} \notin Shared
    PROVE  Reading(other, server') = Reading(other, server)
<1>1. kind \in Kinds
  BY DEF Typed
<1>2. \A j \in DOMAIN other.fields : other.fields[j] \in Fields(kind)
  BY ViewFields
<1>3. "Checkpoint" # "Player" /\ "Checkpoint" # "Vehicle" /\ "Player" # "Vehicle"
  BY SMT
<1>4. CASE SetsAlpha(value)
  <2>1. kind = "Checkpoint" /\ last'.name = <<"alpha", 0>>
    BY <1>4, Zenon DEF SetsAlpha
  <2>2. other \in Rows[kind]
    BY <1>1, <1>3, <2>1, DerivedViews, TurnViews, Zenon DEF Views, Settings
  <2>3. ASSUME NEW j \in DOMAIN other.fields, other.fields[j][1] = "CheckPointColour" PROVE FALSE
    <3>1. other.name = <<"color", 0>>
      BY <2>1, <2>2, <2>3, DerivedFields, Zenon
    <3>2. {last'.name, other.name} = {<<"color", 0>>, <<"alpha", 0>>}
      BY <2>1, <3>1
    <3> QED BY <3>2, Zenon DEF Shared
  <2>4. \A j \in DOMAIN other.fields : server'[other.fields[j]] = server[other.fields[j]]
    BY <1>2, <1>4, <2>3, AlphaWrites
  <2> QED BY <2>4, SameReading
<1>5. CASE SetsTaxiLight(value)
  <2>1. kind = "Vehicle" /\ last'.name = <<"taxiLight", 0>>
    BY <1>5, Zenon DEF SetsTaxiLight
  <2>2. other \in Rows[kind] \/ other \in Turnable(kind)
    BY <1>1, <1>3, <2>1, DerivedViews, Zenon DEF Views, Settings
  <2>3. ASSUME NEW j \in DOMAIN other.fields, other.fields[j] = <<"VehicleLightsData", 0>> PROVE FALSE
    <3>3. <<"VehicleLightsData", 0>> \notin TurnFields
      BY SMT DEF TurnFields
    <3>4. other \in Rows[kind]
      BY <2>2, <2>3, <3>3, TurnFieldsOf, Zenon
    <3>1. other.name = <<"lightsData", 0>>
      BY <2>1, <2>3, <3>4, DerivedFields, Zenon
    <3>2. {last'.name, other.name} = {<<"lightsData", 0>>, <<"taxiLight", 0>>}
      BY <2>1, <3>1
    <3> QED BY <3>2, Zenon DEF Shared
  <2>4. \A j \in DOMAIN other.fields : server'[other.fields[j]] = server[other.fields[j]]
    BY <1>2, <1>5, <2>3, TaxiWrites
  <2> QED BY <2>4, SameReading
<1>6. CASE SetsVehicle(value)
  <2>1. kind = "Player" /\ last'.name = <<"vehicle", 0>>
    BY <1>6, Zenon DEF SetsVehicle
  <2>2. other \in Rows[kind]
    BY <1>1, <1>3, <2>1, DerivedViews, TurnViews, Zenon DEF Views, Settings
  <2>3. \A j \in DOMAIN other.fields : other.fields[j] \notin OtherFields
    BY <1>1, <2>2, RowFacts DEF RowOf
  <2>4. \A j \in DOMAIN other.fields : server'[other.fields[j]] = server[other.fields[j]]
    BY <1>2, <1>6, <2>3, VehicleWrites
  <2> QED BY <2>4, SameReading
<1> QED BY <1>4, <1>5, <1>6

(* A rotation leaves everything else alone.                                *)
LEMMA TurnKeepsOthers ==
    ASSUME Typed, NEW name, NEW value, Rotates(name, value), NEW other \in Views, other.name # last'.name,
           {last'.name, other.name} \notin Shared
    PROVE  Reading(other, server') = Reading(other, server)
<1>1. kind = "Vehicle" /\ kind \in Kinds /\ name \in RotationNames /\ last'.name = <<name, 0>>
  BY Zenon DEF Rotates, Typed
<1>2. \A f \in Fields(kind) : f[1] # RotationOf(name) => server'[f] = server[f]
  BY RotateWrites
<1>3. ASSUME NEW j \in DOMAIN other.fields PROVE other.fields[j][1] # RotationOf(name)
  <2>1. RotationOf(name) \in {"VehicleRotation", "VehicleSpawnRotation"}
    BY DEF RotationOf
  <2>2. CASE other \in Rows[kind]
    <3>1. PICK d \in Properties(kind) : \E key \in KeysOf(d) : other = Row(d, key)
      BY <1>1, <2>2, RowDeclared
    <3>2. PICK key \in KeysOf(d) : other = Row(d, key)
      BY <3>1
    <3>3. other.fields = IF IsTable(d) THEN [i \in DOMAIN d.types |-> <<d.field, i>>] ELSE <<<<d.field, key>>>>
      BY <3>2, RowParts
    <3>4. other.fields[j][1] = d.field
      BY <3>3, SMT
    <3>5. d.field \notin {"VehicleRotation", "VehicleSpawnRotation"}
      BY <1>1, Declarations, SMT DEF WellDeclared
    <3> QED BY <2>1, <3>4, <3>5, Zenon
  <2>3. CASE other \in Derived(kind)
    <3>1. other.fields = <<<<"VehicleLightsData", 0>>>>
      BY <1>1, <2>3, DerivedViews, "Vehicle" # "Player" /\ "Vehicle" # "Checkpoint", Zenon
    <3> QED BY <2>1, <3>1, SMT
  <2>4. CASE other \in Turnable(kind)
    <3>1. PICK b \in RotationNames : other.name = <<b, 0>> /\ other.fields[j] = <<RotationOf(b), j>>
      BY <2>4, TurnViews, Zenon
    <3>2. b # name /\ {<<name, 0>>, <<b, 0>>} \notin Shared
      BY <1>1, <3>1, Zenon
    <3>3. RotationOf(name) # RotationOf(b)
      BY <1>1, <3>2, TurnPairs
    <3> QED BY <3>1, <3>3, SMT
  <2> QED BY <2>2, <2>3, <2>4 DEF Views, Settings
<1>4. \A j \in DOMAIN other.fields : server'[other.fields[j]] = server[other.fields[j]]
  BY <1>2, <1>3, ViewFields, Zenon
<1> QED BY <1>4, SameReading

(***************************************************************************)
(* Assigning one property changes no other one, other than through the     *)
(* three documented pairs; in the two that share a word or a colour the    *)
(* other bits or channels stay, and a vehicle's rotation and its           *)
(* spawnRotation are apart.                                                *)
(***************************************************************************)
THEOREM PropertiesApart == Spec => OthersKept
<1>1. ASSUME Typed, [Next]_vars PROVE [KeepsOthers]_vars
  <2>1. CASE UNCHANGED vars
    BY <2>1
  <2>2. CASE ~UNCHANGED vars
    <3>1. \/ \E row, value : Assigns(row, value)
          \/ Fails
          \/ \E value : SetsAlpha(value) \/ SetsTaxiLight(value) \/ SetsVehicle(value)
          \/ \E name, value : Rotates(name, value)
          \/ last'.name \in {<<"repair", 0>>, <<"resetHandlingRule", 0>>, <<"none", 0>>}
      <4>1. Repairs => last'.name = <<"repair", 0>>
        BY <1>1, RepairWrites, Zenon DEF Repairs
      <4>2. Resets => last'.name = <<"resetHandlingRule", 0>>
        BY <1>1, ResetWrites, Zenon DEF Resets
      <4>3. Changes => last'.name = <<"none", 0>>
        BY Zenon DEF Changes
      <4> QED BY <1>1, <2>2, <4>1, <4>2, <4>3, Steps, Zenon
    <3>3. ASSUME NEW view \in Views, NEW other \in Views, last'.name = view.name, last'.result = "true",
                 other.name # view.name, {view.name, other.name} \notin Shared
          PROVE  Reading(other, server') = Reading(other, server)
      <4>1. last'.name \notin {<<"repair", 0>>, <<"resetHandlingRule", 0>>, <<"none", 0>>} /\ ~Fails
        BY <1>1, <3>3, ViewNames DEF Fails
      <4>2. other.name # last'.name /\ {last'.name, other.name} \notin Shared
        BY <3>3, Zenon
      <4>3. ASSUME NEW row, NEW value, Assigns(row, value) PROVE Reading(other, server') = Reading(other, server)
        <5>1. row.name = last'.name
          BY <4>3, Zenon DEF Assigns
        <5>2. other.name # row.name /\ {row.name, other.name} \notin Shared
          BY <4>2, <5>1, Zenon
        <5> QED BY <1>1, <4>3, <5>2, RowKeepsOthers
      <4>4. ASSUME NEW value, SetsAlpha(value) \/ SetsTaxiLight(value) \/ SetsVehicle(value)
            PROVE  Reading(other, server') = Reading(other, server)
        BY <1>1, <4>2, <4>4, DerivedKeepsOthers
      <4>5. ASSUME NEW name, NEW value, Rotates(name, value) PROVE Reading(other, server') = Reading(other, server)
        BY <1>1, <4>2, <4>5, TurnKeepsOthers
      <4> QED BY <3>1, <4>1, <4>3, <4>4, <4>5, Zenon
    <3>2. ASSUME NEW name, NEW value, Rotates(name, value) PROVE last'.name \notin {<<"taxiLight", 0>>, <<"alpha", 0>>}
      <4>1. last'.name = <<name, 0>> /\ name \in RotationNames
        BY <3>2, Zenon DEF Rotates
      <4> QED BY <4>1, SMT DEF RotationNames
    <3>4. ASSUME last'.name = <<"taxiLight", 0>>, last'.result = "true"
          PROVE  Lights' % Bytes = Lights % Bytes /\ Lights' \div (2 * Bytes) = Lights \div (2 * Bytes)
      <4>1. /\ last'.name # <<"alpha", 0>> /\ last'.name # <<"vehicle", 0>> /\ ~Fails
            /\ last'.name \notin {<<"repair", 0>>, <<"resetHandlingRule", 0>>, <<"none", 0>>}
        BY <3>4, SMT DEF Fails
      <4>2. \A row, value : ~Assigns(row, value)
        BY <1>1, <3>4, RowFacts, Zenon DEF RowOf, Assigns, Typed
      <4>3. PICK value : SetsTaxiLight(value)
        BY <3>1, <3>2, <3>4, <4>1, <4>2, Zenon DEF SetsAlpha, SetsVehicle
      <4>4. Lights \in Int /\ Lights' = Lights + (value.v - TaxiBit(Lights)) * Bytes
        BY <1>1, <4>3, TaxiWrites, Zenon DEF Lights
      <4>5. value.v \in {0, 1}
        BY <4>3, Zenon DEF SetsTaxiLight
      <4> QED BY <4>4, <4>5, TaxiWritten
    <3>5. ASSUME kind = "Checkpoint", last'.name = <<"alpha", 0>>, last'.result = "true"
          PROVE  \A i \in 1..3 : server'[<<"CheckPointColour", i>>] = server[<<"CheckPointColour", i>>]
      <4>1. /\ last'.name # <<"taxiLight", 0>> /\ last'.name # <<"vehicle", 0>> /\ ~Fails
            /\ last'.name \notin {<<"repair", 0>>, <<"resetHandlingRule", 0>>, <<"none", 0>>}
        BY <3>5, SMT DEF Fails
      <4>2. \A row, value : ~Assigns(row, value)
        BY <1>1, <3>5, RowFacts, Zenon DEF RowOf, Assigns, Typed
      <4>3. PICK value : SetsAlpha(value)
        BY <3>1, <3>2, <3>5, <4>1, <4>2, Zenon DEF SetsTaxiLight, SetsVehicle
      <4> QED BY <1>1, <4>3, AlphaWrites
    <3>6. KeepsOthers
      BY ONLY <3>3, <3>4, <3>5, Zenon DEF KeepsOthers, AssignedTo
    <3> QED BY <3>6
  <2> QED BY <2>1, <2>2
<1> QED BY <1>1, TypedInit, TypedStep, PTL DEF Spec, OthersKept
=============================================================================
