---------------------------- MODULE ClientHeaders ----------------------------
(***************************************************************************)
(* The header layer of a Client (src/unnamed/part_000): the custom-header *)
(* set OrderedHeaders behind SetHeader and the other setters, and the     *)
(* headers Request puts on the outgoing request (applyAllHeaders with     *)
(* hasUserHeaders, applyRequestHeaders and getProfileHeaders).            *)
(*                                                                         *)
(* Names and values are strings; the conversions the code applies to     *)
(* names, strings.ToLower and the canonicalisation http.Header.Set and    *)
(* Get perform, are the constant tables LowerName and Canonical over the  *)
(* names used.  A Go map handed to the code is a TLA+ function, iterated  *)
(* in any order.  A []string header line is kept as what strings.SplitN   *)
(* and TrimSpace make of it: [colon |-> has a ':', name, value].  A JSON  *)
(* text is [text, obj], obj its decoded map or BadJSON.                   *)
(***************************************************************************)
EXTENDS Integers, Sequences, SequencesExt, FiniteSets

CONSTANTS
    HNames,        \* names callers pass, in the case they write them
    HValues,       \* header values, "" included
    LowerName,     \* strings.ToLower on HNames
    Canonical,     \* textproto.CanonicalMIMEHeaderKey on every key Set/Get sees
    HProfiles,     \* profile descriptors (the fields getProfileHeaders reads)
    HMaps,         \* map[string]string arguments of SetHeaders
    HReqMaps,      \* map[string]string arguments of Get and PostJSON
    HSlices,       \* [][]string arguments
    HLines,        \* []string arguments, as parsed lines
    HJSONs,        \* JSON texts
    HOptions,      \* *RequestOptions Request is called with (NoOptions for nil)
    BadJSON,
    NoOptions,
    NoRequest

VARIABLES
    hprofile,   \* c.profile
    headers,    \* c.headers.headers: a sequence of [name, value]
    sent,       \* req.Header of the last request (NoRequest before the first)
    sentFrom,   \* what that request was built from: the custom headers, the
                \* options and the method (a history variable)
    hcall       \* the last setter call, with the pairs it applied as the
                \* caller wrote them (a history variable)

hdrVars == <<hprofile, headers, sent, sentFrom, hcall>>

EmptyMap == [k \in {} |-> ""]

\* A Go map's range loop: its pairs in any order.
MapOrders(m) == {[i \in DOMAIN s |-> <<s[i], m[s[i]]>>] : s \in SetToSeqs(DOMAIN m)}

-----------------------------------------------------------------------------
(* OrderedHeaders                                                          *)

\* Mutant: the name is stored as the caller wrote it.
ohSetAsWritten(hs, n, v) ==
    LET i == SelectInSeq(hs, LAMBDA h : h.name = n)
    IN IF i > 0 THEN [hs EXCEPT ![i].value = v] ELSE Append(hs, [name |-> n, value |-> v])

\* Set: the name is lower-cased; an entry of that name gets the value,
\* otherwise the pair is appended.
ohSet(hs, n, v) ==
    LET ln == LowerName[n]
        i == SelectInSeq(hs, LAMBDA h : h.name = ln)
    IN IF i > 0 THEN [hs EXCEPT ![i].value = v] ELSE Append(hs, [name |-> ln, value |-> v])

\* Del: the first entry of the lower-cased name is removed.
ohDel(hs, n) ==
    LET i == SelectInSeq(hs, LAMBDA h : h.name = LowerName[n])
    IN IF i > 0 THEN RemoveAt(hs, i) ELSE hs

\* Set for each pair in turn (SetMultiple's loop, SetFromSlice's loop).
ohSetPairs(hs, ps) == FoldLeft(LAMBDA acc, p : ohSet(acc, p[1], p[2]), hs, ps)

\* The pairs SetFromSlice applies before it returns: all of them, or those
\* before the first element that is not a [name, value] pair.
SlicePrefix(sl) ==
    LET k == SelectInSeq(sl, LAMBDA pr : Len(pr) # 2)
    IN IF k = 0 THEN sl ELSE SubSeq(sl, 1, k - 1)

\* The same for SetFromStringSlice and a line without ':'.
LinePrefix(ls) ==
    LET k == SelectInSeq(ls, LAMBDA l : ~l.colon)
        pre == IF k = 0 THEN ls ELSE SubSeq(ls, 1, k - 1)
    IN [i \in DOMAIN pre |-> <<pre[i].name, pre[i].value>>]

-----------------------------------------------------------------------------
(* The Client's setters: each is one call, under no lock                   *)

NoCall == [op |-> "none"]

\* A setter call that applied the pairs of the sequence ps.
SetCall(ps) == [op |-> "set", pairs |-> Range(ps)]

SetHeader(n, v) ==
    /\ headers' = ohSet(headers, n, v)
    /\ hcall' = SetCall(<<<<n, v>>>>)

SetHeaders(m) ==
    \E ps \in MapOrders(m) :
        /\ headers' = ohSetPairs(headers, ps)
        /\ hcall' = SetCall(ps)

\* The pairs before the first malformed element are applied, then the
\* error is returned.
SetHeadersFromSlice(sl) ==
    /\ headers' = ohSetPairs(headers, SlicePrefix(sl))
    /\ hcall' = SetCall(SlicePrefix(sl))

SetHeadersFromStringSlice(ls) ==
    /\ headers' = ohSetPairs(headers, LinePrefix(ls))
    /\ hcall' = SetCall(LinePrefix(ls))

\* SetFromJSON: nothing changes when the text does not decode.
SetHeadersFromJSON(j) ==
    IF j.obj = BadJSON THEN headers' = headers /\ hcall' = SetCall(<<>>)
    ELSE SetHeaders(j.obj)

DelHeader(n) ==
    /\ headers' = ohDel(headers, n)
    /\ hcall' = [op |-> "del", name |-> n]

ClearHeaders ==
    /\ headers' = <<>>
    /\ hcall' = [op |-> "clear"]

HeaderCall ==
    /\ \/ \E n \in HNames, v \in HValues : SetHeader(n, v)
       \/ \E m \in HMaps : SetHeaders(m)
       \/ \E sl \in HSlices : SetHeadersFromSlice(sl)
       \/ \E ls \in HLines : SetHeadersFromStringSlice(ls)
       \/ \E j \in HJSONs : SetHeadersFromJSON(j)
       \/ \E n \in HNames : DelHeader(n)
       \/ ClearHeaders
    /\ UNCHANGED <<hprofile, sent, sentFrom>>

-----------------------------------------------------------------------------
(* getProfileHeaders                                                       *)

DefaultNames == <<"User-Agent", "Accept", "Accept-Language", "Accept-Encoding">>

\* The four defaults every profile has.
BaseHeaders(p) ==
    ("User-Agent" :> p.userAgent) @@ ("Accept" :> p.accept)
        @@ ("Accept-Language" :> p.acceptLanguage) @@ ("Accept-Encoding" :> p.acceptEncoding)

\* The Sec-Fetch block of Chrome120 and Edge120: navigation for GET, a
\* same-origin fetch for every other method.
FetchHeaders(method) ==
    IF method = "GET"
    THEN ("Sec-Fetch-Site" :> "none") @@ ("Sec-Fetch-Mode" :> "navigate")
            @@ ("Sec-Fetch-User" :> "?1") @@ ("Sec-Fetch-Dest" :> "document")
    ELSE ("Sec-Fetch-Site" :> "same-origin") @@ ("Sec-Fetch-Mode" :> "cors")
            @@ ("Sec-Fetch-Dest" :> "empty")

KeepAlive == ("Connection" :> "keep-alive") @@ ("Upgrade-Insecure-Requests" :> "1")

\* The switch on the profile's name.
NameHeaders(p, method) ==
    CASE p.name \in {"Chrome120", "Edge120"} ->
            ("sec-ch-ua" :> "chrome-120-brands") @@ ("sec-ch-ua-mobile" :> "?0")
                @@ ("sec-ch-ua-platform" :> "Windows") @@ ("DNT" :> "1") @@ KeepAlive
                @@ FetchHeaders(method)
      [] p.name = "Firefox121" -> ("DNT" :> "1") @@ KeepAlive
      [] p.name = "Safari17"   -> KeepAlive
      [] OTHER                 -> EmptyMap

\* The profile's SecHeaders overwrite whatever the switch set.
getProfileHeaders(p, method) == p.secHeaders @@ NameHeaders(p, method) @@ BaseHeaders(p)

\* The names of HeaderOrder that strings.HasPrefix(name, ":") skips.
PseudoHeaders == {":method", ":authority", ":scheme", ":path"}

\* The no-user-headers branch's loop: HeaderOrder's names that are not
\* pseudo-headers and that the profile map holds, in HeaderOrder's order.
ProfilePairs(p, method) ==
    LET ph == getProfileHeaders(p, method)
        ks == SelectSeq(p.headerOrder, LAMBDA k : k \notin PseudoHeaders /\ k \in DOMAIN ph)
    IN [i \in DOMAIN ks |-> <<ks[i], ph[ks[i]]>>]

-----------------------------------------------------------------------------
(* http.Header and applyAllHeaders                                         *)

\* Header.Set and Header.Get: the key is canonicalised.
hSet(h, k, v) == [x \in DOMAIN h \cup {Canonical[k]} |-> IF x = Canonical[k] THEN v ELSE h[x]]
hGet(h, k) == IF Canonical[k] \in DOMAIN h THEN h[Canonical[k]] ELSE ""
hSetPairs(h, ps) == FoldLeft(LAMBDA acc, p : hSet(acc, p[1], p[2]), h, ps)

ClientPairs(hs) == [i \in DOMAIN hs |-> <<hs[i].name, hs[i].value>>]

\* hasUserHeaders: a non-nil options value with a non-empty map, slice or
\* line list, or a JSON text other than "" and "{}".
hasUserHeaders(o) ==
    /\ o # NoOptions
    /\ \/ o.headers # EmptyMap
       \/ o.slice # <<>>
       \/ o.lines # <<>>
       \/ o.json.text \notin {"", "{}"}

\* applyRequestHeaders: the map, the well-formed slice pairs, the lines
\* with a ':', then the JSON object if it decodes; every sequence of pairs
\* the two map loops can produce.
RequestPairSeqs(o) ==
    LET sp == SelectSeq(o.slice, LAMBDA pr : Len(pr) = 2)
        ls == SelectSeq(o.lines, LAMBDA l : l.colon)
        lp == [i \in DOMAIN ls |-> <<ls[i].name, ls[i].value>>]
        js == IF o.json.text \in {"", "{}"} \/ o.json.obj = BadJSON THEN {<<>>}
              ELSE MapOrders(o.json.obj)
    IN {hp \o sp \o lp \o jp : hp \in MapOrders(o.headers), jp \in js}

\* The four "if req.Header.Get(name) == """ fills.
FillDefaults(h, p) ==
    FoldLeft(LAMBDA acc, k : IF hGet(acc, k) = "" THEN hSet(acc, k, BaseHeaders(p)[k]) ELSE acc,
             h, DefaultNames)

\* Mutant: the custom headers are applied after the request's own.
applyAllHeadersRequestFirst(p, method, hs, o) ==
    IF hasUserHeaders(o)
    THEN {FillDefaults(hSetPairs(hSetPairs(EmptyMap, rp), ClientPairs(hs)), p) : rp \in RequestPairSeqs(o)}
    ELSE {hSetPairs(hSetPairs(EmptyMap, ProfilePairs(p, method)), ClientPairs(hs))}

\* applyAllHeaders: the request headers it can build.  With user headers:
\* the custom headers, the request's own, then the four defaults where
\* still empty.  Without: the profile's headers in HeaderOrder, then the
\* custom headers.
applyAllHeaders(p, method, hs, o) ==
    IF hasUserHeaders(o)
    THEN {FillDefaults(hSetPairs(hSetPairs(EmptyMap, ClientPairs(hs)), rp), p) : rp \in RequestPairSeqs(o)}
    ELSE {hSetPairs(hSetPairs(EmptyMap, ProfilePairs(p, method)), ClientPairs(hs))}

-----------------------------------------------------------------------------
(* Request and the verb helpers                                            *)

MapOptions(m) == [headers |-> m, slice |-> <<>>, lines |-> <<>>, json |-> [text |-> "", obj |-> EmptyMap]]

\* Get and the other helpers: no options without a map.
HelperOptions(m) == IF m = NoOptions THEN NoOptions ELSE MapOptions(m)

\* PostJSON: a copy of the map, with "Content-Type" added unless that exact
\* key is present.
PostJSONOptions(m) ==
    LET base == IF m = NoOptions THEN EmptyMap ELSE m
    IN MapOptions(IF "Content-Type" \in DOMAIN base THEN base
                  ELSE base @@ ("Content-Type" :> "application/json"))

\* Request's applyAllHeaders step, as part of one call.
BuildRequest(method, o) ==
    \E h \in applyAllHeaders(hprofile, method, headers, o) :
        /\ sent' = h
        /\ sentFrom' = [store |-> headers, opts |-> o, method |-> method]
        /\ UNCHANGED <<hprofile, headers, hcall>>

RequestCall ==
    \/ \E m \in HReqMaps \cup {NoOptions} : BuildRequest("GET", HelperOptions(m))
    \/ \E m \in HReqMaps \cup {NoOptions} : BuildRequest("POST", PostJSONOptions(m))
    \/ \E o \in HOptions : BuildRequest("PUT", o)

HdrInit ==
    /\ hprofile \in HProfiles
    /\ headers = <<>>
    /\ sent = NoRequest
    /\ sentFrom = NoRequest
    /\ hcall = NoCall

HdrNext == HeaderCall \/ RequestCall

-----------------------------------------------------------------------------
(* Properties                                                              *)

\* What GetHeader, GetHeaders and GetHeadersOrdered read: each stored name
\* with its value; a name listed more than once is shown with the marker
\* Repeated, which is no header value.
Repeated == "repeated name"

StoreView ==
    [n \in {headers[i].name : i \in DOMAIN headers} |->
        IF Cardinality({i \in DOMAIN headers : headers[i].name = n}) = 1
        THEN headers[SelectInSeq(headers, LAMBDA h : h.name = n)].value
        ELSE Repeated]

Store == INSTANCE HeaderStore WITH Lower <- LowerName, store <- StoreView, call <- hcall

(***************************************************************************)
(* The custom-header set is a case-insensitive map: whatever sequence of  *)
(* SetHeader, SetHeaders (Go map order), SetHeadersFromSlice and          *)
(* SetHeadersFromStringSlice (stopping at a malformed element),           *)
(* SetHeadersFromJSON, DelHeader and ClearHeaders calls a client makes,   *)
(* OrderedHeaders implements HeaderStore: each call changes exactly the   *)
(* names it carries, compared case-insensitively, to a value it gives     *)
(* them; a name is listed once; Del removes a name whatever case it was   *)
(* set and is deleted in.                                                  *)
(***************************************************************************)
CustomHeadersAreAMap == Store!StoreSpec

\* The pairs applyRequestHeaders can apply for options o, when it runs.
RequestLayer(o) ==
    IF hasUserHeaders(o) THEN UNION {Range(rp) : rp \in RequestPairSeqs(o)} ELSE {}

(***************************************************************************)
(* Precedence of the header layers in applyAllHeaders, across the case    *)
(* conventions of OrderedHeaders (lower case), the caller's maps (any)    *)
(* and http.Header (canonical): a custom header with a non-empty value    *)
(* is sent with that value unless the request's own headers carry the     *)
(* same name, and a name the request's own headers carry only with        *)
(* non-empty values is sent with one of those values.                     *)
(***************************************************************************)
CustomHeadersReachRequest ==
    sent # NoRequest =>
        LET S == sentFrom
            RL == RequestLayer(S.opts)
            RK == {Canonical[p[1]] : p \in RL}
        IN /\ \A i \in DOMAIN S.store :
                 Canonical[S.store[i].name] \notin RK /\ S.store[i].value # "" =>
                     hGet(sent, S.store[i].name) = S.store[i].value
           /\ \A k \in RK :
                 (\A p \in RL : Canonical[p[1]] = k => p[2] # "") =>
                     hGet(sent, k) \in {p[2] : p \in {q \in RL : Canonical[q[1]] = k}}
=============================================================================
