------------------------ MODULE MC_ClientFingerprint ------------------------
(* Profile descriptors for ClientFingerprint: a JA3 template made from its *)
(* ids the way JA3 is written (decimal, '-' within a field, ',' between    *)
(* fields), plus templates that are not five fields of ids.               *)
EXTENDS ClientFingerprint, UserAgent, ClientHeaders

\* 0x000a, 0x1301 and 0xc02b: one id needs leading zeros in %04x, and the
\* offered order is not the numeric one.
CipherLists == {<<>>, <<4865>>, <<49195, 10, 4865>>}
ExtLists == {<<>>, <<65281, 0, 23>>, <<65536>>}
Fields == [version : {771, 65536}, ciphers : CipherLists, exts : ExtLists,
           groups : {<<>>, <<29, 23>>}, points : {<<>>, <<0>>}]

IdField(l) == Join([i \in 1..Len(l) |-> Decimal(l[i])], "-")
JA3Of(f) == Join(<<Decimal(f.version), IdField(f.ciphers), IdField(f.exts), IdField(f.groups),
                   IdField(f.points)>>, ",")

\* "771,4865,0,29" (four fields) and "771,4865-,0,29,0" (an empty id).
Malformed == {<<"7", "7", "1", ",", "4", "8", "6", "5", ",", "0", ",", "2", "9">>,
              <<"7", "7", "1", ",", "4", "8", "6", "5", "-", ",", "0", ",", "2", "9", ",", "0">>}

MCProfiles == {[ja3 |-> JA3Of(f), fields |-> f] : f \in Fields}
                  \cup {[ja3 |-> s, fields |-> NIL] : s \in Malformed}
\* Response texts made of the key, a quote, a value character and the
\* key's first three characters, up to three pieces: no key, a key with no
\* quote after it, a quote as the last character, an empty value, two keys.
Pieces == {UserAgentKey, Quote, <<"U">>, SubSeq(UserAgentKey, 1, 3)}
MCBodies == {<<>>} \cup Pieces \cup {a \o b : a, b \in Pieces} \cup {a \o b \o c : a, b, c \in Pieces}

-----------------------------------------------------------------------------
(* The header layer: two spellings of one custom name and the user agent, *)
(* two values and the empty one.                                           *)

HNamesMC == {"X-Id", "x-id", "User-Agent"}
HValuesMC == {"a", "b", ""}
LowerNameMC == ("X-Id" :> "x-id") @@ ("x-id" :> "x-id") @@ ("User-Agent" :> "user-agent")

\* textproto.CanonicalMIMEHeaderKey on every key the layer passes to
\* Header.Set and Header.Get: the first letter and every letter after '-'
\* upper case, the others lower case.
CanonicalPairs ==
    { <<"X-Id", "X-Id">>, <<"x-id", "X-Id">>, <<"User-Agent", "User-Agent">>,
      <<"user-agent", "User-Agent">>, <<"Accept", "Accept">>,
      <<"Accept-Language", "Accept-Language">>, <<"Accept-Encoding", "Accept-Encoding">>,
      <<"Content-Type", "Content-Type">>, <<"content-type", "Content-Type">>,
      <<"sec-ch-ua", "Sec-Ch-Ua">>, <<"Sec-Ch-Ua", "Sec-Ch-Ua">>,
      <<"sec-ch-ua-mobile", "Sec-Ch-Ua-Mobile">>, <<"Sec-Ch-Ua-Mobile", "Sec-Ch-Ua-Mobile">>,
      <<"sec-ch-ua-platform", "Sec-Ch-Ua-Platform">>,
      <<"Sec-Ch-Ua-Platform", "Sec-Ch-Ua-Platform">>, <<"DNT", "Dnt">>, <<"Dnt", "Dnt">>,
      <<"Connection", "Connection">>, <<"Upgrade-Insecure-Requests", "Upgrade-Insecure-Requests">>,
      <<"Sec-Fetch-Site", "Sec-Fetch-Site">>, <<"Sec-Fetch-Mode", "Sec-Fetch-Mode">>,
      <<"Sec-Fetch-User", "Sec-Fetch-User">>, <<"Sec-Fetch-Dest", "Sec-Fetch-Dest">> }
CanonicalMC == [k \in {p[1] : p \in CanonicalPairs} |-> (CHOOSE p \in CanonicalPairs : p[1] = k)[2]]

\* Two profiles of the external profiles package: Chrome120, which the
\* name switch gives client hints and Sec-Fetch headers, and Safari18,
\* which it gives none; their HeaderOrder and SecHeaders are assumed.
HProfilesMC ==
    { [name |-> "Chrome120", userAgent |-> "chrome-ua", accept |-> "text/html",
       acceptLanguage |-> "en-US", acceptEncoding |-> "gzip", secHeaders |-> EmptyMap,
       headerOrder |-> <<":method", ":authority", ":scheme", ":path", "sec-ch-ua",
                         "sec-ch-ua-mobile", "sec-ch-ua-platform", "Upgrade-Insecure-Requests",
                         "User-Agent", "Accept", "Sec-Fetch-Site", "Sec-Fetch-Mode",
                         "Sec-Fetch-User", "Sec-Fetch-Dest", "Accept-Encoding",
                         "Accept-Language">>],
      [name |-> "Safari18", userAgent |-> "safari-ua", accept |-> "text/html",
       acceptLanguage |-> "en-US", acceptEncoding |-> "br", secHeaders |-> ("Sec-Fetch-Dest" :> "document"),
       headerOrder |-> <<":method", ":scheme", ":path", ":authority", "User-Agent", "Accept",
                         "Sec-Fetch-Dest", "Accept-Language", "Accept-Encoding">>] }

\* Maps with both spellings of a name (Go's map order decides which wins)
\* and a user agent; the request helpers also get a lower-case content
\* type, beside which PostJSON adds its own.
HMapsMC == {("X-Id" :> "b") @@ ("x-id" :> "a"), ("User-Agent" :> "b")}
HReqMapsMC == HMapsMC \cup {("content-type" :> "a")}
HSlicesMC == {<< <<"x-id", "b">>, <<"bad">>, <<"User-Agent", "a">> >>}
HLinesMC == {<< [colon |-> TRUE, name |-> "User-Agent", value |-> "b"],
                [colon |-> FALSE, name |-> "", value |-> ""],
                [colon |-> TRUE, name |-> "X-Id", value |-> "a"] >>}
HJSONsMC == {[text |-> "{\"X-Id\":\"a\"}", obj |-> ("X-Id" :> "a")], [text |-> "{", obj |-> BadJSON]}
NoJSON == [text |-> "", obj |-> EmptyMap]
\* Options with a slice holding a malformed pair, an empty JSON object
\* written "{ }", and a header line with undecodable JSON.
HOptionsMC ==
    { NoOptions,
      [headers |-> EmptyMap, slice |-> << <<"x-id", "b">>, <<"c">> >>, lines |-> <<>>, json |-> NoJSON],
      [headers |-> EmptyMap, slice |-> <<>>, lines |-> <<>>, json |-> [text |-> "{ }", obj |-> EmptyMap]],
      [headers |-> EmptyMap, slice |-> <<>>,
       lines |-> <<[colon |-> TRUE, name |-> "User-Agent", value |-> "a"]>>,
       json |-> [text |-> "{", obj |-> BadJSON]] }

-----------------------------------------------------------------------------
(* The run explores two parts of a Client, chosen in the initial state:  *)
(* its fingerprint record with the text of its response, as the          *)
(* basic_impersonation loop prints them, and its header layer.  The part *)
(* not explored keeps one fixed initial state.                            *)

VARIABLE part

FpFixed ==
    /\ profile = CHOOSE p \in Profiles : p.fields = NIL
    /\ selected = NIL
    /\ lastFingerprint = GenerateFingerprintData(profile.ja3, NIL)
    /\ respText = <<>>

HdrFixed ==
    /\ hprofile = CHOOSE p \in HProfiles : TRUE
    /\ headers = <<>>
    /\ sent = NoRequest
    /\ sentFrom = NoRequest
    /\ hcall = NoCall

MCInit == \/ part = "record" /\ FpInit /\ UaInit /\ HdrFixed
          \/ part = "headers" /\ HdrInit /\ FpFixed

MCNext == \/ /\ part = "record"
             /\ \/ Request /\ UNCHANGED respText
                \/ NextResponse /\ UNCHANGED fpVars
             /\ UNCHANGED <<hdrVars, part>>
          \/ part = "headers" /\ HdrNext /\ UNCHANGED <<fpVars, respText, part>>

MCProfileALPN == <<"h2", "http/1.1">>
=============================================================================
