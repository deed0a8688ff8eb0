--------------------------- MODULE HTTP2Session ---------------------------
(***************************************************************************)
(* One Client's HTTP/2 tracker over its life: New (src/unnamed/part_000)   *)
(* creates it and tracks the preset frames CreateHTTP2FrameForProfile      *)
(* returns for the profile's name; every Request then tracks one synthetic *)
(* HEADERS frame built by EstimateHeadersSize and ExtractHeadersList       *)
(* (src/tracking/http2.go) before the request is sent.  updateFingerprint *)
(* copies the aggregates out through the getters and, when the settings   *)
(* are non-empty, GenerateFingerprintData derives the Akamai fingerprint   *)
(* from the copy.                                                          *)
(***************************************************************************)
EXTENDS HTTP2Tracker, FiniteSetsExt, SequencesExt

CONSTANTS
    Profiles,      \* profile names New is called with
    Family,        \* each profile's browser family
    NoProfile,     \* before New has returned
    Methods,       \* request methods
    Paths,         \* URL paths
    Hosts,         \* req.Host values
    HeaderSets,    \* req.Header contents, as sets of <<name, value>> pairs
    ToLower        \* strings.ToLower on the header names used

ASSUME Family \in [Profiles -> {"chromium", "firefox", "safari"}]

VARIABLE profile   \* c.profile.Name, NoProfile before New

sessVars == <<frames, settings, windowSize, priority, profile>>

-----------------------------------------------------------------------------
(* The presets of http2.go                                                 *)

SettingsFrame(len, s) == [type |-> "SETTINGS", length |-> len, priorityFlag |-> FALSE,
                          settings |-> s, headers |-> <<>>]
WindowUpdateFrame(len) == [type |-> "WINDOW_UPDATE", length |-> len, priorityFlag |-> FALSE,
                           settings |-> NoSettings, headers |-> <<>>]

PresetSettings(hts, push, mcs, iws, mfs, mhls) ==
    [HEADER_TABLE_SIZE |-> hts, ENABLE_PUSH |-> push, MAX_CONCURRENT_STREAMS |-> mcs,
     INITIAL_WINDOW_SIZE |-> iws, MAX_FRAME_SIZE |-> mfs, MAX_HEADER_LIST_SIZE |-> mhls]

CreateDefaultChromeFrames ==
    << SettingsFrame(24, PresetSettings(65536, 0, 1000, 6291456, 16384, 262144)),
       WindowUpdateFrame(1073741824) >>
CreateDefaultFirefoxFrames ==
    << SettingsFrame(24, PresetSettings(65536, 1, 1000, 131072, 16384, 262144)),
       WindowUpdateFrame(12517376) >>
CreateDefaultSafariFrames ==
    << SettingsFrame(20, PresetSettings(4096, 1, 100, 2097152, 16384, 8192)),
       WindowUpdateFrame(2013265920) >>

\* The switch on the profile's name.
CreateHTTP2FrameForProfile(name) ==
    CASE name \in {"Chrome120", "Edge120"} -> CreateDefaultChromeFrames
      [] name = "Firefox121"               -> CreateDefaultFirefoxFrames
      [] name = "Safari17"                 -> CreateDefaultSafariFrames
      [] OTHER                             -> CreateDefaultChromeFrames

\* The preset spec 4.3 assigns to a browser family.
FamilyPreset == [chromium |-> CreateDefaultChromeFrames,
                 firefox  |-> CreateDefaultFirefoxFrames,
                 safari   |-> CreateDefaultSafariFrames]

-----------------------------------------------------------------------------
(* The synthetic HEADERS frame of Request                                  *)

Requests == [method : Methods, path : Paths, scheme : {"https"}, host : Hosts,
             header : HeaderSets]

\* EstimateHeadersSize: method, path and Proto ("HTTP/1.1", set by
\* http.NewRequest) lengths, plus name, value and 4 per header value.
EstimateHeadersSize(req) ==
    Len(req.method) + Len(req.path) + Len("HTTP/1.1")
        + MapThenSumSet(LAMBDA h : Len(h[1]) + Len(h[2]) + 4, req.header)

\* ExtractHeadersList, with the header map visited in the order ord: the
\* four pseudo-headers, then one lower-cased line per header value.  A line
\* "name: value" is kept as the pair <<name, value>>.
ExtractHeadersList(req, ord) ==
    << <<":method", req.method>>, <<":path", req.path>>,
       <<":scheme", req.scheme>>, <<":authority", req.host>> >>
    \o [i \in DOMAIN ord |-> <<ToLower[ord[i][1]], ord[i][2]>>]

\* fingerprint.Frame{Type: "HEADERS", StreamID: 1, Length:
\* uint32(EstimateHeadersSize(req)), Flags: EndStream, EndHeaders, Headers};
\* the uint32 conversion cannot wrap for the request sizes modelled.
HeadersFrame(req, ord) ==
    [type |-> "HEADERS", length |-> EstimateHeadersSize(req),
     priorityFlag |-> FALSE, settings |-> NoSettings,
     headers |-> ExtractHeadersList(req, ord)]

-----------------------------------------------------------------------------

SessInit ==
    /\ frames = <<>>
    /\ settings = EmptySettings
    /\ windowSize = 0
    /\ priority = NoPriority
    /\ profile = NoProfile

\* New(profileName): profiles.Get succeeds for the names init() uses; a
\* fresh tracker is seeded with the preset frames, one TrackFrame each.
New(p) ==
    /\ profile = NoProfile
    /\ LET t == FoldLeft(Track, NewTracker, CreateHTTP2FrameForProfile(p))
       IN /\ frames' = t.frames
          /\ settings' = t.settings
          /\ windowSize' = t.windowSize
          /\ priority' = t.priority
    /\ profile' = p

\* Request: after the headers are applied, the HEADERS frame is tracked;
\* Go's map order decides the order of the header lines.
RequestHeaders(req) ==
    /\ profile # NoProfile
    /\ \E ord \in SetToSeqs(req.header) : TrackFrame(HeadersFrame(req, ord))
    /\ UNCHANGED profile

SessNext ==
    \/ \E p \in Profiles : New(p)
    \/ \E req \in Requests : RequestHeaders(req)

SessSpec == SessInit /\ [][SessNext]_sessVars

-----------------------------------------------------------------------------

\* GetSettings, GetFrames, GetWindowSize and GetPriority, as
\* updateFingerprint copies them into the record.
Snapshot == [settings |-> settings, frames |-> frames, windowSize |-> windowSize,
             priority |-> priority]

\* The Akamai fingerprint a response of this client carries (the HTTP/2
\* sub-record exists: the seeded settings are never empty).
LiveAkamai == generateAkamaiFingerprint(Snapshot.settings, Snapshot.windowSize,
                                        Snapshot.priority)

(***************************************************************************)
(* Spec 4.3 and 7: after New, the Akamai fingerprint a client reports is   *)
(* the one its preset's SETTINGS and WINDOW_UPDATE frames define, however  *)
(* many requests it has sent since: the HEADERS frames Request tracks     *)
(* carry a length and headers but never move the settings, the window or  *)
(* the priority.                                                           *)
(***************************************************************************)
AkamaiFromPreset ==
    profile # NoProfile =>
        LET preset == CreateHTTP2FrameForProfile(profile)
        IN /\ AkamaiSettingsFieldOK(LiveAkamai[1], preset[1].settings)
           /\ LiveAkamai[2] = preset[2].length
           /\ LiveAkamai[3] = 0

(***************************************************************************)
(* Spec 4.3: New seeds the tracker with the preset of the profile's        *)
(* family (Chromium-like, Firefox-like or Safari-like), so the Akamai      *)
(* fingerprint of a Firefox or Safari profile is that family's.           *)
(***************************************************************************)
PresetOfFamily ==
    profile # NoProfile =>
        SubSeq(frames, 1, 2) = FamilyPreset[Family[profile]]

(***************************************************************************)
(* Spec 4.1: the literal m,a,p,s that ends a client's Akamai fingerprint   *)
(* denotes the order in which the client sends the pseudo-headers,         *)
(* :method, :authority, :path, :scheme.  Every HEADERS frame the client    *)
(* tracks (ExtractHeadersList's lines) lists its pseudo-headers in the     *)
(* order its fingerprint names.                                            *)
(***************************************************************************)
AkamaiPseudoLetter ==
    (":method" :> "m") @@ (":authority" :> "a") @@ (":path" :> "p") @@ (":scheme" :> "s")

PseudoHeadersInAkamaiOrder ==
    profile # NoProfile =>
        \A i \in DOMAIN frames :
            frames[i].type = "HEADERS" =>
                LET ps == SelectSeq(frames[i].headers,
                                    LAMBDA h : h[1] \in DOMAIN AkamaiPseudoLetter)
                IN [j \in DOMAIN ps |-> AkamaiPseudoLetter[ps[j][1]]] = LiveAkamai[4]

=============================================================================
