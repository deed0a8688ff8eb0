--------------------------- MODULE HTTP2Tracker ---------------------------
(***************************************************************************)
(* The per-client HTTP/2 activity tracker of src/tracking/http2.go.        *)
(*                                                                         *)
(* The tracker keeps the append-only sequence of synthesized frames and    *)
(* three aggregates derived from it incrementally: the SETTINGS map (merged *)
(* key by key), the window size (last WINDOW_UPDATE length) and the stream *)
(* priority (from a HEADERS frame).  TrackFrame runs under the tracker's   *)
(* mutex, so each call is one atomic step; the getters only copy state and *)
(* are not actions.                                                        *)
(*                                                                         *)
(* A frame is a record.  Its settings field is a partial function from     *)
(* setting names to values (a Go map), or NoSettings for a nil map.        *)
(***************************************************************************)
EXTENDS Naturals, Sequences, TLC

CONSTANTS
    SettingKeys,   \* HTTP/2 SETTINGS identifiers (names, as in the Go map)
    SettingVals,   \* values a SETTINGS entry may carry
    Lengths,       \* frame Length field values (uint32, small sample)
    MaxFrames,     \* bound on the number of TrackFrame calls
    NoSettings,    \* model value standing for a nil settings map
    NoPriority     \* model value standing for a nil *HeaderPriority

ASSUME 0 \in Lengths /\ Lengths \subseteq Nat
ASSUME MaxFrames \in Nat \ {0}

\* Every Go map[string]uint32 over the chosen keys and values.
SettingsMaps == UNION {[D -> SettingVals] : D \in SUBSET SettingKeys}

EmptySettings == [k \in {} |-> 0]

\* The frames a caller may pass to TrackFrame: Type, Length, the "Priority"
\* flag, Settings and Headers (the header list, a sequence of name/value
\* pairs; TrackFrame stores it and never reads it).
Frames ==
         [type : {"SETTINGS"}, length : {0}, priorityFlag : {FALSE},
          settings : SettingsMaps \cup {NoSettings}, headers : {<<>>}]
    \cup [type : {"WINDOW_UPDATE"}, length : Lengths, priorityFlag : {FALSE},
          settings : {NoSettings}, headers : {<<>>}]
    \cup [type : {"HEADERS"}, length : Lengths, priorityFlag : BOOLEAN,
          settings : {NoSettings, EmptySettings}, headers : {<<>>}]

\* The fixed-weight priority extractPriority derives.
SyntheticPriority == [dependency |-> 0, exclusive |-> FALSE, weight |-> 16]

VARIABLES
    frames,      \* t.frames: every tracked frame, in call order
    settings,    \* t.settings: aggregate SETTINGS map
    windowSize,  \* t.windowSize
    priority     \* t.priority: SyntheticPriority or NoPriority

vars == <<frames, settings, windowSize, priority>>

TypeOK ==
    /\ frames \in Seq(Frames)
    /\ Len(frames) <= MaxFrames
    /\ settings \in SettingsMaps
    /\ windowSize \in Lengths
    /\ priority \in {SyntheticPriority, NoPriority}

\* NewHTTP2Tracker: no frames, an empty (non-nil) settings map.
Init ==
    /\ frames = <<>>
    /\ settings = EmptySettings
    /\ windowSize = 0
    /\ priority = NoPriority

\* extractPriority: a HEADERS frame with the "Priority" flag yields the
\* synthetic priority.
extractPriority(f) ==
    IF f.type = "HEADERS" /\ f.priorityFlag THEN SyntheticPriority ELSE NoPriority

\* The range loop over frame.Settings: every key of the frame overwrites
\* the aggregate, keys the frame does not carry are kept.
MergeSettingsReplace(agg, new) == new
MergeSettings(agg, new) == [k \in DOMAIN agg \cup DOMAIN new |->
                               IF k \in DOMAIN new THEN new[k] ELSE agg[k]]

\* The SETTINGS branch of TrackFrame.
UpdateSettings(agg, f) ==
    IF f.type = "SETTINGS" /\ f.settings # NoSettings
    THEN MergeSettings(agg, f.settings)
    ELSE agg

\* The WINDOW_UPDATE branch: a non-zero length replaces the window.
UpdateWindowSum(w, f) ==
    IF f.type = "WINDOW_UPDATE" /\ f.length > 0 THEN w + f.length ELSE w
UpdateWindowNoGuard(w, f) ==
    IF f.type = "WINDOW_UPDATE" THEN f.length ELSE w
UpdateWindowAnyType(w, f) ==
    IF f.length > 0 THEN f.length ELSE w
UpdateWindow(w, f) ==
    IF f.type = "WINDOW_UPDATE" /\ f.length > 0 THEN f.length ELSE w

\* The HEADERS branch: only a frame with a non-nil settings map is passed
\* to extractPriority.
UpdatePriority(p, f) ==
    IF f.type = "HEADERS" /\ f.settings # NoSettings /\ extractPriority(f) # NoPriority
    THEN extractPriority(f)
    ELSE p

\* A tracker's state as a record, NewHTTP2Tracker's first.
NewTracker == [frames |-> <<>>, settings |-> EmptySettings, windowSize |-> 0,
               priority |-> NoPriority]

\* TrackFrame's effect on a tracker state: append, then update the
\* aggregate the frame type selects.
Track(t, f) == [frames     |-> Append(t.frames, f),
                settings   |-> UpdateSettings(t.settings, f),
                windowSize |-> UpdateWindow(t.windowSize, f),
                priority   |-> UpdatePriority(t.priority, f)]

\* TrackFrame, under the tracker's mutex: one atomic step.
TrackFrame(f) ==
    /\ Len(frames) < MaxFrames
    /\ LET t == Track([frames |-> frames, settings |-> settings,
                       windowSize |-> windowSize, priority |-> priority], f)
       IN /\ frames' = t.frames
          /\ settings' = t.settings
          /\ windowSize' = t.windowSize
          /\ priority' = t.priority

Next == \E f \in Frames : TrackFrame(f)

Spec == Init /\ [][Next]_vars

-----------------------------------------------------------------------------
(* The Akamai HTTP/2 fingerprint (package tracking).  The string           *)
(* "<id>:<v>;...|<window>|<p>|m,a,p,s" is kept as its four fields: the      *)
(* sequence of <<id, value>> pairs, the window, the priority digit and the  *)
(* pseudo-header order, a sequence of letters.                              *)

\* The six well-known SETTINGS names, in the order the code tests them, and
\* their identifiers.
AkamaiSettingOrder == <<"HEADER_TABLE_SIZE", "ENABLE_PUSH", "MAX_CONCURRENT_STREAMS",
                        "INITIAL_WINDOW_SIZE", "MAX_FRAME_SIZE", "MAX_HEADER_LIST_SIZE">>
AkamaiIds == [i \in 1..Len(AkamaiSettingOrder) |-> i]

\* The six "if val, ok := settings[name]; ok" blocks: one pair per present
\* name, appended in the order of the blocks.
RECURSIVE SettingsPartsPrepend(_, _)
SettingsPartsPrepend(s, i) ==
    IF i > Len(AkamaiSettingOrder) THEN <<>>
    ELSE SettingsPartsPrepend(s, i + 1)
         \o (IF AkamaiSettingOrder[i] \in DOMAIN s
             THEN <<<<AkamaiIds[i], s[AkamaiSettingOrder[i]]>>>> ELSE <<>>)
RECURSIVE SettingsParts(_, _)
SettingsParts(s, i) ==
    IF i > Len(AkamaiSettingOrder) THEN <<>>
    ELSE (IF AkamaiSettingOrder[i] \in DOMAIN s
          THEN <<<<AkamaiIds[i], s[AkamaiSettingOrder[i]]>>>> ELSE <<>>)
         \o SettingsParts(s, i + 1)

PseudoHeaderOrder == <<"m", "a", "p", "s">>

\* generateAkamaiFingerprint (tls.go, the one GenerateFingerprintData
\* calls): the priority digit is the literal 0.
generateAkamaiFingerprint(s, windowUpdate, p) ==
    <<SettingsParts(s, 1), windowUpdate, 0, PseudoHeaderOrder>>

\* GenerateAkamaiH2Fingerprint (http2.go, called nowhere): the digit is 1
\* for a non-nil priority with Exclusive set.
GenerateAkamaiH2Fingerprint(s, windowUpdate, p) ==
    <<SettingsParts(s, 1), windowUpdate,
      IF p # NoPriority /\ p.exclusive THEN 1 ELSE 0, PseudoHeaderOrder>>

-----------------------------------------------------------------------------
(* Reference definitions: the aggregates as functions of the frame history *)

\* Indices of the tracked SETTINGS frames with a settings map.
SettingsFrames == {i \in DOMAIN frames :
                      frames[i].type = "SETTINGS" /\ frames[i].settings # NoSettings}

\* Indices of the tracked SETTINGS frames that carry key k.
SettersOf(k) == {i \in SettingsFrames : k \in DOMAIN frames[i].settings}

\* Indices of the tracked WINDOW_UPDATE frames with a non-zero length.
WindowUpdates == {i \in DOMAIN frames :
                     frames[i].type = "WINDOW_UPDATE" /\ frames[i].length > 0}

LastOf(S) == CHOOSE i \in S : \A j \in S : j <= i

\* What an Akamai settings field must be (spec 4.1): exactly the
\* <<identifier, value>> pairs of the well-known settings the map holds,
\* by increasing identifier.
AkamaiSettingsFieldOK(parts, s) ==
    /\ {parts[i] : i \in DOMAIN parts} =
          {<<AkamaiIds[i], s[AkamaiSettingOrder[i]]>> :
              i \in {j \in DOMAIN AkamaiSettingOrder : AkamaiSettingOrder[j] \in DOMAIN s}}
    /\ \A i, j \in DOMAIN parts : i < j => parts[i][1] < parts[j][1]

(***************************************************************************)
(* Partial SETTINGS updates merge and the later frame wins per key: a key  *)
(* is in the aggregate exactly when some tracked SETTINGS frame carried    *)
(* it, with the value of the last such frame, however the frames that set  *)
(* other keys are interleaved with it (TrackFrame's merge loop).           *)
(***************************************************************************)
SettingsLastWriterWins ==
    /\ DOMAIN settings = UNION {DOMAIN frames[i].settings : i \in SettingsFrames}
    /\ \A k \in DOMAIN settings :
          settings[k] = frames[LastOf(SettersOf(k))].settings[k]

(***************************************************************************)
(* The window size is the length of the last WINDOW_UPDATE frame whose     *)
(* length is non-zero, and 0 when there is none (TrackFrame's              *)
(* WINDOW_UPDATE branch, whatever frames of other types follow it).        *)
(***************************************************************************)
WindowIsLastUpdate ==
    windowSize = IF WindowUpdates = {} THEN 0
                 ELSE frames[LastOf(WindowUpdates)].length

(***************************************************************************)
(* The Akamai fingerprint GenerateFingerprintData builds from the tracker's *)
(* aggregates lists exactly the well-known settings present, by increasing *)
(* identifier, whatever order and mix of partial SETTINGS frames produced  *)
(* the map (generateAkamaiFingerprint's six ordered blocks), and carries   *)
(* the current window.                                                     *)
(***************************************************************************)
AkamaiMatchesReference ==
    LET fp == generateAkamaiFingerprint(settings, windowSize, priority)
    IN /\ AkamaiSettingsFieldOK(fp[1], settings)
       /\ fp[2] = windowSize
=============================================================================
