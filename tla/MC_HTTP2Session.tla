-------------------------- MODULE MC_HTTP2Session --------------------------
(* The profiles init() builds clients for, with their browser families,   *)
(* and small request shapes.                                               *)
(*                                                                         *)
(* A tracker is driven either by the Client that owns it (New, then one    *)
(* HEADERS frame per Request) or, through the exported TrackFrame, by any  *)
(* caller with any frames.  One run explores both: driver, fixed in the    *)
(* initial state, says which; the tracker's aggregate properties must hold *)
(* under both, the preset property under the Client.                       *)
EXTENDS HTTP2Session

MCProfiles == {"Chrome120", "Chrome131", "Chrome138", "Firefox121", "Firefox131",
               "Safari17", "Safari18", "SafariiOS", "Edge120", "MullvadBrowser",
               "ChromeAndroid", "Opera115", "Brave131", "Brave138"}

MCFamily == [p \in MCProfiles |->
                CASE p \in {"Firefox121", "Firefox131", "MullvadBrowser"} -> "firefox"
                  [] p \in {"Safari17", "Safari18", "SafariiOS"}          -> "safari"
                  [] OTHER                                               -> "chromium"]

MCHeaderSets == { {}, {<<"User-Agent", "Mozilla/5.0">>, <<"Accept", "*/*">>} }
MCToLower == ("User-Agent" :> "user-agent") @@ ("Accept" :> "accept")

\* The frames a caller passes: two of the six SETTINGS identifiers, two
\* values each, and window lengths 0 (ignored by the code) and two distinct
\* non-zero lengths, so that merges, overrides and a later update replacing
\* an earlier one all occur.
MCSettingKeys == {"HEADER_TABLE_SIZE", "ENABLE_PUSH"}
MCSettingVals == {0, 1}
MCLengths == {0, 1, 2}

VARIABLE driver   \* "client" or "caller"

MCInit == \/ driver = "client" /\ SessInit
          \/ driver = "caller" /\ Init /\ profile = NoProfile

MCNext == \/ driver = "client" /\ SessNext /\ UNCHANGED driver
          \/ driver = "caller" /\ Next /\ UNCHANGED <<profile, driver>>

MCSpec == MCInit /\ [][MCNext]_<<sessVars, driver>>

\* The tracker's type invariant, over the frames a caller may pass (the
\* Client's presets carry lengths and keys outside the caller's sets).
CallerTypeOK == driver = "caller" => TypeOK
=============================================================================
