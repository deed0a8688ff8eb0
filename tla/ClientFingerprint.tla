------------------------- MODULE ClientFingerprint -------------------------
(***************************************************************************)
(* One Client's fingerprint record through the codec: New and every       *)
(* Request end in updateFingerprint, which passes the connection details  *)
(* it selected (or nil) and the profile to GenerateFingerprintData and    *)
(* stores the result in c.lastFingerprint; the getters read it.  Which    *)
(* details are selected, and when, is OrbitClient's subject; here the     *)
(* selection is any record the registry can hold, and the record is      *)
(* reduced to the codec's strings.                                         *)
(***************************************************************************)
EXTENDS FingerprintCodec

CONSTANTS
    Profiles,      \* profile descriptors: [ja3 |-> template, fields |-> its ids]
    TLSVersions,   \* details.TLSVersion values a record can hold (0 before the handshake)
    ProfileALPN,   \* c.profile.ALPNProtocols
    NIL

VARIABLES
    profile,          \* c.profile, fixed by New
    selected,         \* the details updateFingerprint last passed (NIL for nil)
    lastFingerprint   \* c.lastFingerprint

fpVars == <<profile, selected, lastFingerprint>>

\* A ConnectionDetails record as DialTLS, the VerifyConnection callback and
\* updateConnectionDetails leave it: the negotiated version is set, the
\* ALPN and signature-algorithm lists are never filled in.
ConnectionDetails(v) == [tlsVersion |-> v, alpnProtocols |-> <<>>, signatureAlgorithms |-> <<>>]
Details == {NIL} \cup {ConnectionDetails(v) : v \in TLSVersions}

\* generateFallbackFingerprint: the template as JA3, the other strings empty.
generateFallbackFingerprint(ja3) ==
    [full |-> FALSE, ja3 |-> ja3, ja4 |-> <<>>, ja4r |-> <<>>, peetPrint |-> <<>>]

\* GenerateFingerprintData: the fallback without details or when the
\* template does not parse; otherwise JA4 and JA4_R from the negotiated
\* version and the details' ALPN list, PeetPrint from the negotiated and
\* template versions and the details' signature algorithms.
GenerateFingerprintData(ja3, d) ==
    LET p == ParseJA3(ja3)
    IN IF d = NIL \/ ~p.ok THEN generateFallbackFingerprint(ja3)
       ELSE [full |-> TRUE, ja3 |-> ja3,
             ja4 |-> GenerateJA4(d.tlsVersion, p.cipherSuites, p.extensions,
                                 p.supportedGroups, d.alpnProtocols),
             ja4r |-> GenerateJA4R(d.tlsVersion, p.cipherSuites, p.extensions,
                                   p.supportedGroups, d.alpnProtocols),
             peetPrint |-> GeneratePeetPrint(d.tlsVersion, p.tlsVersion, p.cipherSuites,
                                             p.extensions, p.supportedGroups,
                                             d.signatureAlgorithms)]

\* New: the profile is fixed and updateFingerprint runs once, with
\* whatever the process-wide registry holds at that moment.
FpInit ==
    /\ profile \in Profiles
    /\ selected \in Details
    /\ lastFingerprint = GenerateFingerprintData(profile.ja3, selected)

\* Request's updateFingerprint after a response: a new record replaces
\* the last one.
Request ==
    \E d \in Details :
        /\ selected' = d
        /\ lastFingerprint' = GenerateFingerprintData(profile.ja3, d)
        /\ UNCHANGED profile

FpSpec == FpInit /\ [][Request]_fpVars

\* GetJA4: the last record's JA4; the template branch is for a Client
\* without a record, which New never returns.
GetJA4 ==
    IF lastFingerprint = NIL
    THEN LET p == ParseJA3(profile.ja3)
         IN IF p.ok THEN GenerateJA4(p.tlsVersion, p.cipherSuites, p.extensions,
                                     p.supportedGroups, ProfileALPN)
            ELSE <<>>
    ELSE lastFingerprint.ja4

GetPeetPrint == IF lastFingerprint = NIL THEN <<>> ELSE lastFingerprint.peetPrint

-----------------------------------------------------------------------------
(* Properties                                                              *)

\* The template's ids all fit in 16 bits (the reference for ParseJA3).
Usable(f) ==
    /\ f.version < 2^16
    /\ \A l \in {f.ciphers, f.exts, f.groups, f.points} : \A i \in 1..Len(l) : l[i] < 2^16

(***************************************************************************)
(* Spec 4.1 and 4.4: GenerateFingerprintData falls back to the template-  *)
(* only record exactly when updateFingerprint found no details or the     *)
(* template is not five fields of 16-bit decimal ids; an empty field is   *)
(* an empty list, not an error.                                            *)
(***************************************************************************)
FullRecordIffUsable ==
    lastFingerprint.full <=> selected # NIL /\ profile.fields # NIL /\ Usable(profile.fields)

(***************************************************************************)
(* Spec 4.1: JA4 lists the ciphers and extensions in sorted order.  The   *)
(* code sorts their hex renderings as strings (sort.Strings); the lists   *)
(* GetJA4 reports are in increasing numeric order only because every id   *)
(* is rendered with exactly four digits.                                   *)
(***************************************************************************)
JA4ListsInNumericOrder ==
    lastFingerprint.full =>
        LET seg == Split(GetJA4, "_")
        IN /\ Len(seg) = 3
           /\ seg[2] = HexList(SortSeq(profile.fields.ciphers, <))
           /\ seg[3] = HexList(SortSeq(profile.fields.exts, <))

(***************************************************************************)
(* Spec 4.1: PeetPrint is five '|'-separated segments, empty lists as     *)
(* empty segments, so it decodes back to the negotiated and template     *)
(* versions and the groups, signature algorithms, extensions and ciphers *)
(* it was made from.                                                       *)
(***************************************************************************)
PeetPrintRoundTrip ==
    lastFingerprint.full =>
        LET seg == Split(GetPeetPrint, "|")
        IN /\ Len(seg) = 5
           /\ seg[1] = Decimal(selected.tlsVersion) \o <<"-">> \o Decimal(profile.fields.version)
           /\ parseUint16List(seg[2]) = [ok |-> TRUE, list |-> profile.fields.groups]
           /\ parseUint16List(seg[3]) = [ok |-> TRUE, list |-> selected.signatureAlgorithms]
           /\ parseUint16List(seg[4]) = [ok |-> TRUE, list |-> profile.fields.exts]
           /\ parseUint16List(seg[5]) = [ok |-> TRUE, list |-> profile.fields.ciphers]

(***************************************************************************)
(* Spec 4.4: JA4 is computed from the negotiated values where available,  *)
(* else from the template.  For a template that parses, the JA4 GetJA4    *)
(* reports carries the ALPN class of the negotiated protocols, or of the  *)
(* profile's ALPN list when none were negotiated.                          *)
(***************************************************************************)
JA4ProtocolFromALPN ==
    profile.fields # NIL /\ Usable(profile.fields) =>
        LET alpn == IF selected # NIL /\ selected.alpnProtocols # <<>>
                    THEN selected.alpnProtocols ELSE ProfileALPN
            tag == ProtoTag(alpn)
        IN /\ Len(GetJA4) >= 3 + Len(tag)
           /\ SubSeq(GetJA4, 4, 3 + Len(tag)) = tag
=============================================================================
