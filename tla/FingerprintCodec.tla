-------------------------- MODULE FingerprintCodec --------------------------
(***************************************************************************)
(* The fingerprint codec of package fingerprint (src/unnamed/part_003):   *)
(* ParseJA3, GenerateJA4, GenerateJA4R, GeneratePeetPrint and their       *)
(* helpers, as pure operators.  A string is a sequence of one-character   *)
(* strings, so splitting, joining, decimal and hex rendering and Go's     *)
(* byte-wise string order are modelled by what they do.  The MD5 and     *)
(* SHA-256 hex digests and the name lookups are left out: no property    *)
(* reads them.                                                             *)
(***************************************************************************)
EXTENDS Integers, Sequences, SequencesExt

DecDigits == <<"0", "1", "2", "3", "4", "5", "6", "7", "8", "9">>
\* The lower-case hex digits in byte order ('0' < '9' < 'a' < 'f').
HexDigits == DecDigits \o <<"a", "b", "c", "d", "e", "f">>

-----------------------------------------------------------------------------
(* strings, strconv and fmt                                                *)

\* strings.Split(s, sep) for a one-character sep: "" splits into <<"">>.
RECURSIVE Split(_, _)
Split(s, sep) ==
    LET k == SelectInSeq(s, LAMBDA ch : ch = sep)
    IN IF k = 0 THEN <<s>>
       ELSE <<SubSeq(s, 1, k - 1)>> \o Split(SubSeq(s, k + 1, Len(s)), sep)

\* strings.Join(parts, sep).
Join(parts, sep) ==
    IF parts = <<>> THEN <<>>
    ELSE FoldLeft(LAMBDA acc, p : acc \o <<sep>> \o p, Head(parts), Tail(parts))

\* strconv.FormatUint(v, 10), i.e. %d of an unsigned value.
RECURSIVE Decimal(_)
Decimal(v) == IF v < 10 THEN <<DecDigits[v + 1]>>
              ELSE Decimal(v \div 10) \o <<DecDigits[(v % 10) + 1]>>

\* Mutant: %x, without the zero padding.
HexUnpadded(v) ==
    LET RECURSIVE H(_)
        H(n) == IF n < 16 THEN <<HexDigits[n + 1]>> ELSE H(n \div 16) \o <<HexDigits[(n % 16) + 1]>>
    IN H(v)

\* fmt.Sprintf("%04x", v) of a uint16: four lower-case hex digits.
Hex04(v) == [i \in 1..4 |-> HexDigits[((v \div 16^(4 - i)) % 16) + 1]]

DigitValue(ch) == CHOOSE d \in 0..9 : DecDigits[d + 1] = ch

\* strconv.ParseUint(s, 10, 16): an error for an empty string, a
\* character that is not a decimal digit, or a value above 2^16 - 1.
ParseUint16(s) == FoldLeft(LAMBDA acc, ch : acc * 10 + DigitValue(ch), 0, s)
ParseUint16Ok(s) ==
    /\ s # <<>>
    /\ \A i \in 1..Len(s) : s[i] \in Range(DecDigits)
    /\ ParseUint16(s) < 2^16

ByteOrder(ch) == SelectInSeq(HexDigits, LAMBDA x : x = ch)

\* Go's s1 < s2 on strings: byte-wise, a proper prefix first.
RECURSIVE StrLess(_, _)
StrLess(a, b) ==
    CASE a = <<>> -> b # <<>>
      [] b = <<>> -> FALSE
      [] Head(a) = Head(b) -> StrLess(Tail(a), Tail(b))
      [] OTHER -> ByteOrder(Head(a)) < ByteOrder(Head(b))

-----------------------------------------------------------------------------
(* The codec                                                               *)

\* Mutant: no special case for "", so an empty field fails to parse.
parseUint16ListNoEmpty(s) ==
    LET toks == Split(s, "-")
    IN IF \A i \in 1..Len(toks) : ParseUint16Ok(toks[i])
       THEN [ok |-> TRUE, list |-> [i \in 1..Len(toks) |-> ParseUint16(toks[i])]]
       ELSE [ok |-> FALSE, list |-> <<>>]

\* parseUint16List: "" is the empty list; otherwise each '-'-separated
\* token must parse, or the result is an error (ok = FALSE).
parseUint16List(s) ==
    LET toks == Split(s, "-")
    IN CASE s = <<>> -> [ok |-> TRUE, list |-> <<>>]
         [] \A i \in 1..Len(toks) : ParseUint16Ok(toks[i]) ->
                [ok |-> TRUE, list |-> [i \in 1..Len(toks) |-> ParseUint16(toks[i])]]
         [] OTHER -> [ok |-> FALSE, list |-> <<>>]

\* ParseJA3: exactly five ','-separated fields, the first a 16-bit
\* decimal, the other four lists; any error is ok = FALSE.
ParseJA3(ja3) ==
    LET f == Split(ja3, ",")
        l(i) == parseUint16List(f[i])
    IN IF Len(f) = 5 /\ ParseUint16Ok(f[1]) /\ \A i \in 2..5 : l(i).ok
       THEN [ok |-> TRUE, tlsVersion |-> ParseUint16(f[1]), cipherSuites |-> l(2).list,
             extensions |-> l(3).list, supportedGroups |-> l(4).list, ecPointFormats |-> l(5).list]
       ELSE [ok |-> FALSE]

\* The version and protocol tags GenerateJA4 and GenerateJA4R share.
VersionTag(v) == CASE v = 771 -> <<"1", "2">>    \* 0x0303
                   [] v = 770 -> <<"1", "1">>    \* 0x0302
                   [] OTHER   -> <<"1", "3">>
ProtoTag(alpn) == CASE Contains(alpn, "h2")       -> <<"h", "2">>
                    [] Contains(alpn, "http/1.1") -> <<"h", "1">>
                    [] OTHER                      -> <<"d">>

HexList(l) == Join([i \in 1..Len(l) |-> Hex04(l[i])], ",")
SortedHexList(l) == Join(SortSeq([i \in 1..Len(l) |-> Hex04(l[i])], StrLess), ",")

\* GenerateJA4: "t<ver><proto>1516_<sorted ciphers>_<sorted extensions>".
GenerateJA4(v, ciphers, exts, groups, alpn) ==
    <<"t">> \o VersionTag(v) \o ProtoTag(alpn) \o <<"1", "5", "1", "6">>
        \o <<"_">> \o SortedHexList(ciphers) \o <<"_">> \o SortedHexList(exts)

\* GenerateJA4R: "t<ver><proto>_<ciphers>_<extensions>_<groups>", unsorted.
GenerateJA4R(v, ciphers, exts, groups, alpn) ==
    <<"t">> \o VersionTag(v) \o ProtoTag(alpn) \o <<"_">> \o HexList(ciphers)
        \o <<"_">> \o HexList(exts) \o <<"_">> \o HexList(groups)

\* formatUint16Slice: decimal values joined by '-', "" for no values.
formatUint16Slice(l) ==
    IF l = <<>> THEN <<>> ELSE Join([i \in 1..Len(l) |-> Decimal(l[i])], "-")

\* Mutant: the extension and cipher segments swapped.
GeneratePeetPrintSwapped(neg, rec, ciphers, exts, groups, sigAlgs) ==
    Join(<< Decimal(neg) \o <<"-">> \o Decimal(rec), formatUint16Slice(groups),
            formatUint16Slice(sigAlgs), formatUint16Slice(ciphers),
            formatUint16Slice(exts) >>, "|")

\* GeneratePeetPrint: "<negotiated>-<record>|groups|sigalgs|exts|ciphers".
GeneratePeetPrint(neg, rec, ciphers, exts, groups, sigAlgs) ==
    Join(<< Decimal(neg) \o <<"-">> \o Decimal(rec), formatUint16Slice(groups),
            formatUint16Slice(sigAlgs), formatUint16Slice(exts),
            formatUint16Slice(ciphers) >>, "|")
=============================================================================
