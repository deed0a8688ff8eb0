----------------------------- MODULE UserAgent -----------------------------
(***************************************************************************)
(* extractUserAgent of src/example/basic_impersonation.go, which prints   *)
(* the user agent httpbin.org echoes in resp.Text, with its two search    *)
(* loops findInString and findInStringFrom.  Strings are sequences of     *)
(* one-character strings; Go's 0-based index i is the sequence position  *)
(* i + 1, and the slice s[i:j] is SubSeq(s, i + 1, j).                     *)
(***************************************************************************)
EXTENDS Integers, Sequences, SequencesExt

CONSTANT Bodies    \* response texts the loop may receive

VARIABLE respText  \* resp.Text of the response being printed

Quote == <<"\"">>
\* "\"user-agent\": \"", the text before the value.
UserAgentKey == <<"\"", "u", "s", "e", "r", "-", "a", "g", "e", "n", "t", "\"", ":", " ", "\"">>
NotFound == <<"N", "o", "t", " ", "f", "o", "u", "n", "d">>

\* Mutant: the loop stops one position early (i < len(s)-len(substr)).
findInStringFromShort(s, substr, start) ==
    LET RECURSIVE Scan(_)
        Scan(i) == IF i >= Len(s) - Len(substr) THEN -1
                   ELSE IF SubSeq(s, i + 1, i + Len(substr)) = substr THEN i
                   ELSE Scan(i + 1)
    IN Scan(start)

\* findInStringFrom: the first i >= start, up to len(s)-len(substr), where
\* substr occurs; -1 if there is none.
findInStringFrom(s, substr, start) ==
    LET RECURSIVE Scan(_)
        Scan(i) == IF i > Len(s) - Len(substr) THEN -1
                   ELSE IF SubSeq(s, i + 1, i + Len(substr)) = substr THEN i
                   ELSE Scan(i + 1)
    IN Scan(start)

\* findInString: the same loop from 0.
findInString(s, substr) == findInStringFrom(s, substr, 0)

\* extractUserAgent: the text between the first key and the next quote.
extractUserAgent(response) ==
    LET startIdx == findInString(response, UserAgentKey)
        from == startIdx + Len(UserAgentKey)
        endIdx == findInStringFrom(response, Quote, from)
    IN IF startIdx = -1 \/ endIdx = -1 THEN NotFound
       ELSE SubSeq(response, from + 1, endIdx)

UaInit == respText \in Bodies

\* The loop's next client gets its response.
NextResponse == respText' \in Bodies

(***************************************************************************)
(* The printed user agent is the JSON value after the first               *)
(* "user-agent": key, up to the next quote, and "Not found" when there is  *)
(* no key or no closing quote, including a key or a quote that ends the   *)
(* body.                                                                   *)
(***************************************************************************)
UserAgentAfterFirstKey ==
    LET t == respText
        rest == SubSeq(t, IndexFirstSubSeq(UserAgentKey, t) + Len(UserAgentKey), Len(t))
        q == SelectInSeq(rest, LAMBDA ch : ch = "\"")
    IN extractUserAgent(t) =
         IF UserAgentKey \notin SubSeqs(t) \/ q = 0 THEN NotFound ELSE SubSeq(rest, 1, q - 1)
=============================================================================
