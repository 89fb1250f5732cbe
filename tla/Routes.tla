------------------------------- MODULE Routes -------------------------------
(***************************************************************************)
(* How a request finds its upstream: by the end of its host name at        *)
(* vhoster (ServeHTTP), by its path at the gateway, whose configured       *)
(* patterns are converted for http.ServeMux when it starts (main).         *)
(* Names and patterns are sequences of characters.                         *)
(***************************************************************************)
EXTENDS Naturals, Sequences, SequencesExt

\* strings.HasSuffix(host, suffix)
HasSuffix(host, suffix) ==
  /\ Len(suffix) <= Len(host)
  /\ \A i \in 1 .. Len(suffix) : suffix[i] = host[Len(host) - Len(suffix) + i]

Matching(host, redirects) == {i \in DOMAIN redirects : HasSuffix(host, redirects[i])}

LastMatch(host, redirects) ==
  LET m == Matching(host, redirects)
  IN IF m = {} THEN 0 ELSE CHOOSE i \in m : \A j \in m : j <= i
\* The first redirect whose host is a suffix of the request's, or 0 (a 404).
Route(host, redirects) ==
  LET m == Matching(host, redirects)
  IN IF m = {} THEN 0 ELSE CHOOSE i \in m : \A j \in m : i <= j

\* No host in the configuration hides one that follows it.
WellOrdered(redirects) ==
  \A i, j \in DOMAIN redirects :
    i < j => ~HasSuffix(redirects[j], redirects[i])

-----------------------------------------------------------------------------
\* The index of the first character of s that is in S, from position i on, or the
\* position after its end.
IndexFrom(s, i, S) ==
  LET found == {k \in i .. Len(s) : s[k] \in S}
  IN IF found = {} THEN Len(s) + 1 ELSE CHOOSE k \in found : \A l \in found : k <= l

\* The first "*" becomes "{" and the pattern is closed at its end.
Wildcard(pattern) ==
  LET star == IndexFrom(pattern, 1, {"*"}) IN
  IF star > Len(pattern) THEN pattern
  ELSE ReplaceAt(pattern, star, "{") \o <<"...", "}">>

\* A parameter lasts to the next "/", or to the end of the pattern.
EndOfName(pattern, start) == IndexFrom(pattern, start, {"/"})

\* The first parameter of the pattern, from its ":" up to the next "/".
OneParameter(pattern) ==
  LET start == IndexFrom(pattern, 1, {":"})
      end == EndOfName(pattern, start)
  IN SubSeq(pattern, 1, start - 1) \o <<"{">>
     \o SubSeq(pattern, start + 1, end - 1) \o <<"}">> \o SubSeq(pattern, end, Len(pattern))

\* The loop runs as long as there is a ":"; every round removes one.
Convert(pattern) ==
  LET rounds[k \in 0 .. Len(pattern)] ==
        IF k = 0 THEN Wildcard(pattern) ELSE OneParameter(rounds[k - 1])
      over(k) == IndexFrom(rounds[k], 1, {":"}) > Len(rounds[k])
  IN rounds[CHOOSE k \in 0 .. Len(pattern) : over(k) /\ \A j \in 0 .. k - 1 : ~over(j)]
=============================================================================
