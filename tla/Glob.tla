--------------------------------- MODULE Glob ---------------------------------
(***************************************************************************)
(* Path patterns of the databroker (glob.rs).  A pattern is turned into a  *)
(* regular expression by replacing substrings, one kind of wildcard after  *)
(* the other, so what one replacement leaves behind is input to the next.  *)
(*                                                                         *)
(* A string is a sequence of one-letter strings.  A regular expression is  *)
(* a sequence of letters and of the items                                  *)
(*     begin ^    end $         dot \.        children (?:\..+)?           *)
(*     seg [^.\s\:]+            some .+       any .*                       *)
(*     chars [\.[^.\s\:]+]*, a character class that excludes only blanks   *)
(*           and colons; nul, which no path contains                       *)
(* in which "*" repeats the item before it.                                *)
(***************************************************************************)
EXTENDS Naturals, Sequences

HasAt(s, i, t) == i + Len(t) - 1 <= Len(s) /\ SubSeq(s, i, i + Len(t) - 1) = t
StartsWith(s, t) == HasAt(s, 1, t)
EndsWith(s, t) == Len(t) <= Len(s) /\ HasAt(s, Len(s) - Len(t) + 1, t)
HasWithin(s, t) == \E i \in 1..Len(s) : HasAt(s, i, t)
HasWildcard(s) == HasWithin(s, << "*" >>)

\* str::replace, from left to right.
Replace(s, from, to) ==
    LET From[i \in Nat] ==
            IF i > Len(s) THEN << >>
            ELSE IF HasAt(s, i, from) THEN to \o From[i + Len(from)]
            ELSE << s[i] >> \o From[i + 1]
    IN  From[1]

\* The steps of to_regex_string: the glob decides, what is there so far is changed.
Escaped(glob) == Replace(glob, << "." >>, << "dot" >>)

Leading(glob, re) ==
    IF StartsWith(glob, << "*", "*", "." >>)
    THEN Replace(re, << "*", "*", "dot" >>, << "some", "dot" >>)
    ELSE IF StartsWith(glob, << "*", "." >>)
    THEN Replace(re, << "*", "dot" >>, << "seg", "dot" >>)
    ELSE re

Trailing(glob, re) ==
    IF EndsWith(glob, << ".", "*" >>)
    THEN Replace(re, << "dot", "*" >>, << "dot", "seg" >>)
    ELSE IF EndsWith(glob, << ".", "*", "*" >>)
    THEN Replace(re, << "dot", "*", "*" >>, << "dot", "any" >>)
    ELSE re

Doubles(glob, re) ==
    IF HasWithin(glob, << ".", "*", "*", "." >>)
    THEN Replace(re, << "dot", "*", "*" >>, << "chars" >>) ELSE re

Singles(glob, re) ==
    IF HasWithin(glob, << ".", "*", "." >>)
    THEN Replace(re, << "dot", "*" >>, << "dot", "seg" >>) ELSE re

to_regex_string(glob) ==
    IF glob = << "*" >> THEN << "nul" >>
    ELSE IF glob = << >> THEN << "begin" >>
    ELSE IF ~HasWildcard(glob) THEN << "begin" >> \o Escaped(glob) \o << "children", "end" >>
    ELSE << "begin" >>
         \o Singles(glob, Doubles(glob, Trailing(glob, Leading(glob, Escaped(glob)))))
         \o << "end" >>

------------------------------------------------------------------------------
(* The regex crate *)

\* Where a match of an item that starts at the i-th letter of s may go on.
ItemEnds(item, s, i) ==
    LET End == Len(s) + 1
        NoDot(j) == \A k \in i..(j - 1) : s[k] # "."
    IN  CASE item = "begin" -> {i} \cap {1}
          [] item = "end" -> {i} \cap {End}
          [] item = "nul" -> {}
          [] item = "seg" -> {j \in (i + 1)..End : NoDot(j)}
          [] item = "some" -> (i + 1)..End
          [] item \in {"any", "chars"} -> i..End
          [] item = "children" ->
                {i} \cup (IF i < End /\ HasAt(s, i, << "." >>) THEN (i + 2)..End ELSE {})
          [] OTHER -> IF HasAt(s, i, << IF item = "dot" THEN "." ELSE item >>) THEN {i + 1} ELSE {}

\* Regex::is_match searches for a match anywhere.
Search(re, s) ==
    LET \* Does the expression from its k-th item match s from its i-th letter?
        Matches[k \in Nat, i \in Nat] ==
            IF k > Len(re) THEN TRUE
            ELSE IF re[k] = "*" THEN Matches[k + 1, i]
            ELSE IF k < Len(re) /\ re[k + 1] = "*"
            THEN Matches[k + 1, i] \/ \E j \in ItemEnds(re[k], s, i) \ {i} : Matches[k, j]
            ELSE \E j \in ItemEnds(re[k], s, i) : Matches[k + 1, j]
    IN  \E i \in 1..(Len(s) + 1) : Matches[1, i]

is_match(glob, s) == Search(to_regex_string(glob), s)

------------------------------------------------------------------------------
(* Valid names *)

Segments(s) ==
    LET From[i \in Nat] ==     \* of the letters from the i-th on
            LET dots == {k \in i..Len(s) : s[k] = "."}
                first == CHOOSE k \in dots : \A j \in dots : k <= j
            IN  IF dots = {} THEN << SubSeq(s, i, Len(s)) >>
                ELSE << SubSeq(s, i, first - 1) >> \o From[first + 1]
    IN  From[1]

Blank == {" ", ":"}

\* A "*" is like any other letter to the first alternative of the pattern.
ValidSegment(segment) == segment # << >> /\ \A k \in DOMAIN segment : segment[k] \notin Blank

is_valid_pattern(s) == \A i \in DOMAIN Segments(s) : ValidSegment(Segments(s)[i])

is_valid_path(s) == is_valid_pattern(s) /\ ~HasWildcard(s)

------------------------------------------------------------------------------
(* Reference: the rules of doc/wildcard_matching.md, and of the tests in    *)
(* glob.rs that a lone "*" matches nothing                                 *)

\* Do the segments p describe the segments q?
SegmentsMatch(p, q) ==
    LET M[a \in Nat, b \in Nat] ==     \* from the a-th and the b-th on
            IF a > Len(p) THEN b > Len(q)
            ELSE IF p[a] # << "*", "*" >>
            THEN b <= Len(q) /\ p[a] \in {<< "*" >>, q[b]} /\ M[a + 1, b + 1]
            ELSE IF a = Len(p) THEN b <= Len(q)
            ELSE \E k \in b..(Len(q) + 1) : M[a + 1, k]
    IN  M[1, 1]

Documented(glob, s) ==
    \/ glob = << >>
    \/ ~HasWildcard(glob) /\ (glob = s \/ StartsWith(s, glob \o << "." >>))
    \/ HasWildcard(glob) /\ glob # << "*" >> /\ SegmentsMatch(Segments(glob), Segments(s))

==============================================================================
