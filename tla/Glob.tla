-------------------------------- MODULE Glob --------------------------------
(***************************************************************************)
(* GlobMatcher of src/bus.rs, the pattern of `.bus sub`.  Patterns and     *)
(* topics are sequences of characters; the only one that matters is "*".   *)
(***************************************************************************)
EXTENDS Naturals, Sequences, SequencesExt

Star == <<"*">>   \* GlobPart::Star; a literal part has no "*" in it

(* The literal that was being read becomes a part. *)
Close(st) ==
  IF st.buf = <<>> THEN st ELSE [parts |-> Append(st.parts, st.buf), buf |-> <<>>]

(* One character of the loop in GlobMatcher::new: stars in a row are one part *)
Scan(st, ch) ==
  IF ch # "*" THEN [st EXCEPT !.buf = Append(@, ch)]
  ELSE LET c == Close(st)
       IN  IF c.parts # <<>> /\ Last(c.parts) = Star THEN c
           ELSE [c EXCEPT !.parts = Append(@, Star)]

(* st[k]: what has been read after k characters *)
GlobMatcherNew(pattern) ==
  LET st[k \in 0..Len(pattern)] ==
        IF k = 0 THEN [parts |-> <<>>, buf |-> <<>>] ELSE Scan(st[k - 1], pattern[k])
  IN  Close(st[Len(pattern)]).parts

BadMatchParts(parts, s) ==   \* a star takes at least one character
  LET m[i \in 1..(Len(parts) + 1)] == [j \in 1..(Len(s) + 1) |->
        IF i > Len(parts) THEN j > Len(s)
        ELSE IF parts[i] = Star
          THEN i = Len(parts) \/ \E k \in (j + 1)..(Len(s) + 1) : m[i + 1][k]
          ELSE /\ IsPrefix(parts[i], SubSeq(s, j, Len(s)))
               /\ m[i + 1][j + Len(parts[i])]]
  IN  m[1][1]

(* m[i][j]: match_parts(parts[i..], s[j..]); a literal must come first; a star
   that is not the last part tries every rest of the string, the empty one
   too. *)
MatchParts(parts, s) ==
  LET m[i \in 1..(Len(parts) + 1)] == [j \in 1..(Len(s) + 1) |->
        IF i > Len(parts) THEN j > Len(s)
        ELSE IF parts[i] = Star
          THEN i = Len(parts) \/ \E k \in j..(Len(s) + 1) : m[i + 1][k]
          ELSE /\ IsPrefix(parts[i], SubSeq(s, j, Len(s)))
               /\ m[i + 1][j + Len(parts[i])]]
  IN  m[1][1]

GlobMatches(pattern, s) == MatchParts(GlobMatcherNew(pattern), s)

-----------------------------------------------------------------------------
(* What a glob means: the string can be cut so that every character of the
   pattern stands for its piece, "*" for any piece and another for itself. *)
GlobMeans(pattern, s) ==
  \E cut \in [0..Len(pattern) -> 0..Len(s)] :
    /\ cut[0] = 0 /\ cut[Len(pattern)] = Len(s)
    /\ \A i \in 1..Len(pattern) :
         IF pattern[i] = "*" THEN cut[i - 1] <= cut[i]
         ELSE cut[i] = cut[i - 1] + 1 /\ s[cut[i]] = pattern[i]
=============================================================================
