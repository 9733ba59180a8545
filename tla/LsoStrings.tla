------------------------------ MODULE LsoStrings -------------------------------
(***************************************************************************)
(* The string helpers of list-objects (src/cmn/objlist_utils.go):         *)
(*  - the custom-metadata codec of listing entries: CustomMD2S and         *)
(*    CustomProps2S format a property bag as "[k1:v1 k2:v2]", S2CustomMD   *)
(*    parses it back and fills the version, S2CustomVal picks one value    *)
(*    out of the string;                                                   *)
(*  - DirHasOrIsPrefix and ObjHasPrefix, with which the bucket walk        *)
(*    decides to skip a directory or an object for a prefix.               *)
(*                                                                         *)
(* The property of interest is the conversion itself, so a string is a     *)
(* sequence of one-character strings and the delimiters '[', ']', ':' and  *)
(* ' ' are characters of it.  Offsets follow Go: 0-based, s[a:b] is        *)
(* Slice(s, a, b), and "not found" is -1.  A behaviour is one call with    *)
(* one input: the functions keep no state between calls.                   *)
(***************************************************************************)
EXTENDS Naturals, Integers, Sequences, SequencesExt, FiniteSets, TLC

CONSTANTS
    StdCustomProps, \* stdCustomProps: the keys formatted first, in this order
    VersionObjMD,   \* the version key, one of StdCustomProps
    OrigFntl,       \* the internal key CustomMD2S always leaves out
    Keys,           \* property names (strings)
    Vals,           \* property values (strings)
    Versions,       \* the version argument of S2CustomMD
    MaxPairs,       \* the most name/value pairs passed to CustomProps2S
    Paths,          \* directory paths and prefixes of the walk (non-empty)
    Names           \* object names relative to a directory

ASSUME VersionObjMD \in ToSet(StdCustomProps) /\ ToSet(StdCustomProps) \subseteq Keys
ASSUME OrigFntl \in Keys \ ToSet(StdCustomProps)

VARIABLE input

\* A property bag (cos.StrKVs): a function from some names to values.
MDs == UNION {[D -> Vals] : D \in SUBSET Keys}
EmptyMD == [k \in {} |-> <<>>]

Inputs ==
    [kind : {"md"}, md : MDs, version : Versions] \cup
    [kind : {"props"}, nvs : UNION {[1..n -> Keys \X Vals] : n \in 0..MaxPairs}] \cup
    [kind : {"walk"}, dir : Paths, prefix : Paths]

-----------------------------------------------------------------------------
(* Go string primitives over 0-based offsets.                              *)

\* s[a:b]
Slice(s, a, b) == SubSeq(s, a + 1, b)

\* strings.IndexByte(s[i:], c): the offset of the first c from i on, or -1.
IndexByte(s, i, c) ==
    LET n == SelectInSubSeq(s, i + 1, Len(s), LAMBDA x : x = c)
    IN  IF n = 0 THEN -1 ELSE n - 1 - i

\* strings.Index(s, t): the offset of the first occurrence of t in s, or -1.
IndexStr(s, t) ==
    LET at == {i \in 1..(Len(s) - Len(t) + 1) : SubSeq(s, i, i + Len(t) - 1) = t}
    IN  IF at = {} THEN -1 ELSE Min(at) - 1

\* strings.HasPrefix(s, t)
HasPrefix(s, t) == Len(t) <= Len(s) /\ SubSeq(s, 1, Len(t)) = t

-----------------------------------------------------------------------------
(* Prefix checks of the bucket walk (prefix # "", debug.Assert)            *)

\* Mutation: only directories inside the prefix are kept.
DirHasOrIsPrefixInside(dirPath, prefix) == HasPrefix(dirPath, prefix)

\* The directory is on the prefix's branch: it contains the prefix (do not
\* SkipDir a/b when looking for a/b/c) or lies inside it.
DirHasOrIsPrefix(dirPath, prefix) == HasPrefix(prefix, dirPath) \/ HasPrefix(dirPath, prefix)

ObjHasPrefix(objName, prefix) == HasPrefix(objName, prefix)

-----------------------------------------------------------------------------
(* Formatting                                                              *)

\* k ':' v
Pair(k, v) == k \o <<":">> \o v

\* '[' then the pairs separated by ' ' then ']'.
Wrap(ps) ==
    <<"[">> \o FlattenSeq([i \in 1..Len(ps) |-> IF i = 1 THEN ps[i] ELSE <<" ">> \o ps[i]])
            \o <<"]">>

\* Mutation: the internal key is not skipped by the second loop.
CustomMD2SWithOrig(md) ==
    LET std  == SelectSeq(StdCustomProps, LAMBDA k : k \in DOMAIN md)
        rest == DOMAIN md \ ToSet(StdCustomProps)
        ords == IF Cardinality(DOMAIN md) - Len(std) > 0 THEN SetToSeqs(rest) ELSE {<<>>}
    IN  {Wrap([i \in 1..Len(std \o o) |-> Pair((std \o o)[i], md[(std \o o)[i]])]) : o \in ords}

\* CustomMD2S: the standard keys in stdCustomProps order, then, if any key
\* is left (l > 0), the other keys but OrigFntl in Go's map order, which is
\* arbitrary: the result is the set of strings the call may return.
CustomMD2S(md) ==
    LET std  == SelectSeq(StdCustomProps, LAMBDA k : k \in DOMAIN md)
        rest == DOMAIN md \ (ToSet(StdCustomProps) \cup {OrigFntl})
        ords == IF Cardinality(DOMAIN md) - Len(std) > 0 THEN SetToSeqs(rest) ELSE {<<>>}
    IN  {Wrap([i \in 1..Len(std \o o) |-> Pair((std \o o)[i], md[(std \o o)[i]])]) : o \in ords}

\* Mutation: the ' ' between pairs is not written.
CustomProps2SNoDelim(nvs) ==
    <<"[">> \o FlattenSeq([i \in 1..Len(nvs) |-> Pair(nvs[i][1], nvs[i][2])]) \o <<"]">>

\* CustomProps2S(n1, v1, n2, v2, ...): the pairs in argument order.
CustomProps2S(nvs) == Wrap([i \in 1..Len(nvs) |-> Pair(nvs[i][1], nvs[i][2])])

-----------------------------------------------------------------------------
(* Parsing                                                                 *)

\* The loop of S2CustomMD from offset i: the name runs to the next ':', the
\* value from there to the next ' ' or, failing that, the next ']'.  A
\* missing delimiter trips debug.Assert, compiled out of release builds,
\* and returns at once (done = FALSE: the version is not filled).
RECURSIVE ParseFrom(_, _, _)
ParseFrom(s, i, md) ==
    IF i >= Len(s) - 1 THEN [md |-> md, done |-> TRUE]
    ELSE
      LET j  == IndexByte(s, i, ":")
          c  == i + j
          sp == IndexByte(s, c, " ")
          k  == IF sp < 0 THEN IndexByte(s, c, "]") ELSE sp
      IN  IF j < 0 \/ k < 0 THEN [md |-> md, done |-> FALSE]
          ELSE ParseFrom(s, c + k + 1, (Slice(s, i, c) :> Slice(s, c + 1, c + k)) @@ md)

\* S2CustomMD(md, custom, version) into an empty md: a string shorter than
\* "[x]" returns before the loop; after a complete loop a missing or empty
\* version is taken from the argument.
S2CustomMD(custom, version) ==
    IF Len(custom) - 1 < 2 THEN EmptyMD
    ELSE LET r == ParseFrom(custom, 1, EmptyMD)
         IN  IF /\ r.done
                /\ VersionObjMD \notin DOMAIN r.md \/ r.md[VersionObjMD] = <<>>
                /\ version # <<>>
             THEN (VersionObjMD :> version) @@ r.md
             ELSE r.md

\* Mutation: the value starts at the ':' (i += j instead of i += j + 1).
S2CustomValFromColon(custom, name) ==
    LET i  == IndexStr(custom, name)
        j  == IndexByte(custom, i, ":")
        v  == i + j
        sp == IndexByte(custom, v, " ")
        k  == IF sp < 0 THEN IndexByte(custom, v, "]") ELSE sp
    IN  IF i < 0 \/ j < 0 \/ k < 0 THEN <<>> ELSE Slice(custom, v, v + k)

\* S2CustomVal: the first occurrence of name anywhere in the string, then
\* the value after the next ':' up to the next ' ' or ']'.
S2CustomVal(custom, name) ==
    LET i  == IndexStr(custom, name)
        j  == IndexByte(custom, i, ":")
        v  == i + j + 1
        sp == IndexByte(custom, v, " ")
        k  == IF sp < 0 THEN IndexByte(custom, v, "]") ELSE sp
    IN  IF i < 0 \/ j < 0 \/ k < 0 THEN <<>> ELSE Slice(custom, v, v + k)

-----------------------------------------------------------------------------
Init == input \in Inputs

\* The functions are pure: a call leaves nothing behind for the next one.
Next == UNCHANGED input

Spec == Init /\ [][Next]_input

-----------------------------------------------------------------------------
(* Reference definitions and properties                                    *)

\* The encoding has no escapes: a name must not hold ':' and a value must
\* not hold ' ' or ']'.
Delimited(k, v) == ":" \notin ToSet(k) /\ " " \notin ToSet(v) /\ "]" \notin ToSet(v)

\* What the caller expects back from a bag: every property but OrigFntl,
\* and the version argument when the bag has no (or an empty) version.
Expected(md, version) ==
    LET m == [k \in DOMAIN md \ {OrigFntl} |-> md[k]]
    IN  IF (VersionObjMD \notin DOMAIN m \/ m[VersionObjMD] = <<>>) /\ version # <<>>
        THEN (VersionObjMD :> version) @@ m ELSE m

\* The walk may skip a directory DirHasOrIsPrefix rejects: no object below
\* it, at any depth, has the prefix, so skipping loses nothing.
SkipDirSound ==
    input.kind = "walk" /\ ~DirHasOrIsPrefix(input.dir, input.prefix)
    => \A n \in Names : ~ObjHasPrefix(input.dir \o <<"/">> \o n, input.prefix)

\* CustomMD2S then S2CustomMD gives back the bag without OrigFntl, plus the
\* entry's version when the bag lacks one, whatever order the map yields
\* the non-standard keys in; a bag with nothing to format is left out, as
\* S2CustomMD returns before the version fill on "[]".
RoundTrip ==
    input.kind = "md" /\ DOMAIN input.md \ {OrigFntl} # {}
      /\ (\A k \in DOMAIN input.md : Delimited(k, input.md[k]))
    => \A s \in CustomMD2S(input.md) :
          S2CustomMD(s, input.version) = Expected(input.md, input.version)

\* CustomProps2S then S2CustomMD gives the bag of the pairs, a later pair of
\* the same name overriding an earlier one.
PropsRoundTrip ==
    LET ps == input.nvs IN
    input.kind = "props" /\ (\A p \in DOMAIN ps : Delimited(ps[p][1], ps[p][2]))
    => S2CustomMD(CustomProps2S(ps), <<>>) =
         [k \in {ps[p][1] : p \in DOMAIN ps} |->
            ps[Max({p \in DOMAIN ps : ps[p][1] = k})][2]]

\* S2CustomVal searches the name anywhere in the string; when no name
\* occurs inside a value or inside another name it agrees with S2CustomMD
\* on every name, present or not.
ValAgrees ==
    LET md == input.md IN
    input.kind = "md"
      /\ (\A k \in DOMAIN md : Delimited(k, md[k]))
      /\ (\A n \in Keys, k \in DOMAIN md : IndexStr(md[k], n) < 0 /\ (k # n => IndexStr(k, n) < 0))
    => \A s \in CustomMD2S(md), n \in Keys :
          LET parsed == S2CustomMD(s, <<>>)
          IN  S2CustomVal(s, n) = IF n \in DOMAIN parsed THEN parsed[n] ELSE <<>>

=============================================================================
