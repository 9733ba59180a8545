------------------------------ MODULE ArchiveMime ------------------------------
(***************************************************************************)
(* How an archive's format is named (src/cmn/archive/mime.go):            *)
(*  - normalize maps a user-given MIME ("application/x-tar", "tar.gz") to *)
(*    one of FileExtensions by substring; since "tar" is inside "tar.gz"  *)
(*    and "tar.lz4", those two are tested before the loop;                *)
(*  - byExt takes the extension off a file name by suffix;                *)
(*  - Mime is what reading an archive uses; Strict is what creating one   *)
(*    uses: a given MIME must normalize, and must equal the extension.    *)
(*                                                                         *)
(* A string is a sequence of words: the names of the formats, the dot, and *)
(* one other word.  Every extension begins and ends on a word boundary,   *)
(* so substring and suffix tests over words give what they give over      *)
(* bytes.  A behaviour is one call with one input.                        *)
(***************************************************************************)
EXTENDS Naturals, Sequences, SequencesExt

CONSTANTS
    Words,     \* the words strings are made of
    MaxWords   \* the longest MIME, and part of a name after its stem, in words

ASSUME {".", "tar", "tgz", "zip", "gz", "lz4"} \subseteq Words

VARIABLE input

Strs == UNION {[1..n -> Words] : n \in 0..MaxWords}

-----------------------------------------------------------------------------
(* Go string primitives.                                                   *)

\* strings.Contains(s, t)
StrContains(s, t) == \E i \in 0..Len(s) : IsPrefix(t, SubSeq(s, i + 1, Len(s)))

\* strings.HasSuffix(s, t)
HasSuffix(s, t) == IsSuffix(t, s)

-----------------------------------------------------------------------------
ExtTar    == <<".", "tar">>
ExtTgz    == <<".", "tgz">>
ExtTarGz  == <<".", "tar", ".", "gz">>
ExtZip    == <<".", "zip">>
ExtTarLz4 == <<".", "tar", ".", "lz4">>

FileExtensions == <<ExtTar, ExtTgz, ExtTarGz, ExtZip, ExtTarLz4>>

\* Every short string, and every extension however long.  A MIME argument,
\* empty or not, and a file name: a stem and one of those after it.
Args == Strs \cup ToSet(FileExtensions)
MimeInputs == [kind : {"mime"}, mime : Args, file : {<<"x">> \o s : s \in Args}]

\* ext[1:]: the extension without its dot.
Bare(ext) == Tail(ext)

\* The first of FileExtensions that is in S, or <<>> (the "" of Go).
FirstExt(S) ==
    LET i == SelectInSeq(FileExtensions, LAMBDA x : x \in S)
    IN  IF i = 0 THEN <<>> ELSE FileExtensions[i]

\* A (string, error) result; "ok" is a nil error.
Ok(m) == [m |-> m, err |-> "ok"]

\* The generic loop of normalize: the first extension the MIME contains.
NormalizeLoop(mime) ==
    LET e == FirstExt({x \in ToSet(FileExtensions) : StrContains(mime, Bare(x))})
    IN  IF e = <<>> THEN [m |-> <<>>, err |-> "unknown_mime"] ELSE Ok(e)

\* A plausible edit of normalize: "tgz" folded into ExtTarGz, the two being
\* one format to EqExt.
NormalizeTgzAsTarGz(mime) ==
    IF StrContains(mime, Bare(ExtTarGz)) \/ StrContains(mime, Bare(ExtTgz)) THEN Ok(ExtTarGz)
    ELSE IF StrContains(mime, Bare(ExtTarLz4)) THEN Ok(ExtTarLz4)
    ELSE NormalizeLoop(mime)

\* A plausible edit of normalize: ExtTarLz4 added to FileExtensions but not
\* given its case in front of the loop.
NormalizeNoLz4(mime) ==
    IF StrContains(mime, Bare(ExtTarGz)) THEN Ok(ExtTarGz) ELSE NormalizeLoop(mime)

normalize(mime) ==
    IF StrContains(mime, Bare(ExtTarGz)) THEN Ok(ExtTarGz)
    ELSE IF StrContains(mime, Bare(ExtTarLz4)) THEN Ok(ExtTarLz4)
    ELSE NormalizeLoop(mime)

byExt(filename) ==
    LET e == FirstExt({x \in ToSet(FileExtensions) : HasSuffix(filename, x)})
    IN  IF e = <<>> THEN [m |-> <<>>, err |-> "unknown_ext"] ELSE Ok(e)

Mime(mime, filename) == IF mime # <<>> THEN normalize(mime) ELSE byExt(filename)

\* The MIME is normalized only to be validated: it is then compared, as
\* given, with the extension of the name.
Strict(mime, filename) ==
    LET b == byExt(filename) IN
    IF mime # <<>> /\ normalize(mime).err # "ok" THEN normalize(mime)
    ELSE IF b.err # "ok" \/ mime = <<>> THEN b
    ELSE IF mime # b.m THEN [m |-> b.m, err |-> "mismatch"]
    ELSE b

-----------------------------------------------------------------------------
Init == input \in MimeInputs

Next == UNCHANGED input

Spec == Init /\ [][Next]_input

-----------------------------------------------------------------------------
(* Properties                                                              *)

\* An archive Strict lets the caller create, with a MIME or without, is read
\* back by Mime, with the same MIME and name, as the same format: normalize
\* maps every extension to itself, which needs "tar.gz" and "tar.lz4" to be
\* tested before "tar".
StrictAgreesWithMime ==
    input.kind = "mime" /\ Strict(input.mime, input.file).err = "ok"
    => Mime(input.mime, input.file) = Strict(input.mime, input.file)

\* normalize picks the most specific format the MIME names: no other
\* extension whose name contains the chosen one's also occurs in the MIME.
NormalizeMostSpecific ==
    LET r == normalize(input.mime) IN
    input.kind = "mime" /\ r.err = "ok"
    => \A x \in ToSet(FileExtensions) :
          (StrContains(input.mime, Bare(x)) /\ StrContains(Bare(x), Bare(r.m))) => x = r.m

=============================================================================
