------------------------------ MODULE MCLsoStrings ------------------------------
(* Two standard keys (ETag, then the version), the internal key, and two   *)
(* non-standard keys, so that Go's map order has two keys to permute.       *)
(* The values cover the empty value, a plain one, one that spells a key    *)
(* name, and the two delimiters a value may not carry.  The walk checks    *)
(* every pair of short paths.  The archive-format helpers of mime.go take *)
(* their inputs from the same variable: strings of up to three words, and *)
(* every extension, for the MIME and after the stem of the name.          *)
EXTENDS LsoStrings

MCWords == {".", "tar", "tgz", "zip", "gz", "lz4", "x"}

AM == INSTANCE ArchiveMime WITH Words <- MCWords, MaxWords <- 3

MCETag    == <<"e">>
MCVersion == <<"v">>
MCOrig    == <<"o">>
MCStd     == <<MCETag, MCVersion>>
MCKeys    == {MCETag, MCVersion, MCOrig, <<"x">>, <<"y">>}
MCVals    == {<<>>, <<"1">>, <<"e">>, <<" ">>, <<"]">>}
MCVersions == {<<>>, <<"2">>}

\* Paths of up to three characters over a, b and the separator; object
\* names below a directory of up to two.
MCStrings(n) == UNION {[1..k -> {"a", "b", "/"}] : k \in 1..n}
MCPaths == MCStrings(3)
MCNames == MCStrings(2)

\* One call of a list-objects string helper or of the archive-format helpers.
HelpersSpec == input \in Inputs \cup AM!MimeInputs /\ [][Next]_input

\* What Strict accepts, Mime reads back as the same format (ArchiveMime).
StrictAgreesWithMime == AM!StrictAgreesWithMime

\* normalize picks the most specific format a MIME names (ArchiveMime).
NormalizeMostSpecific == AM!NormalizeMostSpecific

=============================================================================
