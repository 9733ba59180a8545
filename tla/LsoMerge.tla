------------------------------- MODULE LsoMerge -------------------------------
(***************************************************************************)
(* The proxy-side merge of list-objects pages (src/cmn/objlist_utils.go):  *)
(* MergeLso, with SortLso, DedupLso and appSorted.                         *)
(*                                                                         *)
(* MergeLso is sequential code; its steps are actions only where the code  *)
(* loops over state whose order or length matters:                        *)
(*  - the loop that grows cap(resList.Entries) until it can hold every     *)
(*    merged entry, one iteration per step;                                *)
(*  - the loop over the merge map tmp, whose iteration order Go leaves     *)
(*    unspecified: each step inserts any not yet inserted entry with       *)
(*    appSorted.                                                           *)
(* Collecting the entries into tmp, and the one-list path, are single      *)
(* steps: they are deterministic functions of the input.                   *)
(*                                                                         *)
(* An entry keeps the fields the merge reads or writes: its name, whether  *)
(* it is a directory (names in DirNames), its status, the present flag,    *)
(* version and location.  Names are integers, ordered as the strings they  *)
(* stand for.  Flags other than present and dir, and the continuation      *)
(* token (a max over the pages), are left out.                             *)
(***************************************************************************)
EXTENDS Integers, Sequences, SequencesExt, FiniteSets, Functions

CONSTANTS
    Names,      \* object names, as integers in lexicographic order
    DirNames,   \* names that are directories (apc.EntryIsDir)
    Statuses,   \* values of the 4-bit entry status
    Vers,       \* versions; "" is none
    Locs,       \* location hints; "" is none
    MaxLists,   \* most pages merged at once (targets answering)
    MaxSizes,   \* values of maxSize; 0 means no limit
    ExtraCap,   \* cap(lists[0].Entries) - len(...) of a received page
    MaxPage,    \* most entries in a page
    NoEnt       \* absent key of the map tmp

ASSUME Names \subseteq Nat /\ DirNames \subseteq Names
ASSUME "" \in Vers /\ "" \in Locs
ASSUME MaxLists \in Nat \ {0, 1} /\ MaxSizes \subseteq Nat /\ ExtraCap \in Nat

Entry == [name : Names, status : Statuses, present : BOOLEAN, ver : Vers, loc : Locs]

IsDir(e) == e.name \in DirNames

VARIABLES
    lists,    \* the pages received from the targets
    maxSize,  \* the maxSize argument
    cap0,     \* cap(lists[0].Entries)
    pc,       \* "start", "grow", "insert", or "done" (returned)
    tmp,      \* the merge map: name -> entry (NoEnt if absent)
    ents,     \* resList.Entries
    capE,     \* cap(resList.Entries)
    left      \* keys of tmp the insertion loop has not reached yet

vars == <<lists, maxSize, cap0, pc, tmp, ents, capE, left>>

-----------------------------------------------------------------------------
(* Helpers                                                                 *)

\* cos.Left: the first argument unless it is empty.
Left(a, b) == IF a # "" THEN a ELSE b

\* LsoEnt.less: directories first, then by name, then by status.
Less(a, b) ==
    IF IsDir(a) THEN IsDir(b) => a.name < b.name
    ELSE ~IsDir(b) /\ IF a.name = b.name THEN a.status < b.status
                               ELSE a.name < b.name

\* The order of names Less induces.
NameLess(m, n) == Less([name |-> m, status |-> 0], [name |-> n, status |-> 0])

\* SortLso: sort.Slice is not stable, so entries Less cannot tell apart
\* may end in any order.
SortLso(s) ==
    { [i \in DOMAIN s |-> s[p[i]]] : p \in
        {q \in Bijection(DOMAIN s, DOMAIN s) :
            \A i \in 1..Len(s) - 1 : ~Less(s[q[i + 1]], s[q[i]])} }

\* DedupLso: drop an entry whose name equals the previous kept one; stop
\* once maxSize entries are kept.
RECURSIVE Dedup(_, _, _)
Dedup(s, out, max) ==
    IF s = <<>> \/ (max > 0 /\ Len(out) = max) THEN out
    ELSE IF out # <<>> /\ Last(out).name = Head(s).name
         THEN Dedup(Tail(s), out, max)
         ELSE Dedup(Tail(s), Append(out, Head(s)), max)

DedupLso(s, max) == Dedup(s, <<>>, max)

\* Merge one entry of a page into tmp: a present entry replaces a
\* non-present one (keeping the old version if it has none); otherwise the
\* kept entry takes the location and version it lacks.
AddEntryFirstWins(t, en) ==
    IF t[en.name] = NoEnt THEN [t EXCEPT ![en.name] = en]
    ELSE [t EXCEPT ![en.name].loc = Left(@, en.loc), ![en.name].ver = Left(@, en.ver)]
AddEntryNoVerFill(t, en) ==
    LET old == t[en.name] IN
    IF old = NoEnt THEN [t EXCEPT ![en.name] = en]
    ELSE IF ~old.present /\ en.present THEN [t EXCEPT ![en.name] = en]
    ELSE [t EXCEPT ![en.name].loc = Left(@, en.loc), ![en.name].ver = Left(@, en.ver)]
AddEntry(t, en) ==
    LET old == t[en.name] IN
    IF old = NoEnt THEN [t EXCEPT ![en.name] = en]
    ELSE IF ~old.present /\ en.present
         THEN [t EXCEPT ![en.name] = [en EXCEPT !.ver = Left(en.ver, old.ver)]]
    ELSE [t EXCEPT ![en.name].loc = Left(@, en.loc), ![en.name].ver = Left(@, en.ver)]

Keys(t) == {n \in Names : t[n] # NoEnt}

\* appSorted skips the entries ne sorts after: directories when ne is a
\* file, and entries of its own kind with a smaller name.
Skip(eni, ne) == IF IsDir(eni) # IsDir(ne) THEN IsDir(eni) ELSE ne.name > eni.name

NilEntry == [name |-> 0, status |-> 0, present |-> FALSE, ver |-> "", loc |-> ""]

\* Mutations of appSorted, each a plausible slip in its index handling.
AppSortedNoSwap(s, ne) ==
    LET I == {i \in DOMAIN s : ~Skip(s[i], ne)} IN
    IF I = {} \/ (s[Min(I)].name # ne.name /\ Min(I) = Len(s)) THEN Append(s, ne)
    ELSE IF s[Min(I)].name = ne.name
         THEN IF ne.status < s[Min(I)].status THEN [s EXCEPT ![Min(I)] = ne] ELSE s
         ELSE InsertAt(s, Min(I), ne)
AppSortedNoShift(s, ne) ==
    LET I == {i \in DOMAIN s : ~Skip(s[i], ne)} IN
    IF I = {} THEN Append(s, ne)
    ELSE IF s[Min(I)].name = ne.name
         THEN IF ne.status < s[Min(I)].status THEN [s EXCEPT ![Min(I)] = ne] ELSE s
         ELSE Append([s EXCEPT ![Min(I)] = ne], NilEntry)

\* appSorted: insert ne before the first entry it does not sort after; an
\* entry of the same name is replaced only by a lower status.  (The
\* append-and-swap for the last position is the same insertion.)
AppSorted(s, ne) ==
    LET I == {i \in DOMAIN s : ~Skip(s[i], ne)} IN
    IF I = {} THEN Append(s, ne)
    ELSE IF s[Min(I)].name = ne.name
         THEN IF ne.status < s[Min(I)].status THEN [s EXCEPT ![Min(I)] = ne] ELSE s
         ELSE InsertAt(s, Min(I), ne)

\* The capacity append gives a full slice of pointers (runtime.growslice):
\* double it, or the needed length if more, rounded up to a size class.
SizeClassCaps == {1, 2, 3, 4, 6, 8, 10, 12, 14, 16}
GrowCap(old, need) ==
    IF need <= old THEN old
    ELSE Min({c \in SizeClassCaps : c >= IF need > 2 * old THEN need ELSE 2 * old})

-----------------------------------------------------------------------------
(* Initial states: up to MaxLists pages, each sorted as a target returns   *)
(* it (entries of one name may repeat, lowest status first).               *)

Pages == {s \in UNION {[1..k -> Entry] : k \in 0..MaxPage} :
            \A i \in 1..Len(s) - 1 : ~Less(s[i + 1], s[i])}

Init ==
    /\ maxSize \in MaxSizes
    /\ lists \in UNION {[1..k -> Pages] : k \in 0..MaxLists}
    /\ cap0 \in IF lists = <<>> THEN {0} ELSE Len(lists[1])..(Len(lists[1]) + ExtraCap)
    /\ pc = "start"
    /\ tmp = [n \in Names |-> NoEnt]
    /\ ents = <<>>
    /\ capE = 0
    /\ left = {}

-----------------------------------------------------------------------------
(* MergeLso with no pages returns an empty result.                         *)
NoLists ==
    /\ pc = "start"
    /\ lists = <<>>
    /\ pc' = "done"
    /\ UNCHANGED <<lists, maxSize, cap0, tmp, ents, capE, left>>

(* One page: SortLso, then DedupLso with maxSize.                          *)
MergeOne ==
    /\ pc = "start"
    /\ Len(lists) = 1
    /\ ents' \in {DedupLso(r, maxSize) : r \in SortLso(lists[1])}
    /\ pc' = "done"
    /\ UNCHANGED <<lists, maxSize, cap0, tmp, capE, left>>

(* Several pages: every entry of every page, in order, is merged into tmp; *)
(* resList is lists[0].                                                    *)
Collect ==
    /\ pc = "start"
    /\ Len(lists) >= 2
    /\ tmp' = FoldLeft(AddEntry, [n \in Names |-> NoEnt], FlattenSeq(lists))
    /\ ents' = lists[1]
    /\ capE' = cap0
    /\ pc' = "grow"
    /\ UNCHANGED <<lists, maxSize, cap0, left>>

(* One iteration of "grow cap": append the first l entries to themselves,  *)
(* l = min(len, len(tmp) - cap).  With len 0 the step changes nothing.     *)
Grow ==
    LET l == Min({Len(ents), Cardinality(Keys(tmp)) - capE}) IN
    /\ pc = "grow"
    /\ capE < Cardinality(Keys(tmp))
    /\ ents' = ents \o SubSeq(ents, 1, l)
    /\ capE' = GrowCap(capE, Len(ents) + l)
    /\ UNCHANGED <<lists, maxSize, cap0, pc, tmp, left>>

(* The capacity suffices: clear the entries and reset the length to 0.     *)
Clear ==
    /\ pc = "grow"
    /\ capE >= Cardinality(Keys(tmp))
    /\ ents' = <<>>
    /\ left' = Keys(tmp)
    /\ pc' = "insert"
    /\ UNCHANGED <<lists, maxSize, cap0, tmp, capE>>

(* for _, entry := range tmp: appSorted, in the map's unspecified order.   *)
Insert(n) ==
    /\ pc = "insert"
    /\ n \in left
    /\ ents' = AppSorted(ents, tmp[n])
    /\ capE' = GrowCap(capE, Len(ents'))
    /\ left' = left \ {n}
    /\ UNCHANGED <<lists, maxSize, cap0, pc, tmp>>

(* After the loop: truncate to maxSize and return.                         *)
Truncate ==
    /\ pc = "insert"
    /\ left = {}
    /\ ents' = IF maxSize > 0 /\ Len(ents) > maxSize THEN SubSeq(ents, 1, maxSize) ELSE ents
    /\ pc' = "done"
    /\ UNCHANGED <<lists, maxSize, cap0, tmp, capE, left>>

Next ==
    \/ NoLists \/ MergeOne \/ Collect \/ Grow \/ Clear \/ Truncate
    \/ \E n \in Names : Insert(n)

\* MergeLso runs on one goroutine to its return.
Spec == Init /\ [][Next]_vars /\ WF_vars(Next)

-----------------------------------------------------------------------------
(* Properties                                                              *)

InputNames == UNION {{e.name : e \in Range(lists[k])} : k \in DOMAIN lists}
InputsOf(n) ==
    UNION {{e \in Range(lists[k]) : e.name = n} : k \in DOMAIN lists}

\* The reference result: every input name once, directories first, sorted,
\* cut to maxSize.
Expected ==
    LET s == SetToSortSeq(InputNames, NameLess)
    IN  IF maxSize > 0 /\ Len(s) > maxSize THEN SubSeq(s, 1, maxSize) ELSE s

\* resList.Entries holds entries, never a placeholder left by appSorted's
\* shift, and the map holds each entry under its own name.
TypeOK ==
    /\ pc \in {"start", "grow", "insert", "done"}
    /\ ents \in Seq(Entry)
    /\ \A n \in Names : tmp[n] = NoEnt \/ (tmp[n] \in Entry /\ tmp[n].name = n)
    /\ capE \in Nat /\ left \subseteq Names

\* Whatever order the map tmp is iterated in, appSorted builds the merged
\* page: sorted with directories first, one entry per name, every name of
\* every page up to maxSize (the spec's listing-merge contract).
MergedInOrder ==
    pc = "done" => [i \in DOMAIN ents |-> ents[i].name] = Expected

\* When pages of several targets are merged, an entry is present exactly
\* when some target has the object present.
PresentPreferred ==
    (pc = "done" /\ Len(lists) >= 2) =>
        \A i \in DOMAIN ents :
            ents[i].present = (\E e \in InputsOf(ents[i].name) : e.present)

\* ... and a merged entry lacks a version only if every target's does.
VersionFilled ==
    (pc = "done" /\ Len(lists) >= 2) =>
        \A i \in DOMAIN ents :
            ents[i].ver = "" => \A e \in InputsOf(ents[i].name) : e.ver = ""

\* MergeLso returns.
Terminates == <>(pc = "done")

=============================================================================
