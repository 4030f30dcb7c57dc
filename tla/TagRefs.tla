------------------------------- MODULE TagRefs -------------------------------
(***************************************************************************)
(* What TagDb makes of the files of git (tag_db.cc): how ParsePack reads   *)
(* packed-refs, line by line, and how TagForCommit finds the tags of a     *)
(* commit among what is packed and what is loose.  The module TagDb has    *)
(* the same code over time, and takes from here that packed tags are the   *)
(* tags of the file.                                                       *)
(*                                                                         *)
(* References and objects are numbers, in the order of their names and of  *)
(* their ids; 0 is the empty name.  Other references than tags are Heads.  *)
(* A loose tag has an object for its target or, if it is symbolic, a tag.  *)
(***************************************************************************)
EXTENDS Integers, Sequences, FiniteSets, SequencesExt, FiniteSetsExt

CONSTANTS
    TagNames,          \* tags
    Nested,            \* those whose file is in a directory of refs/tags
    DirOf,             \* the first component of each of these, itself a name
    Heads,             \* other references
    Commits,           \* objects that are commits
    TagTarget,         \* the target of each object that is an annotated tag
    Wanted,            \* the commit that is looked for
    kMaxDerefCount,    \* 10
    MaxRefs            \* a bound of a run, on what is packed and loose

Objects == Commits \cup DOMAIN TagTarget

\* From any object, fewer than n + 1 tags lead to the commit.
EndsWithin(n) ==
    \E height \in [Objects -> 0..n] : \A o \in DOMAIN TagTarget : height[TagTarget[o]] < height[o]

\* An object holds the ids of others, which are hashes, and cannot lead to itself.

ASSUME TagRefsAssumption ==
    /\ TagNames \cup Heads \cup Objects \subseteq Nat \ {0}
    /\ IsFiniteSet(TagNames) /\ IsFiniteSet(Objects)
    /\ Commits \cap DOMAIN TagTarget = {} /\ EndsWithin(Cardinality(Objects))
    /\ Nested \subseteq TagNames /\ TagNames \cap Heads = {}
    /\ DirOf \in [Nested -> Nat \ (TagNames \cup {0})]
    /\ TagTarget \in [DOMAIN TagTarget -> Objects] /\ Wanted \in Commits
    /\ kMaxDerefCount \in Nat /\ MaxRefs \in Nat

VARIABLES
    phase,        \* "file", "parse", "threw", "parsed" or "found"
    first_line,   \* the first line: "header", "cut" (has no end), or "none"
    lines,        \* the references of the file
    ending,       \* how its lines end, and how the last one does
    nth,          \* the line ParsePack is at
    name2id_, id2name_,
    refs,         \* the loose tags there are
    res           \* what TagForCommit has found

refsVars == <<phase, first_line, lines, ending, nth, name2id_, id2name_, refs, res>>

Endings == {"whole", "no end", "short"}

RefsInit ==
    /\ phase = "file" /\ lines = << >> /\ nth = 1
    /\ first_line \in {"header", "cut", "none"}
    /\ ending \in [cr : BOOLEAN, last : Endings]
    /\ name2id_ = << >> /\ id2name_ = << >> /\ refs = << >> /\ res = 0

-----------------------------------------------------------------------------
\* packed-refs as git writes it: a reference and its object, and on a line of
\* its own the commit an annotated tag peels to.  "sorted" may be missing in
\* the header, so that the lines come in any order.

Peel[o \in Objects] == IF o \in Commits THEN o ELSE Peel[TagTarget[o]]

WriteLine(r, o) ==
    /\ phase = "file" /\ first_line # "cut" /\ Len(lines) < MaxRefs - 1
    /\ \A k \in DOMAIN lines : lines[k].ref # r
    /\ lines' = Append(lines, [ref |-> r, oid |-> o, peeled |-> o \notin Commits])
    /\ UNCHANGED <<phase, first_line, ending, nth, name2id_, id2name_, refs, res>>

-----------------------------------------------------------------------------
\* ParsePack

\* Without a header, or if it is all there is, nothing is resolved.
ParseHeader ==
    /\ phase = "file" /\ phase' = IF first_line = "header" THEN "parse" ELSE "parsed"
    /\ UNCHANGED <<first_line, lines, ending, nth, name2id_, id2name_, refs, res>>

IsLast(k) == k = Len(lines)

\* ParseOid and strchr: each id has its 40 digits, and the line of the
\* reference its end.  Only the last line may lack it, if it is "^...": then
\* p == e.  With a carriage return it lacks but the line feed.
Readable(k) ==
    \/ ~IsLast(k) \/ ending.last = "whole"
    \/ ending.last = "no end" /\ lines[k].peeled /\ ~ending.cr

Throws ==
    /\ phase = "parse" /\ nth <= Len(lines) /\ ~Readable(nth)
    /\ phase' = "threw" /\ name2id_' = << >> /\ id2name_' = << >>
    /\ UNCHANGED <<first_line, lines, ending, nth, refs, res>>

StripTag(r) == r \in TagNames

\* A line, together with the "^" that may follow.
ParseLine ==
    /\ phase = "parse" /\ nth <= Len(lines) /\ Readable(nth)
    /\ LET l == lines[nth]
           known == [name |-> l.ref, id |-> IF l.peeled THEN Peel[l.oid] ELSE l.oid]
       IN  /\ name2id_' = IF StripTag(l.ref) THEN Append(name2id_, known) ELSE name2id_
           /\ id2name_' = name2id_'
    /\ nth' = nth + 1
    /\ UNCHANGED <<phase, first_line, lines, ending, refs, res>>

ByName(s, t) == s.name < t.name
ById(s, t) == s.id < t.id

\* std::sort leaves open the order of different tags with the same id.
ParseEnd ==
    /\ phase = "parse" /\ nth > Len(lines)
    /\ phase' = "parsed"
    /\ name2id_' \in {s \in SetToSeqs(Range(name2id_)) :
                          \A j, k \in DOMAIN s : j < k => ~ByName(s[k], s[j])}
    /\ id2name_' \in {s \in SetToSeqs(Range(id2name_)) :
                          \A j, k \in DOMAIN s : j < k => ~ById(s[k], s[j])}
    /\ UNCHANGED <<first_line, lines, ending, nth, refs, res>>

-----------------------------------------------------------------------------
\* TagForCommit

\* ListDir shows what is directly in refs/tags.
loose_tags_(l) == {IF n \in Nested THEN DirOf[n] ELSE n : n \in DOMAIN l}
IsLooseTag(l, n) == n \in loose_tags_(l)

\* git_refdb_lookup finds loose tags only: main tells libgit2 not to read the
\* packed ones, and what an object peels to is not in the file of a loose one.
RefLookup(l, n) == [name |-> n, target |-> l[n].target, symbolic |-> l[n].symbolic]

\* What a symbolic reference is replaced by, and how often, at most.
RefName(ref) == ref.name
Deref(l, ref) ==
    LET to[i \in 0..kMaxDerefCount] ==
          IF i = 0 THEN ref
          ELSE IF to[i - 1].symbolic THEN RefLookup(l, RefName(to[i - 1])) ELSE to[i - 1]
    IN  to[kMaxDerefCount]

\* The objects that follow o, until there is none or they are too many.
PointsTo_Once(o) == o \in DOMAIN TagTarget /\ TagTarget[o] = Wanted
PointsTo(o) ==
    LET at_[i \in 0..kMaxDerefCount] ==
          IF i = 0 THEN o
          ELSE IF at_[i - 1] \in DOMAIN TagTarget THEN TagTarget[at_[i - 1]] ELSE 0
    IN  \E i \in 1..kMaxDerefCount : at_[i] = Wanted

TagHasTarget(l, n) ==
    /\ n \in DOMAIN l
    /\ LET r == Deref(l, RefLookup(l, n))
       IN  ~r.symbolic /\ (r.target = Wanted \/ PointsTo(r.target))

LooseFound(l) == Max({0} \cup {n \in loose_tags_(l) : TagHasTarget(l, n)})

\* While id2name_ is being sorted: the last of name2id_ that fits.
LastByName(l) ==
    LET fits == {k \in DOMAIN name2id_ : name2id_[k].id = Wanted /\ ~IsLooseTag(l, name2id_[k].name)}
    IN  IF fits = {} THEN 0 ELSE name2id_[Max(fits)].name

\* Then equal_range: from the first id that is not below the commit's to the
\* first one above it.
AllById(l) ==
    LET first == 1 + Cardinality({k \in DOMAIN id2name_ : id2name_[k].id < Wanted})
        last == Cardinality({k \in DOMAIN id2name_ : id2name_[k].id <= Wanted})
    IN  Max({0} \cup {id2name_[k].name :
                          k \in {k \in first..last : ~IsLooseTag(l, id2name_[k].name)}})

TagForCommit(l, id2name_dirty_) ==
    /\ phase = "parsed" /\ phase' = "found" /\ refs' = l
    /\ res' = Max({LooseFound(l), IF id2name_dirty_ THEN LastByName(l) ELSE AllById(l)})
    /\ UNCHANGED <<first_line, lines, ending, nth, name2id_, id2name_>>

LooseFiles ==
    [symbolic : {FALSE}, target : Objects] \cup [symbolic : {TRUE}, target : TagNames]
LooseRefs ==
    UNION {[S -> LooseFiles] : S \in {T \in SUBSET TagNames : Cardinality(T) + Len(lines) <= MaxRefs}}

RefsNext ==
    \/ \E r \in TagNames \cup Heads, o \in Objects : WriteLine(r, o)
    \/ ParseHeader \/ Throws \/ ParseLine \/ ParseEnd
    \/ /\ phase = "parsed"
       /\ \E l \in LooseRefs, id2name_dirty_ \in BOOLEAN : TagForCommit(l, id2name_dirty_)

RefsSpec == RefsInit /\ [][RefsNext]_refsVars

-----------------------------------------------------------------------------
\* What git says: the commit a tag leads to, through symbolic references that
\* do not go round in circles.
GitTags(l) == DOMAIN l \cup ({lines[k].ref : k \in DOMAIN lines} \ Heads)
Leads(l, n) ==
    LET to[i \in 0..Cardinality(TagNames)] ==
          IF i = 0 THEN n
          ELSE IF to[i - 1] \in DOMAIN l /\ l[to[i - 1]].symbolic THEN l[to[i - 1]].target ELSE to[i - 1]
        t == to[Cardinality(TagNames)]
    IN  IF t \in DOMAIN l THEN ~l[t].symbolic /\ Peel[l[t].target] = Wanted
        ELSE \E k \in DOMAIN lines : lines[k].ref = t /\ Peel[lines[k].oid] = Wanted
LastTag == Max({0} \cup {n \in GitTags(refs) : Leads(refs, n)})

(* packed-refs is understood: unless its last line is cut off, or it has   *)
(* no header, each of its tags is known once, in the order of names, by    *)
(* the object it peels to.                                                 *)
PackUnderstood ==
    /\ phase = "threw" => ending.last # "whole"
    /\ phase \in {"parsed", "found"} =>
          /\ Range(name2id_) = IF first_line # "header" THEN {} ELSE
                {[name |-> l.ref, id |-> Peel[l.oid]] : l \in {l \in Range(lines) : l.ref \in TagNames}}
          /\ \A j, k \in DOMAIN name2id_ : j < k => name2id_[j].name < name2id_[k].name

(* And then, if no loose tag is symbolic or in a directory of its own, and *)
(* no object peels to a commit by more than kMaxDerefCount tags, the tag   *)
(* that is found is the last one of the commit, sorted by id or not,       *)
(* through annotated tags of tags, and loose tags hide packed ones.        *)
Plain ==
    /\ first_line = "header" /\ EndsWithin(kMaxDerefCount)
    /\ \A n \in DOMAIN refs : n \notin Nested /\ ~refs[n].symbolic
TagsExact == PackUnderstood /\ (phase = "found" /\ Plain => res = LastTag)
=============================================================================
