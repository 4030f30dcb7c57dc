------------------------------ MODULE ScanProofs ------------------------------
(***************************************************************************)
(* Proofs about the scan for dirty candidates: what DirScan reports, for   *)
(* any names, any index, any file system and any changes at any moment;    *)
(* that MtimeCheck enables the untracked cache only where it may be used   *)
(* and leaves no directory behind, for any number of daemons; that Collect *)
(* returns what all tasks have found, for any number of them; and that     *)
(* ListDir lists and sorts a directory right, byte by byte.                *)
(***************************************************************************)
EXTENDS DirScan, MtimeCheck, Collect, Listing, FiniteSetTheorems, WellFoundedInduction, TLAPS

Full == shows = {"file", "dir"}

\* What the listing said of a name is still so: the name has not changed since
\* the request began, or nothing has changed that a full listing would show.
Known(n) == n \in steady \/ (Full /\ st = stamp)

\* A name that is not in the index and that a request reports.
Untracked(n) ==
    /\ n \notin FileNames \cup DirNames /\ disk[n] # "none"
    /\ n = DotGit => disk[n] # "dir"

Bad(n) == disk[n] = "none" \/ IsModified(disk[n])

DirTyped ==
    /\ shows \in SUBSET {"file", "dir"}
    /\ disk \in [Names -> Kinds]
    /\ changes \in Nat /\ stamp \in Nat /\ stamp <= changes
    /\ st = NoStat \/ (st \in Nat /\ st <= stamp)
    /\ untracked_cache_ \in {"unknown", "true", "false"}
    /\ untracked_cache_ = "true" => Full
    /\ opts \in [include_untracked : BOOLEAN, untracked_cache : {"unknown", "true", "false"}]
    /\ opts.untracked_cache = "true" => Full
    /\ at_ \in {"idle", "open", "stat", "list", "merge", "files", "done"}
    /\ at_ \in {"stat", "list", "merge"} => opts.include_untracked
    /\ unread \subseteq Names /\ list \subseteq Names /\ listed_dirs \subseteq Names
    /\ file \subseteq FileNames /\ subdir \subseteq DirNames
    /\ found \subseteq Names \cup {Self} /\ unmatched \subseteq Names \cup {Self}
    /\ steady \subseteq Names /\ failed \in BOOLEAN

\* The directory itself is a candidate if it could not be read, and the next
\* request does not take it over from the cache.
SelfRight ==
    /\ Self \in found <=> failed
    /\ failed => at_ = "done"
    /\ Self \in unmatched => st = NoStat \/ at_ = "list"

\* The cache, while no listing is under way.
CacheRight ==
    at_ \notin {"list", "merge"} /\ Full /\ st = stamp =>
        unmatched = {n \in Names : Untracked(n)}

\* Nothing is found before the walk begins, and nothing read before the listing.
Before == at_ \in {"idle", "open", "stat", "list"} => found = {}
Whole ==
    /\ at_ \in {"open", "stat", "list"} => file = FileNames /\ subdir = DirNames
    /\ at_ \in {"open", "stat"} => unread = Names /\ list = {} /\ listed_dirs = {}

Listed ==
    at_ = "list" =>
        /\ list \cap unread = {} /\ listed_dirs \cap unread = {}
        /\ \A n \in Names \ unread : Known(n) =>
              (n \in list <=> disk[n] # "none") /\ (n \in listed_dirs <=> disk[n] = "dir")

\* The merge: what has been walked past is no longer in the listing, and for
\* what is known the candidates are right so far.
Merged ==
    at_ = "merge" =>
        /\ list \cap FileNames \subseteq file /\ list \cap DirNames \subseteq subdir \cup FileNames
        /\ \A n \in Names : Known(n) =>
              /\ n \in listed_dirs <=> disk[n] = "dir"
              /\ n \in list => disk[n] # "none"
              /\ n \in file => (n \in list <=> disk[n] # "none")
              /\ n \notin FileNames => (n \in unmatched <=> n \notin list /\ Untracked(n))
        /\ \A n \in Names : n \in FileNames => n \notin unmatched
        /\ \A n \in Names \ FileNames : n \in found <=> n \in unmatched

FilesRight ==
    at_ \in {"files", "merge"} =>
        \A n \in steady \cap FileNames : n \in found <=> n \notin file /\ Bad(n)

OthersRight ==
    at_ = "files" => \A n \in steady \ FileNames : n \in found <=> Differs(n)

DirIInv ==
    /\ DirTyped /\ SelfRight /\ CacheRight /\ Before /\ Whole /\ Listed /\ Merged
    /\ FilesRight /\ OthersRight /\ CandidatesExact

LEMMA OpenFailsKept ==
  ASSUME DirIInv, OpenFails \/ FstatFails \/ ListDirFails
  PROVE  DirIInv'
<1> USE DirAssumption DEF DirIInv, outside, cache, merge, OpenFails, FstatFails, ListDirFails, AddUnreadable
<1>1. DirTyped'
  BY ZenonT(20) DEF DirTyped, Full, Kinds
<1>2. SelfRight'
  BY DEF DirTyped, SelfRight, CacheRight
<1>3. CacheRight'
  BY DEF DirTyped, SelfRight, CacheRight, Listed, Merged, Full, Untracked, Known
<1>4. (Before /\ Whole)'
  BY DEF DirTyped, Before, Whole
<1>5. Listed'
  BY DEF DirTyped, Listed, Whole, Known, Full
<1>6. Merged'
  BY DEF DirTyped, Merged, Listed, Known, Full, Untracked, Before, Whole
<1>7. FilesRight'
  BY DEF DirTyped, FilesRight, Bad, Known, Merged, Before, Whole, CacheRight, Full, Untracked
<1>8. OthersRight'
  BY DEF DirTyped, OthersRight, Differs, CacheRight, Before, Whole, Untracked, Full
<1>9. CandidatesExact'
  BY DEF DirTyped, CandidatesExact, SelfRight, FilesRight, OthersRight, Merged, Differs, Bad, Untracked, Known
<1>10. QED
  BY <1>1, <1>2, <1>3, <1>4, <1>5, <1>6, <1>7, <1>8, <1>9 DEF DirIInv

LEMMA BeginKept ==
  ASSUME DirIInv, NEW include \in BOOLEAN, Begin(include)
  PROVE  DirIInv'
<1> USE DirAssumption DEF DirIInv, outside, cache, merge, Begin
<1>1. DirTyped'
  BY DEF DirTyped, Full, Kinds
<1>2. SelfRight'
  BY DEF DirTyped, SelfRight, CacheRight
<1>3. CacheRight'
  BY DEF DirTyped, SelfRight, CacheRight, Listed, Merged, Full, Untracked, Known
<1>4. (Before /\ Whole)'
  BY DEF DirTyped, Before, Whole
<1>5. Listed'
  BY DEF DirTyped, Listed, Whole, Known, Full
<1>6. Merged'
  BY DEF DirTyped, Merged, Listed, Known, Full, Untracked, Before, Whole
<1>7. FilesRight'
  BY DEF DirTyped, FilesRight, Bad, Known, Merged, Before, Whole, CacheRight, Full, Untracked
<1>8. OthersRight'
  BY DEF DirTyped, OthersRight, Differs, CacheRight, Before, Whole, Untracked, Full
<1>9. CandidatesExact'
  BY DEF DirTyped, CandidatesExact, SelfRight, FilesRight, OthersRight, Merged, Differs, Bad, Untracked, Known
<1>10. QED
  BY <1>1, <1>2, <1>3, <1>4, <1>5, <1>6, <1>7, <1>8, <1>9 DEF DirIInv

LEMMA OpenKept ==
  ASSUME DirIInv, Open
  PROVE  DirIInv'
<1> USE DirAssumption DEF DirIInv, outside, cache, merge, Open
<1>1. DirTyped'
  BY DEF DirTyped, Full, Kinds
<1>2. SelfRight'
  BY DEF DirTyped, SelfRight, CacheRight
<1>3. CacheRight'
  BY DEF DirTyped, SelfRight, CacheRight, Listed, Merged, Full, Untracked, Known
<1>4. (Before /\ Whole)'
  BY DEF DirTyped, Before, Whole
<1>5. Listed'
  BY DEF DirTyped, Listed, Whole, Known, Full
<1>6. Merged'
  BY DEF DirTyped, Merged, Listed, Known, Full, Untracked, Before, Whole
<1>7. FilesRight'
  BY DEF DirTyped, FilesRight, Bad, Known, Merged, Before, Whole, CacheRight, Full, Untracked
<1>8. OthersRight'
  BY DEF DirTyped, OthersRight, Differs, CacheRight, Before, Whole, Untracked, Full
<1>9. CandidatesExact'
  BY DEF DirTyped, CandidatesExact, SelfRight, FilesRight, OthersRight, Merged, Differs, Bad, Untracked, Known
<1>10. QED
  BY <1>1, <1>2, <1>3, <1>4, <1>5, <1>6, <1>7, <1>8, <1>9 DEF DirIInv

LEMMA CacheHitKept ==
  ASSUME DirIInv, CacheHit
  PROVE  DirIInv'
<1> USE DirAssumption DEF DirIInv, outside, cache, merge, CacheHit
<1>1. DirTyped'
  BY DEF DirTyped, Full, Kinds
<1>2. SelfRight'
  BY DEF DirTyped, SelfRight, CacheRight
<1>3. CacheRight'
  BY DEF DirTyped, SelfRight, CacheRight, Listed, Merged, Full, Untracked, Known
<1>4. (Before /\ Whole)'
  BY DEF DirTyped, Before, Whole
<1>5. Listed'
  BY DEF DirTyped, Listed, Whole, Known, Full
<1>6. Merged'
  BY DEF DirTyped, Merged, Listed, Known, Full, Untracked, Before, Whole
<1>7. FilesRight'
  BY DEF DirTyped, FilesRight, Bad, Known, Merged, Before, Whole, CacheRight, Full, Untracked
<1>8. OthersRight'
  BY DEF DirTyped, OthersRight, Differs, CacheRight, Before, Whole, Untracked, Full
<1>9. CandidatesExact'
  BY DEF DirTyped, CandidatesExact, SelfRight, FilesRight, OthersRight, Merged, Differs, Bad, Untracked, Known
<1>10. QED
  BY <1>1, <1>2, <1>3, <1>4, <1>5, <1>6, <1>7, <1>8, <1>9 DEF DirIInv

LEMMA FstatKept ==
  ASSUME DirIInv, Fstat
  PROVE  DirIInv'
<1> USE DirAssumption DEF DirIInv, outside, cache, merge, Fstat
<1>1. DirTyped'
  BY DEF DirTyped, Full, Kinds
<1>2. SelfRight'
  BY DEF DirTyped, SelfRight, CacheRight
<1>3. CacheRight'
  BY DEF DirTyped, SelfRight, CacheRight, Listed, Merged, Full, Untracked, Known
<1>4. (Before /\ Whole)'
  BY DEF DirTyped, Before, Whole
<1>5. Listed'
  BY DEF DirTyped, Listed, Whole, Known, Full
<1>6. Merged'
  BY DEF DirTyped, Merged, Listed, Known, Full, Untracked, Before, Whole
<1>7. FilesRight'
  BY DEF DirTyped, FilesRight, Bad, Known, Merged, Before, Whole, CacheRight, Full, Untracked
<1>8. OthersRight'
  BY DEF DirTyped, OthersRight, Differs, CacheRight, Before, Whole, Untracked, Full
<1>9. CandidatesExact'
  BY DEF DirTyped, CandidatesExact, SelfRight, FilesRight, OthersRight, Merged, Differs, Bad, Untracked, Known
<1>10. QED
  BY <1>1, <1>2, <1>3, <1>4, <1>5, <1>6, <1>7, <1>8, <1>9 DEF DirIInv

LEMMA ReadEntryKept ==
  ASSUME DirIInv, NEW m \in Names, ReadEntry(m)
  PROVE  DirIInv'
<1> USE DirAssumption DEF DirIInv, outside, cache, merge, ReadEntry
<1>1. DirTyped'
  BY DEF DirTyped, Full, Kinds
<1>2. SelfRight'
  BY DEF DirTyped, SelfRight, CacheRight
<1>3. CacheRight'
  BY DEF DirTyped, SelfRight, CacheRight, Listed, Merged, Full, Untracked, Known
<1>4. (Before /\ Whole)'
  BY DEF DirTyped, Before, Whole
<1>5. Listed'
  BY DEF DirTyped, Listed, Whole, Known, Full
<1>6. Merged'
  BY DEF DirTyped, Merged, Listed, Known, Full, Untracked, Before, Whole
<1>7. FilesRight'
  BY DEF DirTyped, FilesRight, Bad, Known, Merged, Before, Whole, CacheRight, Full, Untracked
<1>8. OthersRight'
  BY DEF DirTyped, OthersRight, Differs, CacheRight, Before, Whole, Untracked, Full
<1>9. CandidatesExact'
  BY DEF DirTyped, CandidatesExact, SelfRight, FilesRight, OthersRight, Merged, Differs, Bad, Untracked, Known
<1>10. QED
  BY <1>1, <1>2, <1>3, <1>4, <1>5, <1>6, <1>7, <1>8, <1>9 DEF DirIInv

LEMMA ListDirReturnsKept ==
  ASSUME DirIInv, ListDirReturns
  PROVE  DirIInv'
<1> USE DirAssumption DEF DirIInv, outside, cache, merge, ListDirReturns
<1>1. DirTyped'
  BY DEF DirTyped, Full, Kinds
<1>2. SelfRight'
  BY DEF DirTyped, SelfRight, CacheRight
<1>3. CacheRight'
  BY DEF DirTyped, SelfRight, CacheRight, Listed, Merged, Full, Untracked, Known
<1>4. (Before /\ Whole)'
  BY DEF DirTyped, Before, Whole
<1>5. Listed'
  BY DEF DirTyped, Listed, Whole, Known, Full
<1>6. Merged'
  BY DEF DirTyped, Merged, Listed, Known, Full, Untracked, Before, Whole
<1>7. FilesRight'
  BY DEF DirTyped, FilesRight, Bad, Known, Merged, Before, Whole, CacheRight, Full, Untracked
<1>8. OthersRight'
  BY DEF DirTyped, OthersRight, Differs, CacheRight, Before, Whole, Untracked, Full
<1>9. CandidatesExact'
  BY DEF DirTyped, CandidatesExact, SelfRight, FilesRight, OthersRight, Merged, Differs, Bad, Untracked, Known
<1>10. QED
  BY <1>1, <1>2, <1>3, <1>4, <1>5, <1>6, <1>7, <1>8, <1>9 DEF DirIInv

LEMMA StatFileKept ==
  ASSUME DirIInv, NEW m \in Names, StatFile(m)
  PROVE  DirIInv'
<1> USE DirAssumption DEF DirIInv, outside, cache, merge, StatFile, StatOf, First
<1>1. DirTyped'
  BY DEF DirTyped, Full, Kinds
<1>2. SelfRight'
  BY DEF DirTyped, SelfRight, CacheRight
<1>3. CacheRight'
  BY DEF DirTyped, SelfRight, CacheRight, Listed, Merged, Full, Untracked, Known
<1>4. (Before /\ Whole)'
  BY DEF DirTyped, Before, Whole
<1>5. Listed'
  BY DEF DirTyped, Listed, Whole, Known, Full
<1>6. Merged'
  BY DEF DirTyped, Merged, Listed, Known, Full, Untracked, Before, Whole
<1>7. FilesRight'
  BY DEF DirTyped, FilesRight, Bad, Known, Merged, Before, Whole, CacheRight, Full, Untracked
<1>8. OthersRight'
  BY DEF DirTyped, OthersRight, Differs, CacheRight, Before, Whole, Untracked, Full
<1>9. CandidatesExact'
  BY DEF DirTyped, CandidatesExact, SelfRight, FilesRight, OthersRight, Merged, Differs, Bad, Untracked, Known
<1>10. QED
  BY <1>1, <1>2, <1>3, <1>4, <1>5, <1>6, <1>7, <1>8, <1>9 DEF DirIInv

LEMMA DeletedKept ==
  ASSUME DirIInv, NEW m \in Names, Deleted(m)
  PROVE  DirIInv'
<1> USE DirAssumption DEF DirIInv, outside, cache, merge, Deleted, First
<1>1. DirTyped'
  BY DEF DirTyped, Full, Kinds
<1>2. SelfRight'
  BY DEF DirTyped, SelfRight, CacheRight
<1>3. CacheRight'
  BY DEF DirTyped, SelfRight, CacheRight, Listed, Merged, Full, Untracked, Known
<1>4. (Before /\ Whole)'
  BY DEF DirTyped, Before, Whole
<1>5. Listed'
  BY DEF DirTyped, Listed, Whole, Known, Full
<1>6. Merged'
  BY DEF DirTyped, Merged, Listed, Known, Full, Untracked, Before, Whole
<1>7. FilesRight'
  BY DEF DirTyped, FilesRight, Bad, Known, Merged, Before, Whole, CacheRight, Full, Untracked
<1>8. OthersRight'
  BY DEF DirTyped, OthersRight, Differs, CacheRight, Before, Whole, Untracked, Full
<1>9. CandidatesExact'
  BY DEF DirTyped, CandidatesExact, SelfRight, FilesRight, OthersRight, Merged, Differs, Bad, Untracked, Known
<1>10. QED
  BY <1>1, <1>2, <1>3, <1>4, <1>5, <1>6, <1>7, <1>8, <1>9 DEF DirIInv

LEMMA MatchFileKept ==
  ASSUME DirIInv, NEW m \in Names, MatchFile(m)
  PROVE  DirIInv'
<1> USE DirAssumption DEF DirIInv, outside, cache, merge, MatchFile, StatOf, First
<1>1. DirTyped'
  BY DEF DirTyped, Full, Kinds
<1>2. SelfRight'
  BY DEF DirTyped, SelfRight, CacheRight
<1>3. CacheRight'
  BY DEF DirTyped, SelfRight, CacheRight, Listed, Merged, Full, Untracked, Known
<1>4. (Before /\ Whole)'
  BY DEF DirTyped, Before, Whole
<1>5. Listed'
  BY DEF DirTyped, Listed, Whole, Known, Full
<1>6. Merged'
  BY DEF DirTyped, Merged, Listed, Known, Full, Untracked, Before, Whole
<1>7. FilesRight'
  BY DEF DirTyped, FilesRight, Bad, Known, Merged, Before, Whole, CacheRight, Full, Untracked
<1>8. OthersRight'
  BY DEF DirTyped, OthersRight, Differs, CacheRight, Before, Whole, Untracked, Full
<1>9. CandidatesExact'
  BY DEF DirTyped, CandidatesExact, SelfRight, FilesRight, OthersRight, Merged, Differs, Bad, Untracked, Known
<1>10. QED
  BY <1>1, <1>2, <1>3, <1>4, <1>5, <1>6, <1>7, <1>8, <1>9 DEF DirIInv

LEMMA MatchSubdirKept ==
  ASSUME DirIInv, NEW m \in Names, MatchSubdir(m)
  PROVE  DirIInv'
<1> USE DirAssumption DEF DirIInv, outside, cache, merge, MatchSubdir, New, First
<1>1. DirTyped'
  <2>1. New(m) \subseteq Names
    BY DEF New
  <2> HIDE DEF New, DirIInv, MatchSubdir
  <2>2. DirTyped
    BY DEF DirIInv
  <2>3. /\ unmatched' = unmatched \cup New(m) /\ found' = found \cup New(m)
        /\ subdir' = {n \in subdir : n > m} /\ list' = list \ {m}
        /\ UNCHANGED <<shows, disk, changes, stamp, untracked_cache_, st, at_, opts, unread,
                       listed_dirs, file, steady, failed>>
    BY DEF MatchSubdir
  <2>4. QED
    BY <2>1, <2>2, <2>3 DEF DirTyped, Full
<1>2. SelfRight'
  BY DEF DirTyped, SelfRight, CacheRight
<1>3. CacheRight'
  BY DEF DirTyped, SelfRight, CacheRight, Listed, Merged, Full, Untracked, Known
<1>4. (Before /\ Whole)'
  BY DEF DirTyped, Before, Whole
<1>5. Listed'
  BY DEF DirTyped, Listed, Whole, Known, Full
<1>6. Merged'
  BY DEF DirTyped, Merged, Listed, Known, Full, Untracked, Before, Whole
<1>7. FilesRight'
  BY DEF DirTyped, FilesRight, Bad, Known, Merged, Before, Whole, CacheRight, Full, Untracked
<1>8. OthersRight'
  BY DEF DirTyped, OthersRight, Differs, CacheRight, Before, Whole, Untracked, Full
<1>9. CandidatesExact'
  BY DEF DirTyped, CandidatesExact, SelfRight, FilesRight, OthersRight, Merged, Differs, Bad, Untracked, Known
<1>10. QED
  BY <1>1, <1>2, <1>3, <1>4, <1>5, <1>6, <1>7, <1>8, <1>9 DEF DirIInv

LEMMA ChangeAccessKept ==
  ASSUME DirIInv, ChangeAccess
  PROVE  DirIInv'
<1> USE DirAssumption DEF DirIInv, outside, cache, merge, ChangeAccess
<1>1. DirTyped'
  BY DEF DirTyped, Full, Kinds
<1>2. SelfRight'
  BY DEF DirTyped, SelfRight, CacheRight
<1>3. CacheRight'
  BY DEF DirTyped, SelfRight, CacheRight, Listed, Merged, Full, Untracked, Known
<1>4. (Before /\ Whole)'
  BY DEF DirTyped, Before, Whole
<1>5. Listed'
  BY DEF DirTyped, Listed, Whole, Known, Full
<1>6. Merged'
  BY DEF DirTyped, Merged, Listed, Known, Full, Untracked, Before, Whole
<1>7. FilesRight'
  BY DEF DirTyped, FilesRight, Bad, Known, Merged, Before, Whole, CacheRight, Full, Untracked
<1>8. OthersRight'
  BY DEF DirTyped, OthersRight, Differs, CacheRight, Before, Whole, Untracked, Full
<1>9. CandidatesExact'
  BY DEF DirTyped, CandidatesExact, SelfRight, FilesRight, OthersRight, Merged, Differs, Bad, Untracked, Known
<1>10. QED
  BY <1>1, <1>2, <1>3, <1>4, <1>5, <1>6, <1>7, <1>8, <1>9 DEF DirIInv

LEMMA CheckDirMtimeKept ==
  ASSUME DirIInv, NEW ok \in BOOLEAN, CheckDirMtime(ok)
  PROVE  DirIInv'
<1> USE DirAssumption DEF DirIInv, outside, cache, merge, CheckDirMtime, CheckOutcome
<1>1. DirTyped'
  <2>1. ASSUME {"dir", "file"} \subseteq shows PROVE Full
    <3> HIDE DEF DirIInv, CheckDirMtime
    <3>1. shows \in SUBSET {"file", "dir"}
      BY DEF DirTyped, DirIInv
    <3>2. QED
      BY ONLY <2>1, <3>1 DEF Full
  <2>2. QED
    BY <2>1 DEF DirTyped, Full, Kinds
<1>2. SelfRight'
  BY DEF DirTyped, SelfRight, CacheRight
<1>3. CacheRight'
  BY DEF DirTyped, SelfRight, CacheRight, Listed, Merged, Full, Untracked, Known
<1>4. (Before /\ Whole)'
  BY DEF DirTyped, Before, Whole
<1>5. Listed'
  BY DEF DirTyped, Listed, Whole, Known, Full
<1>6. Merged'
  BY DEF DirTyped, Merged, Listed, Known, Full, Untracked, Before, Whole
<1>7. FilesRight'
  BY DEF DirTyped, FilesRight, Bad, Known, Merged, Before, Whole, CacheRight, Full, Untracked
<1>8. OthersRight'
  BY DEF DirTyped, OthersRight, Differs, CacheRight, Before, Whole, Untracked, Full
<1>9. CandidatesExact'
  BY DEF DirTyped, CandidatesExact, SelfRight, FilesRight, OthersRight, Merged, Differs, Bad, Untracked, Known
<1>10. QED
  BY <1>1, <1>2, <1>3, <1>4, <1>5, <1>6, <1>7, <1>8, <1>9 DEF DirIInv

LEMMA DoneKept ==
  ASSUME DirIInv, Done
  PROVE  DirIInv'
<1> USE DirAssumption DEF DirIInv, outside, cache, merge, Done
<1>1. DirTyped'
  BY DEF DirTyped, Full, Kinds
<1>2. SelfRight'
  BY DEF DirTyped, SelfRight, CacheRight
<1>3. CacheRight'
  <2> SUFFICES ASSUME Full, st = stamp, at_ = "merge", NEW n
               PROVE  n \in unmatched <=> n \in Names /\ Untracked(n)
    BY DEF CacheRight, Full, Untracked
  <2>1. Self \notin unmatched
    BY DEF SelfRight, DirTyped
  <2>2. n \in unmatched => n \in Names
    BY <2>1 DEF DirTyped
  <2>3. n \in Names /\ n \in FileNames => n \notin unmatched /\ ~Untracked(n)
    BY DEF Merged, Untracked
  <2>4. n \in Names \ FileNames => (n \in unmatched <=> Untracked(n))
    BY DEF Merged, Known
  <2>5. QED
    BY <2>2, <2>3, <2>4
<1>4. (Before /\ Whole)'
  BY DEF DirTyped, Before, Whole
<1>5. Listed'
  BY DEF DirTyped, Listed, Whole, Known, Full
<1>6. Merged'
  BY DEF DirTyped, Merged, Listed, Known, Full, Untracked, Before, Whole
<1>7. FilesRight'
  BY DEF DirTyped, FilesRight, Bad, Known, Merged, Before, Whole, CacheRight, Full, Untracked
<1>8. OthersRight'
  BY DEF DirTyped, OthersRight, Differs, CacheRight, Before, Whole, Untracked, Full
<1>9. CandidatesExact'
  BY DEF DirTyped, CandidatesExact, SelfRight, FilesRight, OthersRight, Merged, Differs, Bad, Untracked, Known
<1>10. QED
  BY <1>1, <1>2, <1>3, <1>4, <1>5, <1>6, <1>7, <1>8, <1>9 DEF DirIInv

LEMMA EntryOfKind ==
  ASSUME NEW k1 \in Kinds, NEW k2 \in Kinds
  PROVE  /\ Entry_(k1) = Entry_(k2) =>
               (k1 = "none" <=> k2 = "none") /\ (k1 = "dir" <=> k2 = "dir")
         /\ Entry_(k1) \subseteq {"file", "dir"}
         /\ Entry_(k1) # Entry_(k2) => (Entry_(k1) \cup Entry_(k2)) \cap {"file", "dir"} # {}
BY DEF Entry_, Kinds

LEMMA ChangeKept ==
  ASSUME DirIInv, NEW m \in Names, NEW kind \in Kinds, Change(m, kind)
  PROVE  DirIInv'
<1> USE DirAssumption DEF DirIInv, outside, cache, merge
<1>0. /\ disk' = [disk EXCEPT ![m] = kind] /\ disk \in [Names -> Kinds]
      /\ \A n \in Names : disk'[n] = IF n = m THEN kind ELSE disk[n]
      /\ \A n \in Names : disk'[n] \in Kinds
      /\ steady' = steady \ {m} /\ changes' = changes + 1
      /\ stamp' = stamp \/ stamp' = changes + 1
  BY DEF Change, DirTyped
<1>same. UNCHANGED <<shows, there, untracked_cache_, st, unmatched, at_, opts, unread, list,
                     listed_dirs, file, subdir, found, failed>>
  BY DEF Change
<1>1. DirTyped'
  BY <1>0, <1>same DEF DirTyped, Full
<1>2. ASSUME NEW n \in Names, Known(n)'
      PROVE  /\ Known(n) /\ (disk'[n] = "none" <=> disk[n] = "none")
             /\ (disk'[n] = "dir" <=> disk[n] = "dir")
  <2>1. CASE n # m
    BY <1>0, <1>same, <1>2, <2>1 DEF Known, Full, DirTyped
  <2>2. CASE n = m
    <3>1. Full /\ st = stamp' /\ st \in Nat
      BY <1>0, <1>same, <1>2, <2>2 DEF Known, Full, DirTyped
    <3>2. stamp' = stamp
      BY <1>0, <3>1 DEF DirTyped
    <3>3. Entry_(kind) = Entry_(disk[m])
      <4>1. SUFFICES ASSUME Entry_(kind) # Entry_(disk[m])
                     PROVE  FALSE
        OBVIOUS
      <4>2. (Entry_(kind) \cup Entry_(disk[m])) \cap shows # {}
        BY <1>0, <3>1, <4>1, EntryOfKind DEF Full
      <4>3. QED
        BY <1>0, <3>1, <3>2, <4>1, <4>2 DEF Change, DirTyped
    <3>4. QED
      BY <1>0, <1>same, <2>2, <3>1, <3>2, <3>3, EntryOfKind DEF Known
  <2>3. QED
    BY <2>1, <2>2
<1>3. SelfRight'
  BY <1>same DEF SelfRight
<1>4. CacheRight'
  <2> SUFFICES ASSUME at_' \notin {"list", "merge"}, Full', st' = stamp', NEW n
               PROVE  n \in unmatched' <=> n \in Names /\ Untracked(n)'
    BY DEF CacheRight
  <2>1. Full /\ st = stamp
    BY <1>0, <1>same DEF Full, DirTyped
  <2>2. unmatched = {k \in Names : Untracked(k)}
    BY <1>same, <2>1 DEF CacheRight
  <2>3. n \in Names => (Untracked(n)' <=> Untracked(n))
    <3>1. ASSUME n \in Names PROVE Known(n)'
      BY <1>same DEF Known, Full
    <3>2. QED
      BY <1>2, <3>1 DEF Untracked
  <2>4. QED
    BY <1>same, <2>2, <2>3
<1>5. (Before /\ Whole)'
  BY <1>same DEF Before, Whole
<1>6. Listed'
  BY <1>2, <1>same DEF Listed
<1>7. Merged'
  BY <1>2, <1>same DEF Merged, Untracked
<1>8. FilesRight'
  BY <1>0, <1>same DEF FilesRight, Bad, DirTyped
<1>9. OthersRight'
  BY <1>0, <1>same DEF OthersRight, Differs, DirTyped
<1>10. CandidatesExact'
  BY <1>0, <1>same DEF CandidatesExact, Differs, DirTyped
<1>11. QED
  BY <1>1, <1>3, <1>4, <1>5, <1>6, <1>7, <1>8, <1>9, <1>10 DEF DirIInv

LEMMA DirInitIInv == DirInit => DirIInv
<1> SUFFICES ASSUME DirInit PROVE DirIInv
  OBVIOUS
<1> USE DirAssumption
<1>1. disk \in [Names -> Kinds]
  BY DEF DirInit, Start, Kinds
<1>2. DirTyped
  <2>1. shows \in SUBSET {"file", "dir"}
    BY DEF DirInit
  <2>2. opts \in [include_untracked : BOOLEAN, untracked_cache : {"unknown", "true", "false"}]
    BY DEF DirInit
  <2>3. untracked_cache_ \in {"unknown", "true", "false"} /\ untracked_cache_ # "true"
        /\ opts.untracked_cache # "true"
    BY DEF DirInit
  <2>4. /\ changes \in Nat /\ stamp \in Nat /\ stamp <= changes /\ st = NoStat
        /\ at_ = "idle"
    BY DEF DirInit
  <2>5. /\ unread \subseteq Names /\ list \subseteq Names /\ listed_dirs \subseteq Names
        /\ file \subseteq FileNames /\ subdir \subseteq DirNames
        /\ found \subseteq Names \cup {Self} /\ unmatched \subseteq Names \cup {Self}
        /\ steady \subseteq Names
    BY DEF DirInit
  <2>6. failed \in BOOLEAN
    BY Zenon DEF DirInit
  <2>7. QED
    BY <1>1, <2>1, <2>2, <2>3, <2>4, <2>5, <2>6 DEF DirTyped
<1>3. SelfRight /\ CacheRight
  BY DEF DirInit, SelfRight, CacheRight
<1>4. Before /\ Whole /\ Listed /\ Merged
  BY DEF DirInit, Before, Whole, Listed, Merged
<1>5. FilesRight /\ OthersRight /\ CandidatesExact
  BY DEF DirInit, FilesRight, OthersRight, CandidatesExact
<1>6. QED
  BY <1>2, <1>3, <1>4, <1>5 DEF DirIInv

LEMMA DirStutterKept == DirIInv /\ UNCHANGED dirVars => DirIInv'
BY DEF DirIInv, dirVars, DirTyped, SelfRight, CacheRight, Before, Whole, Listed, Merged, FilesRight,
       OthersRight, CandidatesExact, Full, Known, Untracked, Bad, Differs, IsModified

\* In every run the cache and the candidates are what the listing and the
\* changes since then make of them.
THEOREM DirInvariant == DirSpec => []DirIInv
<1>1. DirInit => DirIInv
  BY DirInitIInv
<1>2. DirIInv /\ [DirNext]_dirVars => DirIInv'
  <2> SUFFICES ASSUME DirIInv, [DirNext]_dirVars
               PROVE  DirIInv'
    OBVIOUS
  <2>1. ASSUME NEW n \in Names, NEW kind \in Kinds, Change(n, kind)
        PROVE  DirIInv'
    BY <2>1, ChangeKept
  <2>2. ASSUME NEW ok \in BOOLEAN, CheckDirMtime(ok)
        PROVE  DirIInv'
    BY <2>2, CheckDirMtimeKept
  <2>3. ASSUME NEW include \in BOOLEAN, Begin(include)
        PROVE  DirIInv'
    BY <2>3, BeginKept
  <2>4. CASE OpenFails \/ FstatFails \/ ListDirFails
    BY <2>4, OpenFailsKept
  <2>5. CASE Open \/ CacheHit \/ Fstat \/ ListDirReturns \/ Done \/ ChangeAccess
    BY <2>5, OpenKept, CacheHitKept, FstatKept, ListDirReturnsKept, DoneKept, ChangeAccessKept
  <2>6. ASSUME NEW n \in Names,
               ReadEntry(n) \/ StatFile(n) \/ Deleted(n) \/ MatchFile(n) \/ MatchSubdir(n)
        PROVE  DirIInv'
    BY <2>6, ReadEntryKept, StatFileKept, DeletedKept, MatchFileKept, MatchSubdirKept
  <2>7. CASE UNCHANGED dirVars
    BY <2>7, DirStutterKept
  <2>8. QED
    BY <2>1, <2>2, <2>3, <2>4, <2>5, <2>6, <2>7 DEF DirNext
<1>3. QED
  BY <1>1, <1>2, PTL DEF DirSpec

\* A name that does not change during a request is a candidate if and only if it
\* differs from the index, and the directory only if it could not be read.
THEOREM CandidatesAlwaysExact == DirSpec => []CandidatesExact
<1>1. DirIInv => CandidatesExact
  BY DEF DirIInv
<1>2. QED
  BY <1>1, DirInvariant, PTL

\* A listing that is used again names everything new, and no listing is used
\* again on a file system that hides changes.
THEOREM CacheAlwaysSound == DirSpec => []CacheSound
<1>1. DirIInv => CacheSound
  <2> SUFFICES ASSUME DirIInv
               PROVE  CacheSound
    OBVIOUS
  <2>1. untracked_cache_ = "true" => shows = {"file", "dir"}
    BY DEF DirIInv, DirTyped, Full
  <2>2. ASSUME at_ \in {"idle", "done"}, shows = {"file", "dir"}, st = stamp
        PROVE  unmatched = {n \in Names \ (FileNames \cup DirNames) :
                               disk[n] # "none" /\ ~(n = DotGit /\ disk[n] = "dir")}
    BY <2>2 DEF DirIInv, CacheRight, Full, Untracked
  <2>3. QED
    BY <2>1, <2>2 DEF CacheSound
<1>2. QED
  BY <1>1, DirInvariant, PTL

-----------------------------------------------------------------------------
\* CheckDirMtime.

TmpPaths == {".", "/a", "/b", "/a/1", "/b/1"}
Steps == {"start", "sweep", "/a", "a_st", "/b", "b_st", "sleep", "/a/1", "a?", "/b/1", "b?",
          "clean", "killed"}

\* The order in which the scope guards remove what the check has made.
Undo == <<"/b/1", "/a/1", "/b", "/a", ".">>

\* What is left of an order is its end from k on.
EndOf(s, order, k) ==
    /\ s \in Seq(TmpPaths) /\ Len(s) = 6 - k
    /\ \A i \in 1..Len(s) : s[i] = order[k + i - 1]
Rest(order, k) == {order[j] : j \in k..5}

CheckTyped ==
    /\ fs \in SUBSET {"file", "dir"} /\ clock \in Nat /\ now \in [Checks -> Nat]
    /\ tmp \in [Checks -> SUBSET TmpPaths]
    /\ mtime \in [Checks -> [{".", "/a", "/b"} -> Nat]]
    /\ at_step \in [Checks -> Steps]
    /\ todo \in [Checks -> SUBSET Checks] /\ left \in [Checks -> SUBSET Checks]
    /\ unlinks \in [Checks -> Seq(TmpPaths)]
    /\ a_st \in [Checks -> Nat] /\ b_st \in [Checks -> Nat]
    /\ outcome \in [Checks -> {"none", "true", "false"}]

\* Between its two stats the mtime of a directory changes only if what is made
\* in it shows, unless it is gone.
StatsRight ==
    \A c \in Checks :
       /\ at_step[c] \in {"/b", "b_st", "sleep", "/a/1", "a?"} /\ "/a" \in tmp[c] /\ "dir" \notin fs =>
             mtime[c]["/a"] = a_st[c]
       /\ at_step[c] \in {"sleep", "/a/1", "a?", "/b/1", "b?"} /\ "/b" \in tmp[c] /\ "file" \notin fs =>
             mtime[c]["/b"] = b_st[c]
       /\ at_step[c] \in {"/b/1", "b?"} => "dir" \in fs

\* A guard that has run has removed its path.
GuardsRight ==
    \A c \in Checks :
       at_step[c] = "clean" =>
          \E k \in 1..6 : EndOf(unlinks[c], Undo, k) /\ tmp[c] \subseteq Rest(Undo, k)

\* Of the directories found stale that nobody uses, only the first is yet to be
\* removed, and loses its paths one by one.
LeavesOnly(c, k) ==
    \A d \in left[c] \cap todo[c] :
       (\A e \in todo[c] : d <= e) /\ tmp[d] \subseteq Rest(RemovalOrder, k)
SweepRight ==
    \A c \in Checks :
       /\ \A d \in left[c] : Ended(d) /\ (d \notin todo[c] => tmp[d] = {})
       /\ at_step[c] = "sweep" =>
             \/ unlinks[c] = << >> /\ left[c] \cap todo[c] = {}
             \/ \E k \in 1..5 : EndOf(unlinks[c], RemovalOrder, k) /\ LeavesOnly(c, k)

CheckIInv == CheckTyped /\ StatsRight /\ CheckSound /\ GuardsRight /\ SweepRight

LEMMA ParentOf ==
    /\ DOMAIN Parent = {"/a", "/b", "/a/1", "/b/1"}
    /\ Parent["/a"] = "." /\ Parent["/b"] = "." /\ Parent["/a/1"] = "/a" /\ Parent["/b/1"] = "/b"
BY DEF Parent

LEMMA AfterOf ==
    After["/a"] = "a_st" /\ After["/b"] = "b_st" /\ After["/a/1"] = "a?" /\ After["/b/1"] = "b?"
BY DEF After, Parent

LEMMA OrderAt ==
    /\ Undo[1] = "/b/1" /\ Undo[2] = "/a/1" /\ Undo[3] = "/b" /\ Undo[4] = "/a" /\ Undo[5] = "."
    /\ RemovalOrder[1] = "/b/1" /\ RemovalOrder[2] = "/a/1" /\ RemovalOrder[3] = "/a"
    /\ RemovalOrder[4] = "/b" /\ RemovalOrder[5] = "."
    /\ Made[1] = "." /\ Made[2] = "/a" /\ Made[3] = "/b" /\ Made[4] = "/a/1" /\ Made[5] = "/b/1"
BY DEF Undo, RemovalOrder, Made

LEMMA UndoOrder == EndOf(Reverse(Made), Undo, 1)
<1>1. Made \in Seq(TmpPaths) /\ Len(Made) = 5
  BY DEF Made, TmpPaths
<1>2. Reverse(Made) \in Seq(TmpPaths) /\ Len(Reverse(Made)) = 5
  BY <1>1 DEF Reverse
<1>3. \A i \in 1..5 : Reverse(Made)[i] = Made[6 - i]
  BY <1>1 DEF Reverse
<1>4. \A i \in 1..5 : Undo[i] = Made[6 - i]
  <2> TAKE i \in 1..5
  <2>1. i = 1 \/ i = 2 \/ i = 3 \/ i = 4 \/ i = 5
    OBVIOUS
  <2>2. QED
    BY <2>1, OrderAt
<1>5. QED
  BY <1>2, <1>3, <1>4 DEF EndOf

LEMMA WholeOrders ==
    /\ EndOf(RemovalOrder, RemovalOrder, 1)
    /\ Rest(RemovalOrder, 1) = TmpPaths /\ Rest(RemovalOrder, 6) = {}
    /\ Rest(Undo, 1) = TmpPaths /\ Rest(Undo, 6) = {}
<1>1. RemovalOrder \in Seq(TmpPaths) /\ Len(RemovalOrder) = 5
  BY DEF RemovalOrder, TmpPaths
<1>2. EndOf(RemovalOrder, RemovalOrder, 1)
  BY <1>1 DEF EndOf
<1>3. ASSUME NEW order \in {Undo, RemovalOrder}
      PROVE  Rest(order, 1) = TmpPaths /\ Rest(order, 6) = {}
  <2>1. Rest(order, 1) = {order[1], order[2], order[3], order[4], order[5]}
    <3>1. \A i \in 1..5 : i = 1 \/ i = 2 \/ i = 3 \/ i = 4 \/ i = 5
      OBVIOUS
    <3>2. QED
      BY <3>1 DEF Rest
  <2>2. {order[1], order[2], order[3], order[4], order[5]} = TmpPaths
    <3>1. CASE order = Undo
      BY <3>1, OrderAt DEF TmpPaths
    <3>2. CASE order = RemovalOrder
      BY <3>2, OrderAt DEF TmpPaths
    <3>3. QED
      BY <3>1, <3>2
  <2>3. 6..5 = {}
    OBVIOUS
  <2>4. QED
    BY <2>1, <2>2, <2>3 DEF Rest
<1>4. QED
  BY <1>2, <1>3

\* The next path to be removed has nothing in it, and then one less is left.
LEMMA NextPath ==
  ASSUME NEW order \in {Undo, RemovalOrder}, NEW s, NEW k \in 1..5, EndOf(s, order, k),
         NEW T \in SUBSET Rest(order, k)
  PROVE  /\ s # << >> /\ Head(s) \in TmpPaths /\ EndOf(Tail(s), order, k + 1)
         /\ \A q \in T \ {"."} : Parent[q] # Head(s)
         /\ T \ {Head(s)} \subseteq Rest(order, k + 1)
         /\ Len(s) > 1 <=> k < 5
<1>1. s \in Seq(TmpPaths) /\ Len(s) = 6 - k /\ s # << >>
  BY DEF EndOf
<1>2. Head(s) = order[k] /\ Head(s) \in TmpPaths
  BY <1>1 DEF EndOf
<1>3. EndOf(Tail(s), order, k + 1)
  <2>1. Tail(s) \in Seq(TmpPaths) /\ Len(Tail(s)) = 5 - k
    BY <1>1
  <2>2. \A i \in 1..Len(Tail(s)) : Tail(s)[i] = s[i + 1]
    BY <1>1
  <2>3. QED
    BY <1>1, <2>1, <2>2 DEF EndOf
<1>4. T \ {Head(s)} \subseteq Rest(order, k + 1)
  BY <1>2 DEF Rest
<1>5. ASSUME NEW q \in T \ {"."}
      PROVE  Parent[q] # Head(s)
  <2>1. PICK j \in k..5 : q = order[j]
    BY DEF Rest
  <2>2. /\ k = 1 \/ k = 2 \/ k = 3 \/ k = 4 \/ k = 5
        /\ j = k \/ j = k + 1 \/ j = k + 2 \/ j = k + 3 \/ j = k + 4
        /\ j <= 5
    OBVIOUS
  <2>3. CASE order = Undo
    BY <1>2, <2>1, <2>2, <2>3, ParentOf, OrderAt
  <2>4. CASE order = RemovalOrder
    BY <1>2, <2>1, <2>2, <2>4, ParentOf, OrderAt
  <2>5. QED
    BY <2>3, <2>4
<1>6. QED
  BY <1>1, <1>2, <1>3, <1>4, <1>5

\* Making or removing a path touches no directory but the one it is in.
LEMMA TouchedEffect ==
  ASSUME CheckTyped, NEW d \in Checks, NEW p \in TmpPaths
  PROVE  /\ Touched(d, p) \in [{".", "/a", "/b"} -> Nat]
         /\ p # "/a" /\ "dir" \notin fs => Touched(d, p)["/a"] = mtime[d]["/a"]
         /\ p # "/b" /\ "file" \notin fs => Touched(d, p)["/b"] = mtime[d]["/b"]
<1>1. mtime[d] \in [{".", "/a", "/b"} -> Nat] /\ clock \in Nat
  BY DEF CheckTyped
<1>2. DOMAIN mtime[d] = {".", "/a", "/b"}
  BY <1>1
<1>3. Touched(d, p) \in [{".", "/a", "/b"} -> Nat]
  BY <1>1, <1>2 DEF Touched
<1>4. p # "/a" /\ "dir" \notin fs => Touched(d, p)["/a"] = mtime[d]["/a"]
  BY <1>2, ParentOf DEF Touched, KindOf, TmpPaths
<1>5. p # "/b" /\ "file" \notin fs => Touched(d, p)["/b"] = mtime[d]["/b"]
  BY <1>2, ParentOf DEF Touched, KindOf, TmpPaths
<1>6. QED
  BY <1>3, <1>4, <1>5

LEMMA RemoveEffect ==
  ASSUME CheckTyped, NEW d \in Checks, NEW p \in TmpPaths, RemovePath(d, p)
  PROVE  /\ tmp' \in [Checks -> SUBSET TmpPaths]
         /\ mtime' \in [Checks -> [{".", "/a", "/b"} -> Nat]]
         /\ \A c \in Checks : tmp'[c] \subseteq tmp[c] /\ (c # d => tmp'[c] = tmp[c])
         /\ ~Holds(d, p) => p \notin tmp'[d]
         /\ \A c \in Checks : "/a" \in tmp'[c] /\ "dir" \notin fs => mtime'[c]["/a"] = mtime[c]["/a"]
         /\ \A c \in Checks : "/b" \in tmp'[c] /\ "file" \notin fs => mtime'[c]["/b"] = mtime[c]["/b"]
<1>1. CASE ~(p \in tmp[d] /\ ~Holds(d, p))
  BY <1>1 DEF RemovePath, CheckTyped, files
<1>2. CASE p \in tmp[d] /\ ~Holds(d, p)
  <2>1. tmp' = [tmp EXCEPT ![d] = @ \ {p}] /\ mtime' = [mtime EXCEPT ![d] = Touched(d, p)]
    BY <1>2 DEF RemovePath
  <2>2. QED
    BY <1>2, <2>1, TouchedEffect DEF CheckTyped
<1>3. QED
  BY <1>1, <1>2

LEMMA MakeEffect ==
  ASSUME CheckTyped, NEW d \in Checks, NEW p \in TmpPaths, Make(d, p)
  PROVE  /\ tmp' = [tmp EXCEPT ![d] = @ \cup {p}] /\ tmp' \in [Checks -> SUBSET TmpPaths]
         /\ mtime' \in [Checks -> [{".", "/a", "/b"} -> Nat]]
         /\ \A c \in Checks : c # d => mtime'[c] = mtime[c]
         /\ p # "/a" /\ "dir" \notin fs => mtime'[d]["/a"] = mtime[d]["/a"]
         /\ p # "/b" /\ "file" \notin fs => mtime'[d]["/b"] = mtime[d]["/b"]
<1>1. tmp' = [tmp EXCEPT ![d] = @ \cup {p}] /\ mtime' = [mtime EXCEPT ![d] = Touched(d, p)]
  BY DEF Make
<1>2. QED
  BY <1>1, TouchedEffect DEF CheckTyped

\* What a removal is about to take is not disturbed by what goes on elsewhere.
LEMMA SweepStays ==
  ASSUME CheckTyped, SweepRight, UNCHANGED <<todo, left>>,
         \A d \in Checks : Ended(d) => Ended(d)' /\ tmp'[d] \subseteq tmp[d],
         \A c \in Checks : at_step'[c] = "sweep" => at_step[c] = "sweep" /\ unlinks'[c] = unlinks[c]
  PROVE  SweepRight'
<1> SUFFICES ASSUME NEW c \in Checks
             PROVE  SweepRight!(c)'
  BY DEF SweepRight
<1>0. todo'[c] = todo[c] /\ left'[c] = left[c] /\ left[c] \subseteq Checks
  BY DEF CheckTyped
<1>1. \A d \in left'[c] : Ended(d)' /\ (d \notin todo'[c] => tmp'[d] = {}) /\ tmp'[d] \subseteq tmp[d]
  BY <1>0 DEF SweepRight
<1>2. ASSUME at_step'[c] = "sweep"
      PROVE  \/ unlinks'[c] = << >> /\ left'[c] \cap todo'[c] = {}
             \/ \E k \in 1..5 : EndOf(unlinks'[c], RemovalOrder, k) /\ LeavesOnly(c, k)'
  <2>1. CASE unlinks[c] = << >> /\ left[c] \cap todo[c] = {}
    BY <1>0, <1>2, <2>1
  <2>2. ASSUME NEW k \in 1..5, EndOf(unlinks[c], RemovalOrder, k), LeavesOnly(c, k)
        PROVE  EndOf(unlinks'[c], RemovalOrder, k) /\ LeavesOnly(c, k)'
    <3>1. EndOf(unlinks'[c], RemovalOrder, k)
      BY <1>2, <2>2
    <3>2. LeavesOnly(c, k)'
      BY <1>0, <1>1, <2>2 DEF LeavesOnly
    <3>3. QED
      BY <3>1, <3>2
  <2>3. QED
    BY <1>2, <2>1, <2>2 DEF SweepRight
<1>3. QED
  BY <1>1, <1>2

LEMMA GuardsStay ==
  ASSUME CheckTyped', GuardsRight,
         \A c \in Checks : at_step'[c] = "clean" =>
            \/ at_step[c] = "clean" /\ unlinks'[c] = unlinks[c] /\ tmp'[c] \subseteq tmp[c]
            \/ unlinks'[c] = Reverse(Made)
  PROVE  GuardsRight'
<1> SUFFICES ASSUME NEW c \in Checks, at_step'[c] = "clean"
             PROVE  \E k \in 1..6 : EndOf(unlinks'[c], Undo, k) /\ tmp'[c] \subseteq Rest(Undo, k)
  BY DEF GuardsRight
<1>1. CASE unlinks'[c] = Reverse(Made)
  <2>1. EndOf(unlinks'[c], Undo, 1) /\ tmp'[c] \subseteq Rest(Undo, 1)
    BY <1>1, UndoOrder, WholeOrders DEF CheckTyped
  <2>2. QED
    BY <2>1
<1>2. CASE at_step[c] = "clean" /\ unlinks'[c] = unlinks[c] /\ tmp'[c] \subseteq tmp[c]
  <2>1. PICK k \in 1..6 : EndOf(unlinks[c], Undo, k) /\ tmp[c] \subseteq Rest(Undo, k)
    BY <1>2 DEF GuardsRight
  <2>2. EndOf(unlinks'[c], Undo, k) /\ tmp'[c] \subseteq Rest(Undo, k)
    BY <1>2, <2>1
  <2>3. QED
    BY <2>2
<1>3. QED
  BY <1>1, <1>2

LEMMA FailKept ==
  ASSUME CheckIInv, NEW c \in Checks, Fail(c)
  PROVE  CheckIInv'
<1> USE DEF CheckIInv
<1>1. CheckTyped'
  BY UndoOrder DEF Fail, Go, files, CheckTyped, Steps, EndOf
<1>2. StatsRight'
  BY DEF Fail, Go, files, CheckTyped, StatsRight
<1>3. CheckSound'
  BY DEF Fail, Go, files, CheckTyped, CheckSound, StatsRight
<1>4. GuardsRight'
  BY <1>1, GuardsStay DEF Fail, Go, files, CheckTyped
<1>5. SweepRight'
  <2>1. UNCHANGED <<todo, left>>
    BY DEF Fail
  <2>2. \A d \in Checks : Ended(d) => Ended(d)' /\ tmp'[d] \subseteq tmp[d]
    BY DEF Fail, Go, files, CheckTyped, Ended
  <2>3. \A d \in Checks : at_step'[d] = "sweep" => at_step[d] = "sweep" /\ unlinks'[d] = unlinks[d]
    BY DEF Fail, Go, files, CheckTyped
  <2>4. QED
    BY <2>1, <2>2, <2>3, SweepStays
<1>6. QED
  BY <1>1, <1>2, <1>3, <1>4, <1>5

LEMMA StatAKept ==
  ASSUME CheckIInv, NEW c \in Checks, StatA(c)
  PROVE  CheckIInv'
<1> USE DEF CheckIInv
<1>1. CheckTyped'
  BY DEF StatA, Go, files, CheckTyped, Steps
<1>2. StatsRight'
  BY DEF StatA, Go, files, CheckTyped, StatsRight
<1>3. CheckSound'
  BY DEF StatA, Go, files, CheckTyped, CheckSound, StatsRight
<1>4. GuardsRight'
  BY <1>1, GuardsStay DEF StatA, Go, files, CheckTyped
<1>5. SweepRight'
  <2>1. UNCHANGED <<todo, left>>
    BY DEF StatA
  <2>2. \A d \in Checks : Ended(d) => Ended(d)' /\ tmp'[d] \subseteq tmp[d]
    BY DEF StatA, Go, files, CheckTyped, Ended
  <2>3. \A d \in Checks : at_step'[d] = "sweep" => at_step[d] = "sweep" /\ unlinks'[d] = unlinks[d]
    BY DEF StatA, Go, files, CheckTyped
  <2>4. QED
    BY <2>1, <2>2, <2>3, SweepStays
<1>6. QED
  BY <1>1, <1>2, <1>3, <1>4, <1>5

LEMMA StatBKept ==
  ASSUME CheckIInv, NEW c \in Checks, StatB(c)
  PROVE  CheckIInv'
<1> USE DEF CheckIInv
<1>1. CheckTyped'
  BY DEF StatB, Go, files, CheckTyped, Steps
<1>2. StatsRight'
  BY DEF StatB, Go, files, CheckTyped, StatsRight
<1>3. CheckSound'
  BY DEF StatB, Go, files, CheckTyped, CheckSound, StatsRight
<1>4. GuardsRight'
  BY <1>1, GuardsStay DEF StatB, Go, files, CheckTyped
<1>5. SweepRight'
  <2>1. UNCHANGED <<todo, left>>
    BY DEF StatB
  <2>2. \A d \in Checks : Ended(d) => Ended(d)' /\ tmp'[d] \subseteq tmp[d]
    BY DEF StatB, Go, files, CheckTyped, Ended
  <2>3. \A d \in Checks : at_step'[d] = "sweep" => at_step[d] = "sweep" /\ unlinks'[d] = unlinks[d]
    BY DEF StatB, Go, files, CheckTyped
  <2>4. QED
    BY <2>1, <2>2, <2>3, SweepStays
<1>6. QED
  BY <1>1, <1>2, <1>3, <1>4, <1>5

LEMMA SleptKept ==
  ASSUME CheckIInv, NEW c \in Checks, Slept(c)
  PROVE  CheckIInv'
<1> USE DEF CheckIInv
<1>1. CheckTyped'
  BY DEF Slept, Go, files, CheckTyped, Steps
<1>2. StatsRight'
  BY DEF Slept, Go, files, CheckTyped, StatsRight
<1>3. CheckSound'
  BY DEF Slept, Go, files, CheckTyped, CheckSound, StatsRight
<1>4. GuardsRight'
  BY <1>1, GuardsStay DEF Slept, Go, files, CheckTyped
<1>5. SweepRight'
  <2>1. UNCHANGED <<todo, left>>
    BY DEF Slept
  <2>2. \A d \in Checks : Ended(d) => Ended(d)' /\ tmp'[d] \subseteq tmp[d]
    BY DEF Slept, Go, files, CheckTyped, Ended
  <2>3. \A d \in Checks : at_step'[d] = "sweep" => at_step[d] = "sweep" /\ unlinks'[d] = unlinks[d]
    BY DEF Slept, Go, files, CheckTyped
  <2>4. QED
    BY <2>1, <2>2, <2>3, SweepStays
<1>6. QED
  BY <1>1, <1>2, <1>3, <1>4, <1>5

LEMMA CheckAKept ==
  ASSUME CheckIInv, NEW c \in Checks, CheckA(c)
  PROVE  CheckIInv'
<1> USE DEF CheckIInv
<1>1. CheckTyped'
  <2>1. Reverse(Made) \in Seq(TmpPaths)
    BY UndoOrder DEF EndOf
  <2>2. at_step' \in [Checks -> Steps] /\ outcome' \in [Checks -> {"none", "true", "false"}]
    BY DEF CheckA, Judge, Go, CheckTyped, Steps
  <2>3. unlinks' \in [Checks -> Seq(TmpPaths)]
    BY <2>1 DEF CheckA, Judge, CheckTyped
  <2>4. UNCHANGED <<fs, clock, now, tmp, mtime, todo, left, a_st, b_st>>
    BY DEF CheckA, Judge, files
  <2>5. QED
    BY <2>2, <2>3, <2>4 DEF CheckTyped
<1>2. StatsRight'
  BY DEF CheckA, Judge, StatChanged, Go, files, CheckTyped, StatsRight
<1>3. CheckSound'
  BY ZenonT(20) DEF CheckA, Judge, StatChanged, Go, files, CheckTyped, CheckSound, StatsRight
<1>4. GuardsRight'
  <2>1. at_step' = at_step \/ \E next \in {"/b/1", "clean"} : at_step' = [at_step EXCEPT ![c] = next]
    BY DEF CheckA, Judge, Go
  <2>2. unlinks' = [unlinks EXCEPT ![c] = Reverse(Made)] /\ tmp' = tmp
    BY DEF CheckA, Judge, files
  <2>3. \A d \in Checks : at_step'[d] = "clean" =>
           \/ at_step[d] = "clean" /\ unlinks'[d] = unlinks[d] /\ tmp'[d] \subseteq tmp[d]
           \/ unlinks'[d] = Reverse(Made)
    BY <2>1, <2>2 DEF CheckTyped
  <2>4. QED
    BY <1>1, <2>3, GuardsStay
<1>5. SweepRight'
  <2>1. UNCHANGED <<todo, left>>
    BY DEF CheckA, Judge, StatChanged
  <2>2. \A d \in Checks : Ended(d) => Ended(d)' /\ tmp'[d] \subseteq tmp[d]
    BY DEF CheckA, Judge, StatChanged, Go, files, CheckTyped, Ended
  <2>3. \A d \in Checks : at_step'[d] = "sweep" => at_step[d] = "sweep" /\ unlinks'[d] = unlinks[d]
    BY DEF CheckA, Judge, StatChanged, Go, files, CheckTyped
  <2>4. QED
    BY <2>1, <2>2, <2>3, SweepStays
<1>6. QED
  BY <1>1, <1>2, <1>3, <1>4, <1>5

LEMMA CheckBKept ==
  ASSUME CheckIInv, NEW c \in Checks, CheckB(c)
  PROVE  CheckIInv'
<1> USE DEF CheckIInv
<1>1. CheckTyped'
  <2>1. Reverse(Made) \in Seq(TmpPaths)
    BY UndoOrder DEF EndOf
  <2>2. at_step' \in [Checks -> Steps] /\ outcome' \in [Checks -> {"none", "true", "false"}]
    BY DEF CheckB, Judge, Go, CheckTyped, Steps
  <2>3. unlinks' \in [Checks -> Seq(TmpPaths)]
    BY <2>1 DEF CheckB, Judge, CheckTyped
  <2>4. UNCHANGED <<fs, clock, now, tmp, mtime, todo, left, a_st, b_st>>
    BY DEF CheckB, Judge, files
  <2>5. QED
    BY <2>2, <2>3, <2>4 DEF CheckTyped
<1>2. StatsRight'
  BY DEF CheckB, Judge, StatChanged, Go, files, CheckTyped, StatsRight
<1>3. CheckSound'
  <2>1. CASE StatChanged(c, "/b", b_st[c])
    <3>1. "dir" \in fs /\ "file" \in fs
      BY <2>1 DEF CheckB, Judge, StatChanged, StatsRight
    <3>2. fs' = {"file", "dir"}
      BY <3>1, ZenonT(20) DEF CheckB, Judge, CheckTyped
    <3>3. QED
      BY <3>2 DEF CheckSound
  <2>2. CASE ~StatChanged(c, "/b", b_st[c])
    BY <2>2 DEF CheckB, Judge, CheckTyped, CheckSound
  <2>3. QED
    BY <2>1, <2>2
<1>4. GuardsRight'
  <2>1. at_step' = at_step \/ \E next \in {"/b/1", "clean"} : at_step' = [at_step EXCEPT ![c] = next]
    BY DEF CheckB, Judge, Go
  <2>2. unlinks' = [unlinks EXCEPT ![c] = Reverse(Made)] /\ tmp' = tmp
    BY DEF CheckB, Judge, files
  <2>3. \A d \in Checks : at_step'[d] = "clean" =>
           \/ at_step[d] = "clean" /\ unlinks'[d] = unlinks[d] /\ tmp'[d] \subseteq tmp[d]
           \/ unlinks'[d] = Reverse(Made)
    BY <2>1, <2>2 DEF CheckTyped
  <2>4. QED
    BY <1>1, <2>3, GuardsStay
<1>5. SweepRight'
  <2>1. UNCHANGED <<todo, left>>
    BY DEF CheckB, Judge, StatChanged
  <2>2. \A d \in Checks : Ended(d) => Ended(d)' /\ tmp'[d] \subseteq tmp[d]
    BY DEF CheckB, Judge, StatChanged, Go, files, CheckTyped, Ended
  <2>3. \A d \in Checks : at_step'[d] = "sweep" => at_step[d] = "sweep" /\ unlinks'[d] = unlinks[d]
    BY DEF CheckB, Judge, StatChanged, Go, files, CheckTyped
  <2>4. QED
    BY <2>1, <2>2, <2>3, SweepStays
<1>6. QED
  BY <1>1, <1>2, <1>3, <1>4, <1>5

LEMMA KilledKept ==
  ASSUME CheckIInv, NEW c \in Checks, Killed(c)
  PROVE  CheckIInv'
<1> USE DEF CheckIInv
<1>1. CheckTyped'
  <2>1. << >> \in Seq(TmpPaths)
    OBVIOUS
  <2>2. QED
    BY <2>1 DEF Killed, Go, files, CheckTyped, Steps
<1>2. StatsRight'
  BY DEF Killed, Go, files, CheckTyped, StatsRight
<1>3. CheckSound'
  BY DEF Killed, Go, files, CheckTyped, CheckSound, StatsRight
<1>4. GuardsRight'
  BY <1>1, GuardsStay DEF Killed, Go, files, CheckTyped
<1>5. SweepRight'
  <2>1. UNCHANGED <<todo, left>>
    BY DEF Killed
  <2>2. \A d \in Checks : Ended(d) => Ended(d)' /\ tmp'[d] \subseteq tmp[d]
    BY DEF Killed, Go, files, CheckTyped, Ended
  <2>3. \A d \in Checks : at_step'[d] = "sweep" => at_step[d] = "sweep" /\ unlinks'[d] = unlinks[d]
    BY DEF Killed, Go, files, CheckTyped
  <2>4. QED
    BY <2>1, <2>2, <2>3, SweepStays
<1>6. QED
  BY <1>1, <1>2, <1>3, <1>4, <1>5

LEMMA TickKept ==
  ASSUME CheckIInv, Tick
  PROVE  CheckIInv'
<1> USE DEF CheckIInv
<1>1. CheckTyped'
  BY DEF Tick, Go, files, CheckTyped, Steps
<1>2. StatsRight'
  BY DEF Tick, Go, files, CheckTyped, StatsRight
<1>3. CheckSound'
  BY DEF Tick, Go, files, CheckTyped, CheckSound, StatsRight
<1>4. GuardsRight'
  BY <1>1, GuardsStay DEF Tick, Go, files, CheckTyped
<1>5. SweepRight'
  <2>1. UNCHANGED <<todo, left>>
    BY DEF Tick
  <2>2. \A d \in Checks : Ended(d) => Ended(d)' /\ tmp'[d] \subseteq tmp[d]
    BY DEF Tick, Go, files, CheckTyped, Ended
  <2>3. \A d \in Checks : at_step'[d] = "sweep" => at_step[d] = "sweep" /\ unlinks'[d] = unlinks[d]
    BY DEF Tick, Go, files, CheckTyped
  <2>4. QED
    BY <2>1, <2>2, <2>3, SweepStays
<1>6. QED
  BY <1>1, <1>2, <1>3, <1>4, <1>5

LEMMA MkdtempKept ==
  ASSUME CheckIInv, NEW c \in Checks, Mkdtemp(c)
  PROVE  CheckIInv'
<1> USE DEF CheckIInv
<1>made. /\ tmp' = [tmp EXCEPT ![c] = @ \cup {"."}] /\ tmp' \in [Checks -> SUBSET TmpPaths]
         /\ mtime' \in [Checks -> [{".", "/a", "/b"} -> Nat]]
         /\ \A d \in Checks : d # c => mtime'[d] = mtime[d]
         /\ "." # "/a" /\ "dir" \notin fs => mtime'[c]["/a"] = mtime[c]["/a"]
         /\ "." # "/b" /\ "file" \notin fs => mtime'[c]["/b"] = mtime[c]["/b"]
         /\ at_step[c] \notin {"clean", "killed"}
  BY MakeEffect, ParentOf DEF Mkdtemp, TmpPaths
<1>step. /\ at_step' \in [Checks -> Steps] /\ \A d \in Checks : d # c => at_step'[d] = at_step[d]
         /\ at_step[c] = "sweep" /\ at_step'[c] = "/a"
  BY DEF Mkdtemp, Go, CheckTyped, Steps
<1>1. CheckTyped'
  BY <1>made, <1>step DEF Mkdtemp, CheckTyped
<1>2. StatsRight'
  BY <1>made, <1>step, ZenonT(20) DEF Mkdtemp, CheckTyped, StatsRight
<1>3. CheckSound'
  BY <1>made, <1>step DEF Mkdtemp, CheckTyped, CheckSound, StatsRight
<1>4. GuardsRight'
  BY <1>1, <1>made, <1>step, GuardsStay, ZenonT(20) DEF Mkdtemp, CheckTyped
<1>5. SweepRight'
  <2>1. UNCHANGED <<todo, left>>
    BY DEF Mkdtemp
  <2>2. \A d \in Checks : Ended(d) => Ended(d)' /\ tmp'[d] \subseteq tmp[d]
    BY <1>made, <1>step DEF Mkdtemp, CheckTyped, Ended
  <2>3. \A d \in Checks : at_step'[d] = "sweep" => at_step[d] = "sweep" /\ unlinks'[d] = unlinks[d]
    BY <1>made, <1>step DEF Mkdtemp, CheckTyped
  <2>4. QED
    BY <2>1, <2>2, <2>3, SweepStays
<1>6. QED
  BY <1>1, <1>2, <1>3, <1>4, <1>5

LEMMA MakeNextKept ==
  ASSUME CheckIInv, NEW c \in Checks, MakeNext(c)
  PROVE  CheckIInv'
<1> USE DEF CheckIInv
<1>made. /\ tmp' = [tmp EXCEPT ![c] = @ \cup {at_step[c]}] /\ tmp' \in [Checks -> SUBSET TmpPaths]
         /\ mtime' \in [Checks -> [{".", "/a", "/b"} -> Nat]]
         /\ \A d \in Checks : d # c => mtime'[d] = mtime[d]
         /\ at_step[c] # "/a" /\ "dir" \notin fs => mtime'[c]["/a"] = mtime[c]["/a"]
         /\ at_step[c] # "/b" /\ "file" \notin fs => mtime'[c]["/b"] = mtime[c]["/b"]
         /\ at_step[c] \notin {"clean", "killed"}
  BY MakeEffect, ParentOf DEF MakeNext, TmpPaths
<1>step. /\ at_step' \in [Checks -> Steps] /\ \A d \in Checks : d # c => at_step'[d] = at_step[d]
         /\ \/ at_step[c] = "/a" /\ at_step'[c] = "a_st"
            \/ at_step[c] = "/b" /\ at_step'[c] = "b_st"
            \/ at_step[c] = "/a/1" /\ at_step'[c] = "a?"
            \/ at_step[c] = "/b/1" /\ at_step'[c] = "b?"
  BY ParentOf, AfterOf DEF MakeNext, Go, CheckTyped, Steps
<1>1. CheckTyped'
  BY <1>made, <1>step DEF MakeNext, CheckTyped
<1>2. StatsRight'
  <2> SUFFICES ASSUME NEW d \in Checks
               PROVE  StatsRight!(d)'
    BY DEF StatsRight
  <2>1. StatsRight!(d) /\ UNCHANGED <<fs, a_st, b_st>>
    BY DEF StatsRight, MakeNext
  <2>2. CASE d # c
    BY <1>made, <1>step, <2>1, <2>2 DEF CheckTyped
  <2>3. CASE d = c
    <3>1. tmp'[c] = tmp[c] \cup {at_step[c]}
      BY <1>made DEF CheckTyped
    <3>2. QED
      BY <1>made, <1>step, <2>1, <2>3, <3>1
  <2>4. QED
    BY <2>2, <2>3
<1>3. CheckSound'
  BY <1>made, <1>step DEF MakeNext, CheckTyped, CheckSound, StatsRight
<1>4. GuardsRight'
  BY <1>1, <1>made, <1>step, GuardsStay, SMTT(30) DEF MakeNext, CheckTyped
<1>5. SweepRight'
  <2>1. UNCHANGED <<todo, left>>
    BY DEF MakeNext
  <2>2. \A d \in Checks : Ended(d) => Ended(d)' /\ tmp'[d] \subseteq tmp[d]
    BY <1>made, <1>step DEF MakeNext, CheckTyped, Ended
  <2>3. \A d \in Checks : at_step'[d] = "sweep" => at_step[d] = "sweep" /\ unlinks'[d] = unlinks[d]
    BY <1>made, <1>step DEF MakeNext, CheckTyped
  <2>4. QED
    BY <2>1, <2>2, <2>3, SweepStays
<1>6. QED
  BY <1>1, <1>2, <1>3, <1>4, <1>5

LEMMA CleanUpKept ==
  ASSUME CheckIInv, NEW c \in Checks, CleanUp(c)
  PROVE  CheckIInv'
<1> USE DEF CheckIInv
<1> DEFINE p == Head(unlinks[c])
<1>1. PICK k \in 1..6 : EndOf(unlinks[c], Undo, k) /\ tmp[c] \subseteq Rest(Undo, k)
  BY DEF CleanUp, GuardsRight
<1>2. k \in 1..5
  BY <1>1 DEF CleanUp, EndOf
<1>3. /\ p \in TmpPaths /\ EndOf(Tail(unlinks[c]), Undo, k + 1) /\ ~Holds(c, p)
      /\ tmp[c] \ {p} \subseteq Rest(Undo, k + 1)
  BY <1>1, <1>2, NextPath DEF Holds
<1>4. /\ tmp' \in [Checks -> SUBSET TmpPaths]
      /\ mtime' \in [Checks -> [{".", "/a", "/b"} -> Nat]]
      /\ \A d \in Checks : tmp'[d] \subseteq tmp[d] /\ (d # c => tmp'[d] = tmp[d])
      /\ p \notin tmp'[c]
      /\ \A d \in Checks : "/a" \in tmp'[d] /\ "dir" \notin fs => mtime'[d]["/a"] = mtime[d]["/a"]
      /\ \A d \in Checks : "/b" \in tmp'[d] /\ "file" \notin fs => mtime'[d]["/b"] = mtime[d]["/b"]
  BY <1>3, RemoveEffect DEF CleanUp
<1>5. /\ unlinks' \in [Checks -> Seq(TmpPaths)] /\ unlinks'[c] = Tail(unlinks[c])
      /\ \A d \in Checks : d # c => unlinks'[d] = unlinks[d]
  BY <1>3 DEF CleanUp, CheckTyped, EndOf
<1>6. at_step[c] = "clean" /\ unlinks[c] # << >>
      /\ UNCHANGED <<fs, clock, now, at_step, todo, a_st, b_st, outcome, left>>
  BY DEF CleanUp
<1>7. CheckTyped'
  BY <1>4, <1>5, <1>6 DEF CheckTyped
<1>8. StatsRight'
  BY <1>4, <1>6 DEF StatsRight
<1>9. CheckSound'
  BY <1>6 DEF CheckSound
<1>10. GuardsRight'
  <2> SUFFICES ASSUME NEW d \in Checks, at_step'[d] = "clean"
               PROVE  \E j \in 1..6 : EndOf(unlinks'[d], Undo, j) /\ tmp'[d] \subseteq Rest(Undo, j)
    BY DEF GuardsRight
  <2>1. CASE d = c
    <3>1. EndOf(unlinks'[d], Undo, k + 1)
      BY <1>3, <1>5, <2>1
    <3>2. tmp'[d] \subseteq Rest(Undo, k + 1)
      BY <1>3, <1>4, <2>1
    <3>3. k + 1 \in 1..6
      BY <1>2
    <3>4. QED
      BY <3>1, <3>2, <3>3
  <2>2. CASE d # c
    BY <1>4, <1>5, <1>6, <2>2 DEF GuardsRight
  <2>3. QED
    BY <2>1, <2>2
<1>11. SweepRight'
  <2>1. \A d \in Checks : Ended(d) => Ended(d)' /\ tmp'[d] \subseteq tmp[d]
    BY <1>4, <1>5, <1>6 DEF Ended
  <2>2. \A d \in Checks : at_step'[d] = "sweep" => at_step[d] = "sweep" /\ unlinks'[d] = unlinks[d]
    BY <1>5, <1>6
  <2>3. QED
    BY <1>6, <2>1, <2>2, SweepStays
<1>12. QED
  BY <1>7, <1>8, <1>9, <1>10, <1>11

LEMMA FindDirsKept ==
  ASSUME CheckIInv, NEW c \in Checks, FindDirs(c)
  PROVE  CheckIInv'
<1> USE DEF CheckIInv
<1>1. /\ at_step[c] = "start" /\ at_step' = [at_step EXCEPT ![c] = "sweep"]
      /\ now' = [now EXCEPT ![c] = clock]
      /\ \E dirs \in SUBSET Checks : todo' = [todo EXCEPT ![c] = dirs]
      /\ unlinks' = [unlinks EXCEPT ![c] = << >>] /\ left' = [left EXCEPT ![c] = {}]
      /\ UNCHANGED <<fs, clock, tmp, mtime, a_st, b_st, outcome>>
  BY DEF FindDirs, Go, files
<1>2. CheckTyped'
  <2>1. << >> \in Seq(TmpPaths)
    OBVIOUS
  <2>2. QED
    BY <1>1, <2>1 DEF CheckTyped, Steps
<1>3. StatsRight'
  BY <1>1 DEF StatsRight, CheckTyped
<1>4. CheckSound'
  BY <1>1 DEF CheckSound
<1>5. GuardsRight'
  BY <1>1, <1>2, GuardsStay DEF CheckTyped
<1>6. SweepRight'
  <2> SUFFICES ASSUME NEW e \in Checks
               PROVE  SweepRight!(e)'
    BY DEF SweepRight
  <2>0. \A d \in Checks : Ended(d) => Ended(d)'
    BY <1>1 DEF Ended, CheckTyped
  <2>1. CASE e = c
    BY <1>1, <2>1 DEF CheckTyped
  <2>2. CASE e # c
    <3>1. /\ left'[e] = left[e] /\ todo'[e] = todo[e] /\ unlinks'[e] = unlinks[e]
          /\ at_step'[e] = at_step[e] /\ tmp' = tmp /\ left[e] \subseteq Checks
      BY <1>1, <2>2 DEF CheckTyped
    <3>2. QED
      BY <2>0, <3>1 DEF SweepRight, LeavesOnly
  <2>3. QED
    BY <2>1, <2>2
<1>7. QED
  BY <1>2, <1>3, <1>4, <1>5, <1>6

LEMMA StatNextKept ==
  ASSUME CheckIInv, NEW c \in Checks, NEW d \in Checks, StatNext(c, d)
  PROVE  CheckIInv'
<1> USE DEF CheckIInv
<1>0. /\ EndOf(RemovalOrder, RemovalOrder, 1) /\ Rest(RemovalOrder, 1) = TmpPaths
      /\ RemovalOrder \in Seq(TmpPaths)
  BY WholeOrders DEF EndOf
<1>1. /\ at_step[c] = "sweep" /\ d \in todo[c] /\ (\A e \in todo[c] : d <= e) /\ unlinks[c] = << >>
      /\ UNCHANGED <<fs, clock, now, tmp, mtime, at_step, a_st, b_st, outcome>>
  BY DEF StatNext, IsNext, files
<1>2. \/ /\ unlinks' = [unlinks EXCEPT ![c] = RemovalOrder] /\ todo' = todo
         /\ left' = [left EXCEPT ![c] = IF Ended(d) THEN @ \cup {d} ELSE @]
      \/ /\ todo' = [todo EXCEPT ![c] = @ \ {d}] /\ unlinks' = unlinks /\ left' = left
  BY DEF StatNext
<1>3. CheckTyped'
  <2>1. unlinks' \in [Checks -> Seq(TmpPaths)]
    BY <1>0, <1>2 DEF CheckTyped
  <2>2. /\ todo \in [Checks -> SUBSET Checks] /\ todo[c] \ {d} \in SUBSET Checks
        /\ left \in [Checks -> SUBSET Checks] /\ left[c] \cup {d} \in SUBSET Checks
    BY DEF CheckTyped
  <2>3. todo' \in [Checks -> SUBSET Checks] /\ left' \in [Checks -> SUBSET Checks]
    <3>1. todo' = todo \/ todo' = [todo EXCEPT ![c] = todo[c] \ {d}]
      BY <1>2
    <3>2. left' = left \/ left' = [left EXCEPT ![c] = left[c] \cup {d}] \/ left' = [left EXCEPT ![c] = left[c]]
      BY <1>2
    <3>3. todo' \in [Checks -> SUBSET Checks]
      BY <2>2, <3>1
    <3>4. left' \in [Checks -> SUBSET Checks]
      BY <2>2, <3>2
    <3>5. QED
      BY <3>3, <3>4
  <2>4. QED
    BY <1>1, <2>1, <2>3 DEF CheckTyped
<1>4. StatsRight'
  BY <1>1 DEF StatsRight
<1>5. CheckSound'
  BY <1>1 DEF CheckSound
<1>6. \A e \in Checks : e # c => unlinks'[e] = unlinks[e] /\ todo'[e] = todo[e] /\ left'[e] = left[e]
  BY <1>2 DEF CheckTyped
<1>7. GuardsRight'
  BY <1>1, <1>3, <1>6, GuardsStay
\* So far nothing found is left to be removed.
<1>8. left[c] \cap todo[c] = {}
  BY <1>1 DEF SweepRight, EndOf
<1>9. SweepRight'
  <2> SUFFICES ASSUME NEW e \in Checks
               PROVE  SweepRight!(e)'
    BY DEF SweepRight
  <2>1. \A h \in Checks : Ended(h) => Ended(h)'
    BY <1>1, <1>6 DEF Ended
  <2>2. CASE e # c
    <3>1. /\ left'[e] = left[e] /\ todo'[e] = todo[e] /\ unlinks'[e] = unlinks[e]
          /\ at_step'[e] = at_step[e] /\ tmp' = tmp /\ left[e] \subseteq Checks
      BY <1>1, <1>6, <2>2 DEF CheckTyped
    <3>2. QED
      BY <2>1, <3>1 DEF SweepRight, LeavesOnly
  <2>3. CASE e = c
    <3>1. \A h \in left[c] : h \in Checks /\ Ended(h)' /\ (h \notin todo[c] => tmp'[h] = {})
      BY <1>1, <2>1 DEF SweepRight, CheckTyped
    <3>2. CASE unlinks' = [unlinks EXCEPT ![c] = RemovalOrder] /\ todo' = todo
               /\ left' = [left EXCEPT ![c] = IF Ended(d) THEN @ \cup {d} ELSE @]
      <4>1. unlinks'[c] = RemovalOrder /\ todo'[c] = todo[c]
        BY <3>2 DEF CheckTyped
      <4>2. \A h \in left'[c] : h \in left[c] \/ (h = d /\ Ended(d))
        BY <3>2 DEF CheckTyped
      <4>3. \A h \in left'[c] : Ended(h)' /\ (h \notin todo'[c] => tmp'[h] = {})
        BY <1>1, <2>1, <3>1, <4>1, <4>2
      <4>4. tmp'[d] \subseteq Rest(RemovalOrder, 1)
        BY <1>0, <1>3 DEF CheckTyped
      <4>5. LeavesOnly(c, 1)'
        BY <1>1, <1>8, <4>1, <4>2, <4>4 DEF LeavesOnly
      <4>6. EndOf(unlinks'[c], RemovalOrder, 1)
        BY <1>0, <4>1
      <4>7. QED
        BY <2>3, <4>3, <4>5, <4>6
    <3>3. CASE todo' = [todo EXCEPT ![c] = @ \ {d}] /\ unlinks' = unlinks /\ left' = left
      <4>1. todo'[c] = todo[c] \ {d} /\ unlinks'[c] = << >> /\ left'[c] = left[c] /\ d \notin left[c]
        BY <1>1, <1>8, <3>3 DEF CheckTyped
      <4>2. left'[c] \cap todo'[c] = {}
        BY <1>8, <4>1
      <4>3. QED
        BY <2>3, <3>1, <4>1, <4>2
    <3>4. QED
      BY <1>2, <3>2, <3>3
  <2>4. QED
    BY <2>2, <2>3
<1>10. QED
  BY <1>3, <1>4, <1>5, <1>7, <1>9

LEMMA RemoveNextKept ==
  ASSUME CheckIInv, NEW c \in Checks, NEW d \in Checks, RemoveNext(c, d)
  PROVE  CheckIInv'
<1> USE DEF CheckIInv
<1> DEFINE p == Head(unlinks[c])
           more == ~Holds(d, p) /\ Len(unlinks[c]) > 1
<1>1. /\ at_step[c] = "sweep" /\ d \in todo[c] /\ (\A e \in todo[c] : d <= e) /\ unlinks[c] # << >>
      /\ RemovePath(d, p)
      /\ unlinks' = [unlinks EXCEPT ![c] = IF more THEN Tail(@) ELSE << >>]
      /\ todo' = [todo EXCEPT ![c] = IF more THEN @ ELSE @ \ {d}]
      /\ UNCHANGED <<fs, clock, now, at_step, a_st, b_st, outcome, left>>
  BY DEF RemoveNext, IsNext
<1>2. PICK k \in 1..5 : EndOf(unlinks[c], RemovalOrder, k) /\ LeavesOnly(c, k)
  BY <1>1 DEF SweepRight
\* Only d is left to be removed, if nobody uses it.
<1>least. \A h \in left[c] \cap todo[c] : h = d
  BY <1>1, <1>2, CheckAssumption DEF LeavesOnly, CheckTyped
<1>3. /\ p \in TmpPaths /\ EndOf(Tail(unlinks[c]), RemovalOrder, k + 1)
      /\ Tail(unlinks[c]) \in Seq(TmpPaths) /\ (Len(unlinks[c]) > 1 <=> k < 5)
  <2>1. {} \in SUBSET Rest(RemovalOrder, k)
    OBVIOUS
  <2>2. QED
    BY <1>2, <2>1, NextPath DEF EndOf
<1>4. ASSUME d \in left[c]
      PROVE  ~Holds(d, p) /\ tmp[d] \ {p} \subseteq Rest(RemovalOrder, k + 1)
  <2>1. tmp[d] \in SUBSET Rest(RemovalOrder, k)
    BY <1>1, <1>2, <1>4 DEF LeavesOnly
  <2>2. QED
    BY <1>2, <2>1, NextPath DEF Holds
<1>5. /\ tmp' \in [Checks -> SUBSET TmpPaths]
      /\ mtime' \in [Checks -> [{".", "/a", "/b"} -> Nat]]
      /\ \A e \in Checks : tmp'[e] \subseteq tmp[e] /\ (e # d => tmp'[e] = tmp[e])
      /\ ~Holds(d, p) => p \notin tmp'[d]
      /\ \A e \in Checks : "/a" \in tmp'[e] /\ "dir" \notin fs => mtime'[e]["/a"] = mtime[e]["/a"]
      /\ \A e \in Checks : "/b" \in tmp'[e] /\ "file" \notin fs => mtime'[e]["/b"] = mtime[e]["/b"]
  BY <1>1, <1>3, RemoveEffect
<1>6. d \in left[c] => tmp'[d] \subseteq Rest(RemovalOrder, k + 1)
  BY <1>4, <1>5
<1>7. /\ EndOf(RemovalOrder, RemovalOrder, 1) /\ Rest(RemovalOrder, 1) = TmpPaths
      /\ RemovalOrder \in Seq(TmpPaths) /\ Rest(RemovalOrder, 6) = {}
  BY WholeOrders DEF EndOf
<1>8. CheckTyped'
  <2>1. << >> \in Seq(TmpPaths)
    OBVIOUS
  <2>2. QED
    BY <1>1, <1>3, <1>5, <2>1 DEF CheckTyped
<1>9. StatsRight'
  BY <1>1, <1>5 DEF StatsRight
<1>10. CheckSound'
  BY <1>1 DEF CheckSound
<1>11. \A e \in Checks : e # c => unlinks'[e] = unlinks[e] /\ todo'[e] = todo[e]
  BY <1>1 DEF CheckTyped
<1>12. GuardsRight'
  BY <1>1, <1>5, <1>8, <1>11, GuardsStay
<1>13. SweepRight'
  <2> SUFFICES ASSUME NEW e \in Checks
               PROVE  SweepRight!(e)'
    BY DEF SweepRight
  <2>1. \A h \in Checks : Ended(h) => Ended(h)'
    BY <1>1, <1>11 DEF Ended
  <2>2. left'[e] = left[e] /\ left[e] \subseteq Checks /\ at_step'[e] = at_step[e]
    BY <1>1 DEF CheckTyped
  <2>3. CASE e # c
    BY <1>5, <1>11, <2>1, <2>2, <2>3 DEF SweepRight, LeavesOnly
  <2>4. CASE e = c
    <3>1. CASE more
      <4>1. todo'[c] = todo[c] /\ unlinks'[c] = Tail(unlinks[c]) /\ k + 1 \in 1..5
        BY <1>1, <1>3, <3>1 DEF CheckTyped
      <4>2. EndOf(unlinks'[c], RemovalOrder, k + 1)
        BY <1>3, <4>1
      <4>3. LeavesOnly(c, k + 1)'
        BY <1>1, <1>6, <1>least, <2>2, <2>4, <4>1 DEF LeavesOnly
      <4>4. QED
        BY <1>5, <2>1, <2>2, <2>4, <4>1, <4>2, <4>3 DEF SweepRight
    <3>2. CASE ~more
      <4>1. todo'[c] = todo[c] \ {d} /\ unlinks'[c] = << >>
        BY <1>1, <3>2 DEF CheckTyped
      <4>2. d \in left[c] => tmp'[d] = {}
        <5> SUFFICES ASSUME d \in left[c]
                     PROVE  tmp'[d] \subseteq Rest(RemovalOrder, 6)
          BY <1>7
        <5>1. k = 5
          BY <1>3, <1>4, <3>2
        <5>2. QED
          BY <1>6, <5>1
      <4>3. left'[c] \cap todo'[c] = {}
        BY <1>least, <2>2, <2>4, <4>1
      <4>4. \A h \in left[c] : Ended(h)' /\ (h \notin todo'[c] => tmp'[h] = {})
        BY <1>5, <2>1, <2>2, <2>4, <4>1, <4>2 DEF SweepRight
      <4>5. QED
        BY <2>2, <2>4, <4>1, <4>3, <4>4
    <3>3. QED
      BY <3>1, <3>2
  <2>5. QED
    BY <2>3, <2>4
<1>14. QED
  BY <1>8, <1>9, <1>10, <1>12, <1>13

LEMMA CheckInitIInv == CheckInit => CheckIInv
<1> SUFFICES ASSUME CheckInit PROVE CheckIInv
  OBVIOUS
<1> USE CheckAssumption DEF CheckInit
<1>1. CheckTyped
  <2>1. fs \in SUBSET {"file", "dir"}
    OBVIOUS
  <2>2. << >> \in Seq(TmpPaths)
    OBVIOUS
  <2>3. QED
    BY <2>1, <2>2 DEF CheckTyped, Steps
<1>2. StatsRight /\ CheckSound /\ GuardsRight /\ SweepRight
  BY DEF StatsRight, CheckSound, GuardsRight, SweepRight
<1>3. QED
  BY <1>1, <1>2 DEF CheckIInv

LEMMA CheckStutterKept == CheckIInv /\ UNCHANGED checkVars => CheckIInv'
<1> SUFFICES ASSUME CheckIInv, UNCHANGED checkVars
             PROVE  CheckIInv'
  OBVIOUS
<1> USE DEF CheckIInv, checkVars, files
<1>1. CheckTyped'
  BY DEF CheckTyped
<1>2. StatsRight' /\ CheckSound'
  BY DEF StatsRight, CheckSound
<1>3. GuardsRight'
  BY DEF GuardsRight
<1>4. SweepRight'
  BY DEF SweepRight, Ended, LeavesOnly
<1>5. QED
  BY <1>1, <1>2, <1>3, <1>4

\* Whatever the daemons do to each other, the stats and the temporary directories
\* are what the steps of the checks make of them.
THEOREM CheckInvariant == CheckSpec => []CheckIInv
<1>1. CheckInit => CheckIInv
  BY CheckInitIInv
<1>2. CheckIInv /\ [CheckNext]_checkVars => CheckIInv'
  <2> SUFFICES ASSUME CheckIInv, [CheckNext]_checkVars
               PROVE  CheckIInv'
    OBVIOUS
  <2>1. ASSUME NEW c \in Checks, NEW d \in Checks, StatNext(c, d) \/ RemoveNext(c, d)
        PROVE  CheckIInv'
    BY <2>1, StatNextKept, RemoveNextKept
  <2>2. ASSUME NEW c \in Checks,
               FindDirs(c) \/ Mkdtemp(c) \/ MakeNext(c) \/ StatA(c) \/ StatB(c) \/ Slept(c)
        PROVE  CheckIInv'
    BY <2>2, FindDirsKept, MkdtempKept, MakeNextKept, StatAKept, StatBKept, SleptKept
  <2>3. ASSUME NEW c \in Checks,
               CheckA(c) \/ CheckB(c) \/ Fail(c) \/ CleanUp(c) \/ Killed(c)
        PROVE  CheckIInv'
    BY <2>3, CheckAKept, CheckBKept, FailKept, CleanUpKept, KilledKept
  <2>4. CASE Tick
    BY <2>4, TickKept
  <2>5. CASE UNCHANGED checkVars
    BY <2>5, CheckStutterKept
  <2>6. QED
    BY <2>1, <2>2, <2>3, <2>4, <2>5 DEF CheckNext
<1>3. QED
  BY <1>1, <1>2, PTL DEF CheckSpec

\* The untracked cache is enabled only where a new file and a new directory both
\* show, and no check leaves a temporary directory behind that a later one does
\* not remove, however many daemons check and remove at the same time.
THEOREM CheckAlwaysRight == CheckSpec => []CheckRight
<1>1. CheckIInv => CheckRight
  <2> SUFFICES ASSUME CheckIInv
               PROVE  StaleRemoved
    BY DEF CheckIInv, CheckRight
  <2>1. ASSUME NEW c \in Checks, at_step[c] = "clean", unlinks[c] = << >>
        PROVE  tmp[c] = {}
    <3>1. PICK k \in 1..6 : EndOf(unlinks[c], Undo, k) /\ tmp[c] \subseteq Rest(Undo, k)
      BY <2>1 DEF CheckIInv, GuardsRight
    <3>2. k = 6
      BY <2>1, <3>1 DEF EndOf
    <3>3. QED
      BY <3>1, <3>2, WholeOrders
  <2>2. \A c \in Checks : \A d \in left[c] \ todo[c] : tmp[d] = {}
    BY DEF CheckIInv, SweepRight
  <2>3. QED
    BY <2>1, <2>2 DEF StaleRemoved
<1>2. QED
  BY <1>1, CheckInvariant, PTL

-----------------------------------------------------------------------------
\* GetDirtyCandidates.

TaskSteps == {"scan", "insert", "catch", "leave", "ended"}
EndedTasks == {t \in DOMAIN task : task[t] = "ended"}

CollectTyped ==
    /\ collector \in {"schedule", "check", "wait", "awake", "returned", "threw"}
    /\ task \in Seq(TaskSteps) /\ Len(task) <= NumSplits
    /\ collector # "schedule" => Len(task) = NumSplits
    /\ candidates \in Seq(Seq(ScanPaths)) /\ Len(candidates) = Len(task)
    /\ error \in BOOLEAN /\ gathered \in Seq(ScanPaths) /\ broken \subseteq DOMAIN task

\* inflight counts the tasks that have not ended, those not yet scheduled too.
BarrierRight ==
    /\ inflight_tasks = NumSplits - Cardinality(EndedTasks)
    /\ collector = "wait" => inflight_tasks > 0
    /\ collector \in {"returned", "threw"} => inflight_tasks = 0

\* A task that has failed sets error before it leaves.
ErrorRight ==
    /\ \A t \in DOMAIN task :
          /\ task[t] \in {"scan", "insert"} => t \notin broken
          /\ task[t] = "catch" => t \in broken
          /\ t \in broken /\ task[t] # "catch" => error = TRUE
    /\ error = TRUE => broken # {}
    /\ collector = "threw" => error = TRUE
    /\ collector = "returned" => error = FALSE

\* Of what the tasks have found, nothing is missing but what is yet to insert.
FoundRight ==
    /\ \A t \in DOMAIN task : task[t] \in {"scan", "catch"} => candidates[t] = << >>
    /\ \A p : p \in Range(gathered) <=>
                 \E t \in DOMAIN task : task[t] # "insert" /\ p \in Range(candidates[t])

ResultRight ==
    collector = "returned" =>
       /\ Sorted(gathered)
       /\ \A j \in DOMAIN gathered : j + 1 \in DOMAIN gathered => gathered[j] # gathered[j + 1]

CollectIInv == CollectTyped /\ BarrierRight /\ ErrorRight /\ FoundRight /\ ResultRight

\* A set of numbers that is not empty has a least.
LEMMA LeastOf ==
  ASSUME NEW S, S \subseteq Nat, S # {}
  PROVE  \E m \in S : \A n \in S : m <= n
<1>1. PICK m \in S : \A n \in S : ~(<<n, m>> \in OpToRel(<, Nat))
  BY NatLessThanWellFounded, WFMin
<1>2. \A n \in S : ~(n < m)
  BY <1>1 DEF OpToRel
<1>3. \A n \in S : m <= n
  BY <1>2
<1>4. QED
  BY <1>3, Zenon

\* What is in s is there first at the head of a run.
LEMMA FirstIndex ==
  ASSUME NEW s \in Seq(ScanPaths), NEW k \in DOMAIN s
  PROVE  \E h \in FirstOfRun(s) : s[h] = s[k]
<1> DEFINE E == {h \in DOMAIN s : s[h] = s[k]}
<1>1. E \subseteq Nat /\ E # {}
  OBVIOUS
<1>2. PICK m \in E : \A n \in E : m <= n
  BY <1>1, LeastOf
<1>3. m \in FirstOfRun(s)
  BY <1>2 DEF FirstOfRun
<1>4. QED
  BY <1>2, <1>3

\* An order of s has what s has.
LEMMA OrderOf ==
  ASSUME NEW s \in Seq(ScanPaths), NEW r \in Orders(s)
  PROVE  r \in Seq(ScanPaths) /\ Range(r) = Range(s)
<1>1. PICK f \in Bijection(DOMAIN s, DOMAIN s) : r = [k \in DOMAIN s |-> s[f[k]]]
  BY DEF Orders
<1>2. f \in [DOMAIN s -> DOMAIN s] /\ \A t \in DOMAIN s : \E k \in DOMAIN s : f[k] = t
  BY <1>1 DEF Bijection, Injection, Surjection
<1>3. DOMAIN s = 1..Len(s) /\ Len(s) \in Nat
  OBVIOUS
<1>4. r = [k \in 1..Len(s) |-> s[f[k]]] /\ \A k \in 1..Len(s) : s[f[k]] \in ScanPaths
  BY <1>1, <1>2, <1>3
<1>5. r \in Seq(ScanPaths)
  BY <1>3, <1>4
<1>6. \A p : p \in Range(r) <=> p \in Range(s)
  BY <1>1, <1>2 DEF Range
<1>7. QED
  BY <1>5, <1>6

\* What unique leaves of a sorted sequence has what was in it, sorted, and no
\* two that are equal next to each other.
LEMMA UniqueOf ==
  ASSUME NEW s \in Seq(ScanPaths), Sorted(s), NEW u \in Unique(s)
  PROVE  /\ u \in Seq(ScanPaths) /\ Range(u) = Range(s) /\ Sorted(u)
         /\ \A j \in DOMAIN u : j + 1 \in DOMAIN u => u[j] # u[j + 1]
<1> DEFINE F == FirstOfRun(s)
           n == Cardinality(F)
<1>1. F \subseteq DOMAIN s /\ DOMAIN s = 1..Len(s) /\ Len(s) \in Nat
  BY DEF FirstOfRun
<1>2. n \in Nat
  <2>1. IsFiniteSet(1..Len(s))
    BY <1>1, FS_Interval
  <2>2. IsFiniteSet(F)
    BY <1>1, <2>1, FS_Subset
  <2>3. QED
    BY <2>2, FS_CardinalityType
<1> HIDE DEF n
<1>3. PICK f \in Ascending(F) : u = [i \in DOMAIN f |-> s[f[i]]]
  BY DEF Unique
<1>4. /\ f \in [1..n -> F] /\ \A h \in F : \E i \in 1..n : f[i] = h
      /\ \A i, j \in 1..n : i < j => f[i] < f[j]
  <2>1. f \in Bijection(1..n, F) /\ \A i, j \in DOMAIN f : i < j => f[i] < f[j]
    BY <1>3 DEF Ascending, n
  <2>2. f \in [1..n -> F] /\ \A h \in F : \E i \in 1..n : f[i] = h
    BY <2>1 DEF Bijection, Injection, Surjection
  <2>3. QED
    BY <2>1, <2>2
<1>5. u = [i \in 1..n |-> s[f[i]]] /\ \A i \in 1..n : f[i] \in 1..Len(s) /\ s[f[i]] \in ScanPaths
  BY <1>1, <1>3, <1>4
<1>6. u \in Seq(ScanPaths) /\ DOMAIN u = 1..n
  BY <1>2, <1>5
<1>7. \A p : p \in Range(u) <=> p \in Range(s)
  <2>1. \A p : p \in Range(u) => p \in Range(s)
    BY <1>1, <1>5, <1>6 DEF Range
  <2>2. \A k \in DOMAIN s : \E i \in 1..n : u[i] = s[k]
    <3>1. TAKE k \in DOMAIN s
    <3>2. PICK h \in F : s[h] = s[k]
      BY FirstIndex
    <3>3. PICK i \in 1..n : f[i] = h
      BY <1>4
    <3>4. QED
      BY <3>2, <3>3, <1>5
  <2>3. QED
    BY <2>1, <2>2, <1>6 DEF Range
<1>8. Sorted(u)
  <2>1. SUFFICES ASSUME NEW j \in 1..n, NEW k \in 1..n, j < k
                 PROVE  Rank[u[j]] <= Rank[u[k]]
    BY <1>6 DEF Sorted
  <2>2. f[j] \in DOMAIN s /\ f[k] \in DOMAIN s /\ f[j] < f[k]
    BY <1>1, <1>4, <2>1
  <2>3. Rank[s[f[j]]] <= Rank[s[f[k]]]
    BY <2>2 DEF Sorted
  <2>4. QED
    BY <2>3, <1>5
<1>9. \A j \in 1..n : j + 1 \in 1..n => u[j] # u[j + 1]
  <2>1. SUFFICES ASSUME NEW j \in 1..n, j + 1 \in 1..n, s[f[j]] = s[f[j + 1]]
                 PROVE  FALSE
    BY <1>5
  <2> DEFINE a == f[j]
             b == f[j + 1]
  <2>2. a \in F /\ b \in F /\ a < b /\ a \in 1..Len(s) /\ b \in 1..Len(s)
    BY <1>2, <1>4, <1>5, <2>1
  \* Between the two a run must begin, or b would not be first of its own.
  <2>3. s[b] # s[b - 1] /\ b - 1 \in 1..Len(s) /\ a <= b - 1
    BY <2>2, <1>1 DEF FirstOfRun
  <2>4. a < b - 1
    BY <2>1, <2>2, <2>3
  <2> DEFINE D == {m \in 1..Len(s) : a < m /\ m < b /\ s[m] # s[a]}
  <2>5. b - 1 \in D
    BY <2>1, <2>2, <2>3, <2>4
  <2>6. PICK m \in D : \A k \in D : m <= k
    <3>1. D \subseteq Nat /\ D # {}
      BY <2>5, <1>1
    <3> HIDE DEF D
    <3>2. QED
      BY <3>1, LeastOf
  <2>7. m - 1 = a \/ (a < m - 1 /\ m - 1 \in 1..Len(s) /\ m - 1 < b /\ m - 1 \notin D)
    BY <2>2, <2>6, <1>1
  <2>8. s[m - 1] = s[a]
    BY <2>7, <2>2
  <2>9. m \in F
    BY <2>6, <2>8, <1>1 DEF FirstOfRun
  <2>10. PICK i \in 1..n : f[i] = m
    BY <2>9, <1>4
  <2>11. f[j] < f[i] /\ f[i] < f[j + 1] /\ f[i] \in Nat /\ f[j] \in Nat /\ f[j + 1] \in Nat
    BY <2>2, <2>6, <2>10, <1>1
  <2>12. i > j
    <3>1. i = j \/ i < j \/ i > j
      BY <1>2
    <3>2. i # j
      BY <2>11
    <3>3. ~(i < j)
      BY <2>11, <1>4, <2>1
    <3>4. QED
      BY <3>1, <3>2, <3>3
  <2>13. i < j + 1
    <3>1. i = j + 1 \/ i < j + 1 \/ i > j + 1
      BY <1>2
    <3>2. i # j + 1
      BY <2>11
    <3>3. ~(i > j + 1)
      BY <2>11, <1>4, <2>1
    <3>4. QED
      BY <3>1, <3>2, <3>3
  <2>14. QED
    BY <2>12, <2>13, <1>2
<1>10. QED
  BY <1>6, <1>7, <1>8, <1>9

\* Joining two sequences.
LEMMA Joined ==
  ASSUME NEW s \in Seq(ScanPaths), NEW r \in Seq(ScanPaths)
  PROVE  s \o r \in Seq(ScanPaths) /\ \A p : p \in Range(s \o r) <=> p \in Range(s) \/ p \in Range(r)
<1>1. s \o r \in Seq(ScanPaths) /\ Len(s \o r) = Len(s) + Len(r)
  OBVIOUS
<1>2. /\ DOMAIN s = 1..Len(s) /\ DOMAIN r = 1..Len(r) /\ DOMAIN (s \o r) = 1..(Len(s) + Len(r))
      /\ Len(s) \in Nat /\ Len(r) \in Nat
  BY <1>1
<1>3. \A k \in 1..Len(s) : (s \o r)[k] = s[k]
  OBVIOUS
<1>4. \A k \in 1..Len(r) : k + Len(s) \in 1..(Len(s) + Len(r)) /\ (s \o r)[k + Len(s)] = r[k]
  BY <1>2
<1>5. \A k \in 1..(Len(s) + Len(r)) : k \in 1..Len(s) \/ \E i \in 1..Len(r) : k = i + Len(s)
  <2>1. TAKE k \in 1..(Len(s) + Len(r))
  <2>2. k \in 1..Len(s) \/ (k - Len(s) \in 1..Len(r) /\ k = (k - Len(s)) + Len(s))
    BY <1>2
  <2>3. QED
    BY <2>2
<1>6. \A p : p \in Range(s \o r) => p \in Range(s) \/ p \in Range(r)
  <2>1. SUFFICES ASSUME NEW p, p \in Range(s \o r)
                 PROVE  p \in Range(s) \/ p \in Range(r)
    OBVIOUS
  <2>2. PICK k \in 1..(Len(s) + Len(r)) : (s \o r)[k] = p
    BY <2>1, <1>2 DEF Range
  <2>3. CASE k \in 1..Len(s)
    BY <2>2, <2>3, <1>2, <1>3 DEF Range
  <2>4. CASE \E i \in 1..Len(r) : k = i + Len(s)
    BY <2>2, <2>4, <1>2, <1>4 DEF Range
  <2>5. QED
    BY <2>3, <2>4, <1>5
<1>7. \A p : p \in Range(s) => p \in Range(s \o r)
  BY <1>2, <1>3 DEF Range
<1>8. \A p : p \in Range(r) => p \in Range(s \o r)
  BY <1>2, <1>4 DEF Range
<1>9. QED
  BY <1>1, <1>6, <1>7, <1>8

\* A step of a task that does not end it leaves the number that have ended.
LEMMA SameEnded ==
  ASSUME NEW t \in DOMAIN task, NEW w, task' = [task EXCEPT ![t] = w],
         task[t] # "ended", w # "ended"
  PROVE  EndedTasks' = EndedTasks
<1>1. DOMAIN task' = DOMAIN task
  OBVIOUS
<1>2. \A i \in DOMAIN task : task'[i] = "ended" <=> task[i] = "ended"
  OBVIOUS
<1>3. QED
  BY <1>1, <1>2 DEF EndedTasks

LEMMA FiniteTasks ==
  ASSUME CollectTyped
  PROVE  /\ IsFiniteSet(DOMAIN task) /\ Cardinality(DOMAIN task) = Len(task) /\ Len(task) \in Nat
         /\ IsFiniteSet(EndedTasks) /\ Cardinality(EndedTasks) \in Nat
<1>1. DOMAIN task = 1..Len(task) /\ Len(task) \in Nat
  BY DEF CollectTyped
<1>2. IsFiniteSet(1..Len(task)) /\ Cardinality(1..Len(task)) = Len(task)
  <2>1. /\ IsFiniteSet(1..Len(task))
        /\ Cardinality(1..Len(task)) = IF 1 > Len(task) THEN 0 ELSE Len(task) - 1 + 1
    BY <1>1, FS_Interval
  <2>2. QED
    BY <1>1, <2>1
<1>3. EndedTasks \in SUBSET (1..Len(task))
  BY <1>1 DEF EndedTasks
<1>4. IsFiniteSet(EndedTasks)
  BY <1>2, <1>3, FS_Subset
<1>5. QED
  BY <1>1, <1>2, <1>4, FS_CardinalityType

\* The count is down to zero when all tasks have been scheduled and have ended.
LEMMA AllEnded ==
  ASSUME CollectTyped, BarrierRight, inflight_tasks = 0
  PROVE  Len(task) = NumSplits /\ \A t \in DOMAIN task : task[t] = "ended"
<1>1. Cardinality(EndedTasks) = NumSplits
  <2>1. Cardinality(EndedTasks) \in Nat
    BY FiniteTasks
  <2>2. QED
    BY <2>1, CollectAssumption DEF BarrierRight
<1>2. EndedTasks \in SUBSET DOMAIN task
  BY DEF EndedTasks
<1>3. /\ IsFiniteSet(DOMAIN task) /\ Cardinality(DOMAIN task) = Len(task)
      /\ Len(task) \in Nat /\ Cardinality(EndedTasks) <= Cardinality(DOMAIN task)
      /\ Cardinality(DOMAIN task) = Cardinality(EndedTasks) => DOMAIN task = EndedTasks
  BY <1>2, FiniteTasks, FS_Subset
<1>4. Len(task) <= NumSplits
  BY DEF CollectTyped
<1>5. Len(task) = NumSplits
  BY <1>1, <1>3, <1>4, CollectAssumption
<1>6. DOMAIN task = EndedTasks
  BY <1>1, <1>3, <1>5
<1>7. QED
  BY <1>5, <1>6 DEF EndedTasks

\* While a task has not ended, GetDirtyCandidates has not.
LEMMA NotOver ==
  ASSUME CollectTyped, BarrierRight, NEW t \in DOMAIN task, task[t] # "ended"
  PROVE  collector # "returned" /\ collector # "threw"
<1>1. inflight_tasks # 0
  BY AllEnded
<1>2. QED
  BY <1>1 DEF BarrierRight

LEMMA CollectInitIInv == CollectInit => CollectIInv
<1> SUFFICES ASSUME CollectInit PROVE CollectIInv
  OBVIOUS
<1>1. error \in BOOLEAN
  BY Zenon DEF CollectInit
<1>2. CollectTyped
  BY <1>1, CollectAssumption DEF CollectInit, CollectTyped
<1>3. BarrierRight
  <2>1. EndedTasks = {}
    BY DEF CollectInit, EndedTasks
  <2>2. QED
    BY <2>1, FS_EmptySet, CollectAssumption DEF CollectInit, BarrierRight
<1>4. ErrorRight
  BY DEF CollectInit, ErrorRight
<1>5. FoundRight
  BY DEF CollectInit, FoundRight, Range
<1>6. ResultRight
  BY DEF CollectInit, ResultRight
<1>7. QED
  BY <1>2, <1>3, <1>4, <1>5, <1>6 DEF CollectIInv

LEMMA ScheduleSplitKept ==
  ASSUME CollectIInv, ScheduleSplit
  PROVE  CollectIInv'
<1> USE DEF CollectIInv
<1>1. collector = "schedule" /\ UNCHANGED <<inflight_tasks, error, gathered, broken>>
  BY DEF ScheduleSplit
<1>2. collector' \in {"schedule", "check"}
  BY DEF ScheduleSplit
<1>3. CASE Len(task) = NumSplits /\ collector' = "check" /\ UNCHANGED <<task, candidates>>
  <2>1. CollectTyped'
    BY <1>1, <1>3 DEF CollectTyped
  <2>2. BarrierRight'
    BY <1>1, <1>3 DEF BarrierRight, EndedTasks
  <2>3. ErrorRight'
    BY <1>1, <1>3 DEF ErrorRight
  <2>4. FoundRight'
    BY <1>1, <1>3 DEF FoundRight
  <2>5. ResultRight'
    BY <1>3 DEF ResultRight
  <2>6. QED
    BY <2>1, <2>2, <2>3, <2>4, <2>5
<1>4. CASE /\ Len(task) < NumSplits /\ task' = Append(task, "scan")
           /\ candidates' = Append(candidates, << >>) /\ UNCHANGED collector
  <2> DEFINE m == Len(task) + 1
  <2>1. /\ DOMAIN task = 1..Len(task) /\ DOMAIN candidates = 1..Len(task) /\ Len(task) \in Nat
        /\ DOMAIN task' = 1..m /\ DOMAIN candidates' = 1..m
        /\ Len(task') = m /\ Len(candidates') = m
        /\ task' \in Seq(TaskSteps) /\ candidates' \in Seq(Seq(ScanPaths))
    BY <1>4 DEF CollectTyped, TaskSteps
  <2>2. /\ task'[m] = "scan" /\ candidates'[m] = << >>
        /\ \A t \in DOMAIN task : task'[t] = task[t] /\ candidates'[t] = candidates[t]
    BY <1>4 DEF CollectTyped
  <2>3. DOMAIN task' = DOMAIN task \cup {m} /\ m \notin DOMAIN task
    BY <2>1
  <2> HIDE DEF m
  <2>4. CollectTyped'
    <3>1. m <= NumSplits
      BY <1>4, <2>1, CollectAssumption DEF m
    <3>2. broken' \subseteq DOMAIN task'
      BY <1>1, <2>3 DEF CollectTyped
    <3>3. error' \in BOOLEAN
      BY <1>1, Zenon DEF CollectTyped
    <3>4. QED
      BY <1>1, <1>4, <2>1, <3>1, <3>2, <3>3 DEF CollectTyped
  <2>5. EndedTasks' = EndedTasks
    BY <2>2, <2>3 DEF EndedTasks
  <2>6. BarrierRight'
    BY <1>1, <1>4, <2>5 DEF BarrierRight
  <2>7. ErrorRight'
    <3>1. m \notin broken
      BY <2>3 DEF CollectTyped
    <3>2. QED
      BY <1>1, <1>4, <2>2, <2>3, <3>1 DEF ErrorRight
  <2>8. FoundRight'
    <3>1. \A t \in DOMAIN task' : task'[t] \in {"scan", "catch"} => candidates'[t] = << >>
      BY <2>2, <2>3 DEF FoundRight
    <3>2. Range(candidates'[m]) = {}
      BY <2>2 DEF Range
    <3>3. \A p : (\E t \in DOMAIN task' : task'[t] # "insert" /\ p \in Range(candidates'[t]))
                   <=> \E t \in DOMAIN task : task[t] # "insert" /\ p \in Range(candidates[t])
      BY <2>2, <2>3, <3>2
    <3>4. QED
      BY <1>1, <3>1, <3>3 DEF FoundRight
  <2>9. ResultRight'
    BY <1>1, <1>4 DEF ResultRight
  <2>10. QED
    BY <2>4, <2>6, <2>7, <2>8, <2>9
<1>5. QED
  BY <1>3, <1>4 DEF ScheduleSplit

LEMMA ScanReturnsKept ==
  ASSUME CollectIInv, NEW t \in DOMAIN task, NEW has \in Seq(ScanPaths), ScanReturns(t, has)
  PROVE  CollectIInv'
<1> USE DEF CollectIInv
<1> DEFINE w == IF has = << >> THEN "leave" ELSE "insert"
<1>1. /\ task[t] = "scan" /\ task' = [task EXCEPT ![t] = w]
      /\ candidates' = [candidates EXCEPT ![t] = has]
      /\ UNCHANGED <<collector, inflight_tasks, error, gathered, broken>>
  BY DEF ScanReturns
<1>2. /\ DOMAIN task' = DOMAIN task /\ t \in DOMAIN candidates /\ task'[t] = w
      /\ DOMAIN candidates' = DOMAIN task /\ DOMAIN candidates = DOMAIN task
  BY <1>1 DEF CollectTyped
<1>3. w \in {"leave", "insert"} /\ (w = "leave" => has = << >>)
  OBVIOUS
<1> HIDE DEF w
<1>4. CollectTyped'
  <2>1. task' \in Seq(TaskSteps) /\ Len(task') = Len(task)
    BY <1>1, <1>3 DEF CollectTyped, TaskSteps
  <2>2. candidates' \in Seq(Seq(ScanPaths)) /\ Len(candidates') = Len(candidates)
    BY <1>1 DEF CollectTyped
  <2>3. error' \in BOOLEAN
    BY <1>1, Zenon DEF CollectTyped
  <2>4. QED
    BY <1>1, <1>2, <2>1, <2>2, <2>3 DEF CollectTyped
<1>5. EndedTasks' = EndedTasks
  BY <1>1, <1>3, SameEnded
<1>6. BarrierRight'
  BY <1>1, <1>5 DEF BarrierRight
<1>7. ErrorRight'
  BY <1>1, <1>2, <1>3 DEF ErrorRight
<1>8. FoundRight'
  <2>1. /\ candidates[t] = << >> /\ candidates'[t] = has
        /\ \A i \in DOMAIN task : i # t => task'[i] = task[i] /\ candidates'[i] = candidates[i]
    BY <1>1, <1>2 DEF FoundRight
  <2>2. Range(candidates[t]) = {}
    BY <2>1 DEF Range
  <2>3. task'[t] # "insert" => Range(candidates'[t]) = {}
    BY <1>2, <1>3, <2>1 DEF Range
  <2>4. \A p : (\E i \in DOMAIN task' : task'[i] # "insert" /\ p \in Range(candidates'[i]))
                 <=> \E i \in DOMAIN task : task[i] # "insert" /\ p \in Range(candidates[i])
    BY <1>2, <2>1, <2>2, <2>3
  <2>5. \A i \in DOMAIN task' : task'[i] \in {"scan", "catch"} => candidates'[i] = << >>
    BY <1>2, <1>3, <2>1 DEF FoundRight
  <2>6. QED
    BY <1>1, <2>4, <2>5 DEF FoundRight
<1>9. ResultRight'
  <2>1. collector # "returned"
    BY <1>1, NotOver
  <2>2. QED
    BY <1>1, <2>1 DEF ResultRight
<1>10. QED
  BY <1>4, <1>6, <1>7, <1>8, <1>9

LEMMA ScanThrowsKept ==
  ASSUME CollectIInv, NEW t \in DOMAIN task, ScanThrows(t)
  PROVE  CollectIInv'
<1> USE DEF CollectIInv
<1>1. /\ task[t] = "scan" /\ task' = [task EXCEPT ![t] = "catch"] /\ broken' = broken \cup {t}
      /\ UNCHANGED <<collector, candidates, inflight_tasks, error, gathered>>
  BY DEF ScanThrows
<1>2. DOMAIN task' = DOMAIN task /\ task'[t] = "catch"
  BY <1>1
<1>3. \A i \in DOMAIN task : i # t => task'[i] = task[i]
  BY <1>1
<1>4. CollectTyped'
  <2>1. task' \in Seq(TaskSteps) /\ Len(task') = Len(task)
    BY <1>1 DEF CollectTyped, TaskSteps
  <2>2. error' \in BOOLEAN
    BY <1>1, Zenon DEF CollectTyped
  <2>3. QED
    BY <1>1, <1>2, <2>1, <2>2 DEF CollectTyped
<1>5. EndedTasks' = EndedTasks
  BY <1>1, SameEnded
<1>6. BarrierRight'
  BY <1>1, <1>5 DEF BarrierRight
<1>7. ErrorRight'
  <2>1. collector # "returned" /\ collector # "threw"
    BY <1>1, NotOver
  <2>2. QED
    BY <1>1, <1>2, <1>3, <2>1 DEF ErrorRight
<1>8. FoundRight'
  BY <1>1, <1>2, <1>3 DEF FoundRight
<1>9. ResultRight'
  BY <1>1 DEF ResultRight, Sorted
<1>10. QED
  BY <1>4, <1>6, <1>7, <1>8, <1>9

LEMMA InsertFoundKept ==
  ASSUME CollectIInv, NEW t \in DOMAIN task, InsertFound(t)
  PROVE  CollectIInv'
<1> USE DEF CollectIInv
<1>1. /\ task[t] = "insert" /\ task' = [task EXCEPT ![t] = "leave"]
      /\ gathered' = gathered \o candidates[t]
      /\ UNCHANGED <<collector, candidates, inflight_tasks, error, broken>>
  BY DEF InsertFound
<1>2. DOMAIN task' = DOMAIN task /\ task'[t] = "leave" /\ candidates[t] \in Seq(ScanPaths)
  BY <1>1 DEF CollectTyped
<1>3. \A i \in DOMAIN task : i # t => task'[i] = task[i]
  BY <1>1
<1>4. CollectTyped'
  <2>1. task' \in Seq(TaskSteps) /\ Len(task') = Len(task)
    BY <1>1 DEF CollectTyped, TaskSteps
  <2>2. error' \in BOOLEAN
    BY <1>1, Zenon DEF CollectTyped
  <2>3. gathered' \in Seq(ScanPaths)
    BY <1>1, <1>2 DEF CollectTyped
  <2>4. QED
    BY <1>1, <1>2, <2>1, <2>2, <2>3 DEF CollectTyped
<1>5. EndedTasks' = EndedTasks
  BY <1>1, SameEnded
<1>6. BarrierRight'
  BY <1>1, <1>5 DEF BarrierRight
<1>7. ErrorRight'
  BY <1>1, <1>2, <1>3 DEF ErrorRight
<1>8. FoundRight'
  <2>1. \A p : p \in Range(gathered') <=> p \in Range(gathered) \/ p \in Range(candidates[t])
    BY <1>1, <1>2, Joined DEF CollectTyped
  <2>2. \A p : (\E i \in DOMAIN task' : task'[i] # "insert" /\ p \in Range(candidates'[i]))
          <=> \/ \E i \in DOMAIN task : task[i] # "insert" /\ p \in Range(candidates[i])
              \/ p \in Range(candidates[t])
    BY <1>1, <1>2, <1>3
  <2>3. \A i \in DOMAIN task' : task'[i] \in {"scan", "catch"} => candidates'[i] = << >>
    BY <1>1, <1>2, <1>3 DEF FoundRight
  <2>4. QED
    BY <2>1, <2>2, <2>3 DEF FoundRight
<1>9. ResultRight'
  <2>1. collector # "returned"
    BY <1>1, NotOver
  <2>2. QED
    BY <1>1, <2>1 DEF ResultRight
<1>10. QED
  BY <1>4, <1>6, <1>7, <1>8, <1>9

LEMMA StoreErrorKept ==
  ASSUME CollectIInv, NEW t \in DOMAIN task, StoreError(t)
  PROVE  CollectIInv'
<1> USE DEF CollectIInv
<1>1. /\ task[t] = "catch" /\ task' = [task EXCEPT ![t] = "leave"] /\ error' = TRUE
      /\ UNCHANGED <<collector, candidates, inflight_tasks, gathered, broken>>
  BY DEF StoreError
<1>2. DOMAIN task' = DOMAIN task /\ task'[t] = "leave"
  BY <1>1
<1>3. \A i \in DOMAIN task : i # t => task'[i] = task[i]
  BY <1>1
<1>4. CollectTyped'
  <2>1. task' \in Seq(TaskSteps) /\ Len(task') = Len(task)
    BY <1>1 DEF CollectTyped, TaskSteps
  <2>2. error' \in BOOLEAN
    BY <1>1, Zenon
  <2>3. QED
    BY <1>1, <1>2, <2>1, <2>2 DEF CollectTyped
<1>5. EndedTasks' = EndedTasks
  BY <1>1, SameEnded
<1>6. BarrierRight'
  BY <1>1, <1>5 DEF BarrierRight
<1>7. collector # "returned" /\ collector # "threw"
  BY <1>1, NotOver
<1>8. ErrorRight'
  BY <1>1, <1>2, <1>3, <1>7 DEF ErrorRight
<1>9. FoundRight'
  <2>1. \A p : (\E i \in DOMAIN task' : task'[i] # "insert" /\ p \in Range(candidates'[i]))
                 <=> \E i \in DOMAIN task : task[i] # "insert" /\ p \in Range(candidates[i])
    BY <1>1, <1>2, <1>3
  <2>2. \A i \in DOMAIN task' : task'[i] \in {"scan", "catch"} => candidates'[i] = << >>
    BY <1>1, <1>2, <1>3 DEF FoundRight
  <2>3. QED
    BY <1>1, <2>1, <2>2 DEF FoundRight
<1>10. ResultRight'
  BY <1>1, <1>7 DEF ResultRight
<1>11. QED
  BY <1>4, <1>6, <1>8, <1>9, <1>10

LEMMA LeaveTaskKept ==
  ASSUME CollectIInv, NEW t \in DOMAIN task, LeaveTask(t)
  PROVE  CollectIInv'
<1> USE DEF CollectIInv
<1>1. /\ task[t] = "leave" /\ task' = [task EXCEPT ![t] = "ended"]
      /\ inflight_tasks' = inflight_tasks - 1
      /\ collector' = IF inflight_tasks' = 0 /\ collector = "wait" THEN "awake" ELSE collector
      /\ UNCHANGED <<candidates, error, gathered, broken>>
  BY DEF LeaveTask, GuardRuns
<1>2. DOMAIN task' = DOMAIN task /\ task'[t] = "ended"
  BY <1>1
<1>3. \A i \in DOMAIN task : i # t => task'[i] = task[i]
  BY <1>1
<1>4. collector # "returned" /\ collector # "threw"
  BY <1>1, NotOver
<1>5. /\ collector' # "returned" /\ collector' # "threw"
      /\ collector' # "schedule" => collector # "schedule"
      /\ collector' \in {"schedule", "check", "wait", "awake"}
  BY <1>1, <1>4 DEF CollectTyped
<1>6. CollectTyped'
  <2>1. task' \in Seq(TaskSteps) /\ Len(task') = Len(task)
    BY <1>1 DEF CollectTyped, TaskSteps
  <2>2. error' \in BOOLEAN
    BY <1>1, Zenon DEF CollectTyped
  <2>3. QED
    BY <1>1, <1>2, <1>5, <2>1, <2>2 DEF CollectTyped
<1>7. BarrierRight'
  <2>1. EndedTasks' = EndedTasks \cup {t} /\ t \notin EndedTasks
    BY <1>1, <1>2, <1>3 DEF EndedTasks
  <2>2. Cardinality(EndedTasks \cup {t}) = Cardinality(EndedTasks) + 1
    BY <2>1, FiniteTasks, FS_AddElement
  <2>3. inflight_tasks' = NumSplits - Cardinality(EndedTasks')
    BY <1>1, <2>1, <2>2, FiniteTasks, CollectAssumption DEF BarrierRight
  <2>4. Cardinality(EndedTasks) \in Nat
    BY FiniteTasks
  <2>5. collector' = "wait" => inflight_tasks' > 0
    BY <1>1, <2>4, CollectAssumption DEF BarrierRight
  <2>6. QED
    BY <1>5, <2>3, <2>5 DEF BarrierRight
<1>8. ErrorRight'
  BY <1>1, <1>2, <1>3, <1>5 DEF ErrorRight
<1>9. FoundRight'
  <2>1. \A p : (\E i \in DOMAIN task' : task'[i] # "insert" /\ p \in Range(candidates'[i]))
                 <=> \E i \in DOMAIN task : task[i] # "insert" /\ p \in Range(candidates[i])
    BY <1>1, <1>2, <1>3
  <2>2. \A i \in DOMAIN task' : task'[i] \in {"scan", "catch"} => candidates'[i] = << >>
    BY <1>1, <1>2, <1>3 DEF FoundRight
  <2>3. QED
    BY <1>1, <2>1, <2>2 DEF FoundRight
<1>10. ResultRight'
  BY <1>5 DEF ResultRight
<1>11. QED
  BY <1>6, <1>7, <1>8, <1>9, <1>10

LEMMA WaitForTasksKept ==
  ASSUME CollectIInv, WaitForTasks
  PROVE  CollectIInv'
<1> USE DEF CollectIInv
<1>1. /\ collector \in {"check", "awake"}
      /\ UNCHANGED <<task, candidates, inflight_tasks, error, broken>>
  BY DEF WaitForTasks
<1>2. EndedTasks' = EndedTasks
  BY <1>1 DEF EndedTasks
<1>3. error' \in BOOLEAN
  BY <1>1, Zenon DEF CollectTyped
<1>4. CASE inflight_tasks > 0 /\ collector' = "wait" /\ UNCHANGED gathered
  <2>1. CollectTyped'
    BY <1>1, <1>3, <1>4 DEF CollectTyped
  <2>2. BarrierRight'
    BY <1>1, <1>2, <1>4 DEF BarrierRight
  <2>3. ErrorRight' /\ FoundRight' /\ ResultRight'
    BY <1>1, <1>4 DEF ErrorRight, FoundRight, ResultRight
  <2>4. QED
    BY <2>1, <2>2, <2>3
<1>5. CASE inflight_tasks = 0 /\ error /\ collector' = "threw" /\ UNCHANGED gathered
  <2>1. CollectTyped'
    BY <1>1, <1>3, <1>5 DEF CollectTyped
  <2>2. BarrierRight'
    BY <1>1, <1>2, <1>5 DEF BarrierRight
  <2>3. error = TRUE
    BY <1>5, Zenon DEF CollectTyped
  <2>4. ErrorRight'
    BY <1>1, <1>5, <2>3 DEF ErrorRight
  <2>5. FoundRight' /\ ResultRight'
    BY <1>1, <1>5 DEF FoundRight, ResultRight
  <2>6. QED
    BY <2>1, <2>2, <2>4, <2>5
<1>6. CASE /\ inflight_tasks = 0 /\ ~error /\ collector' = "returned"
           /\ \E s \in Orders(gathered) : Sorted(s) /\ gathered' \in Unique(s)
  <2>1. PICK s \in Orders(gathered) : Sorted(s) /\ gathered' \in Unique(s)
    BY <1>6
  <2>2. s \in Seq(ScanPaths) /\ Range(s) = Range(gathered)
    BY OrderOf DEF CollectTyped
  <2>3. /\ gathered' \in Seq(ScanPaths) /\ Range(gathered') = Range(s) /\ Sorted(gathered')
        /\ \A j \in DOMAIN gathered' : j + 1 \in DOMAIN gathered' => gathered'[j] # gathered'[j + 1]
    BY <2>1, <2>2, UniqueOf
  <2>4. CollectTyped'
    BY <1>1, <1>3, <1>6, <2>3 DEF CollectTyped
  <2>5. BarrierRight'
    BY <1>1, <1>2, <1>6 DEF BarrierRight
  <2>6. error = FALSE
    BY <1>6, Zenon DEF CollectTyped
  <2>7. ErrorRight'
    BY <1>1, <1>6, <2>6 DEF ErrorRight
  <2>8. FoundRight'
    BY <1>1, <2>2, <2>3 DEF FoundRight
  <2>9. ResultRight'
    BY <2>3 DEF ResultRight, Sorted
  <2>10. QED
    BY <2>4, <2>5, <2>7, <2>8, <2>9
<1>7. QED
  BY <1>4, <1>5, <1>6 DEF WaitForTasks

LEMMA CollectOthersKept ==
  ASSUME CollectIInv, WakesSpuriously \/ UNCHANGED collectVars
  PROVE  CollectIInv'
<1> USE DEF CollectIInv
<1>1. /\ UNCHANGED <<task, candidates, inflight_tasks, error, gathered, broken>>
      /\ collector' = collector \/ (collector = "wait" /\ collector' = "awake")
  BY DEF WakesSpuriously, collectVars
<1>2. CollectTyped'
  <2>1. error' \in BOOLEAN
    BY <1>1, Zenon DEF CollectTyped
  <2>2. QED
    BY <1>1, <2>1 DEF CollectTyped
<1>3. BarrierRight'
  <2>1. EndedTasks' = EndedTasks
    BY <1>1 DEF EndedTasks
  <2>2. QED
    BY <1>1, <2>1 DEF BarrierRight
<1>4. ErrorRight'
  BY <1>1 DEF ErrorRight
<1>5. FoundRight'
  BY <1>1 DEF FoundRight
<1>6. ResultRight'
  BY <1>1 DEF ResultRight, Sorted
<1>7. QED
  BY <1>2, <1>3, <1>4, <1>5, <1>6

\* GetDirtyCandidates keeps its count of tasks, its flag of errors and its
\* vector true to what the tasks have done, for any number of splits.
THEOREM CollectInvariant == CollectSpec => []CollectIInv
<1>1. CollectIInv /\ [CollectNext]_collectVars => CollectIInv'
  <2> SUFFICES ASSUME CollectIInv, [CollectNext]_collectVars PROVE CollectIInv'
    OBVIOUS
  <2>1. CASE ScheduleSplit
    BY <2>1, ScheduleSplitKept
  <2>2. CASE WaitForTasks
    BY <2>2, WaitForTasksKept
  <2>3. CASE WakesSpuriously \/ UNCHANGED collectVars
    BY <2>3, CollectOthersKept
  <2>4. ASSUME NEW t \in DOMAIN task, ScanThrows(t) PROVE CollectIInv'
    BY <2>4, ScanThrowsKept
  <2>5. ASSUME NEW t \in DOMAIN task, InsertFound(t) PROVE CollectIInv'
    BY <2>5, InsertFoundKept
  <2>6. ASSUME NEW t \in DOMAIN task, StoreError(t) PROVE CollectIInv'
    BY <2>6, StoreErrorKept
  <2>7. ASSUME NEW t \in DOMAIN task, LeaveTask(t) PROVE CollectIInv'
    BY <2>7, LeaveTaskKept
  <2>8. ASSUME NEW t \in DOMAIN task, NEW n \in 0..MaxFound,
               NEW has \in [1..n -> ScanPaths], ScanReturns(t, has)
        PROVE  CollectIInv'
    <3>1. has \in Seq(ScanPaths)
      BY CollectAssumption
    <3>2. QED
      BY <2>8, <3>1, ScanReturnsKept
  <2>9. QED
    BY <2>1, <2>2, <2>3, <2>4, <2>5, <2>6, <2>7, <2>8 DEF CollectNext
<1>2. QED
  BY <1>1, CollectInitIInv, PTL DEF CollectSpec

\* GetDirtyCandidates waits for all its tasks, throws if and only if one has
\* failed, and otherwise returns what they have found, sorted and each path
\* once unless another differs from it only in case.
THEOREM CollectAlwaysRight == CollectSpec => []CollectRight
<1>1. CollectIInv => CollectRight
  <2> SUFFICES ASSUME CollectIInv PROVE CollectRight
    OBVIOUS
  <2> USE DEF CollectIInv
  <2>1. collector = "wait" => \E t \in DOMAIN task : task[t] # "ended"
    <3>1. SUFFICES ASSUME collector = "wait", \A t \in DOMAIN task : task[t] = "ended"
                   PROVE  FALSE
      OBVIOUS
    <3>2. EndedTasks = DOMAIN task /\ Len(task) = NumSplits
      BY <3>1 DEF EndedTasks, CollectTyped
    <3>3. inflight_tasks = 0
      BY <3>2, FiniteTasks, CollectAssumption DEF BarrierRight
    <3>4. QED
      BY <3>1, <3>3 DEF BarrierRight
  <2>2. ASSUME collector \in {"returned", "threw"}
        PROVE  /\ Len(task) = NumSplits /\ Range(task) \subseteq {"ended"}
               /\ collector = "threw" <=> broken # {}
    <3>1. Len(task) = NumSplits /\ \A t \in DOMAIN task : task[t] = "ended"
      BY <2>2, AllEnded DEF BarrierRight
    <3>2. collector = "threw" => broken # {}
      BY DEF ErrorRight
    <3>3. broken # {} => error = TRUE
      BY <3>1 DEF ErrorRight, CollectTyped
    <3>4. broken # {} => collector # "returned"
      BY <3>3 DEF ErrorRight
    <3>5. QED
      BY <2>2, <3>1, <3>2, <3>4 DEF Range
  <2>3. ASSUME collector = "returned"
        PROVE  Range(gathered) = UNION {Range(candidates[t]) : t \in DOMAIN candidates}
    <3>1. \A t \in DOMAIN task : task[t] = "ended"
      BY <2>3, AllEnded DEF BarrierRight
    <3>2. DOMAIN task = DOMAIN candidates
      BY DEF CollectTyped
    <3>3. \A p : p \in Range(gathered) <=> \E t \in DOMAIN candidates : p \in Range(candidates[t])
      BY <3>1, <3>2 DEF FoundRight
    <3>4. QED
      BY <3>3
  <2>4. ASSUME collector = "returned",
               NEW j \in DOMAIN gathered, NEW k \in DOMAIN gathered,
               j < k, gathered[j] = gathered[k]
        PROVE  \E i \in j..k : gathered[i] # gathered[j] /\ Rank[gathered[i]] = Rank[gathered[j]]
    <3>1. DOMAIN gathered = 1..Len(gathered) /\ Len(gathered) \in Nat
      BY DEF CollectTyped
    <3>2. j + 1 \in DOMAIN gathered /\ j < j + 1 /\ j + 1 <= k /\ j + 1 \in j..k
      BY <2>4, <3>1
    <3>3. gathered[j] # gathered[j + 1]
      BY <2>4, <3>2 DEF ResultRight
    <3>4. \A a, b \in DOMAIN gathered : a < b => Rank[gathered[a]] <= Rank[gathered[b]]
      BY <2>4 DEF ResultRight, Sorted
    <3>5. j + 1 < k
      <4>1. j + 1 # k
        BY <2>4, <3>3
      <4>2. QED
        BY <4>1, <3>1, <3>2
    <3>6. Rank[gathered[j]] <= Rank[gathered[j + 1]] /\ Rank[gathered[j + 1]] <= Rank[gathered[k]]
      BY <3>2, <3>4, <3>5
    <3>7. gathered[j] \in ScanPaths /\ gathered[j + 1] \in ScanPaths
      BY <3>2 DEF CollectTyped
    <3>8. Rank[gathered[j]] \in Nat /\ Rank[gathered[j + 1]] \in Nat
      BY <3>7, CollectAssumption
    <3>9. Rank[gathered[j + 1]] = Rank[gathered[j]]
      BY <2>4, <3>6, <3>8
    <3>10. QED
      BY <3>2, <3>3, <3>9
  <2>5. collector = "returned" => Sorted(gathered)
    BY DEF ResultRight
  <2>6. QED
    BY <2>1, <2>2, <2>3, <2>4, <2>5 DEF CollectRight
<1>2. QED
  BY <1>1, CollectInvariant, PTL

-----------------------------------------------------------------------------
(***************************************************************************)
(* The entries of a directory in their buffers.                            *)
(***************************************************************************)
Byte == 0..(Base - 1)
Buffer == [1..kBufSize -> Byte]
Entry == [buf : Nat, pos : Nat]

\* The name at p in b, with its d_type in front and its 0 behind.
NamedAt(b, p, name) ==
    /\ b[p] = TypeByte /\ b[p + Len(name) + 1] = 0
    /\ \A j \in 1..Len(name) : b[p + j] = name[j]

HasName(m, e, name) ==
    /\ e.buf \in 1..Len(m) /\ NameOffset <= e.pos
    /\ e.pos - NameOffset + RecLen(name) <= kBufSize - RainyDay
    /\ NamedAt(m[e.buf], e.pos, name)

\* Two entries do not overlap.
InFront(e, name, f) == e.pos + RecLen(name) <= f.pos
Apart(e, name, f, other) ==
    /\ name # other
    /\ e.buf # f.buf \/ InFront(e, name, f) \/ InFront(f, other, e)

Layout(m, es, nm) ==
    /\ es \subseteq Entry /\ nm \in [es -> EntryNames]
    /\ \A e \in es : HasName(m, e, nm[e])
    /\ \A e, f \in es : e # f => Apart(e, nm[e], f, nm[f])

SortKey(cs, name) == IF cs THEN name ELSE Fold(name)
ListSorted(cs, es, nm) ==
    \A j, k \in 1..Len(es) : j < k => ~Precedes(SortKey(cs, nm[es[k]]), SortKey(cs, nm[es[j]]))

ListTypes ==
    /\ listing \in {"read", "listed", "failed"} /\ case_sensitive \in BOOLEAN
    /\ listed \subseteq EntryNames /\ remaining \subseteq listed
    /\ buffers \in Seq(Buffer) /\ entries_ \in Seq(Entry)
    /\ \A j, k \in 1..Len(entries_) : entries_[j] = entries_[k] => j = k

\* The entries have the names that have been returned, each where it says.
Returned ==
    \E nm \in [Range(entries_) -> EntryNames] :
       /\ Layout(buffers, Range(entries_), nm)
       /\ {nm[e] : e \in Range(entries_)} = {s \in listed \ remaining : ~Dots(s)}
       /\ listing = "listed" => ListSorted(case_sensitive, entries_, nm)

ListIInv ==
    /\ ListTypes
    /\ listing = "failed" => entries_ = << >>
    /\ listing # "failed" => Returned
    /\ listing = "listed" => remaining = {}

-----------------------------------------------------------------------------
\* What holds at 0, and at i + 1 whenever at i, holds up to n.
LEMMA UpTo ==
    ASSUME NEW n \in Nat, NEW G, 0 \in G, \A i \in 0..n - 1 : i \in G => i + 1 \in G
    PROVE  0..n \subseteq G
<1> SUFFICES ASSUME (0..n) \ G # {} PROVE FALSE
  OBVIOUS
<1>1. (0..n) \ G \subseteq Nat
  OBVIOUS
<1>2. \E i \in (0..n) \ G : \A j \in (0..n) \ G : i <= j
  BY <1>1, LeastOf
<1>3. PICK i \in (0..n) \ G : \A j \in (0..n) \ G : i <= j
  BY <1>2
<1>4. i \in 0..n /\ i # 0 /\ i \notin G
  OBVIOUS
<1>5. i - 1 \in 0..n - 1 /\ ~(i <= i - 1) /\ i - 1 + 1 = i /\ i - 1 \in 0..n
  BY <1>4
<1>6. i - 1 \in G
  BY <1>3, <1>5
<1> QED BY <1>4, <1>5, <1>6

\* What a loop of n steps makes of x, of which the i-th one is F[i].
Iterates(g, S, F, x, n) ==
    g \in [0..n -> S] /\ g[0] = x /\ \A i \in 1..n : g[i] = F[i][g[i - 1]]

LEMMA Iterated ==
    ASSUME NEW S, NEW n \in Nat, NEW F \in [1..n -> [S -> S]], NEW x \in S
    PROVE  \E g : Iterates(g, S, F, x, n)
<1> USE DEF Iterates
<1> DEFINE Is(g, k) == g[0] = x /\ \A i \in 1..k : g[i] = F[i][g[i - 1]]
           G == {k \in 0..n : \E g \in [0..k -> S] : Is(g, k)}
<1>1. 0 \in G
  <2> DEFINE g == [i \in 0..0 |-> x]
  <2>1. g \in [0..0 -> S]
    OBVIOUS
  <2>2. \A i \in 0..0 : i = 0
    OBVIOUS
  <2>3. Is(g, 0)
    BY <2>2
  <2> HIDE DEF g
  <2> QED BY <2>1, <2>3
<1>2. ASSUME NEW k \in 0..n - 1, k \in G
      PROVE  k + 1 \in G
  <2>1. PICK g \in [0..k -> S] : Is(g, k)
    BY <1>2
  <2> DEFINE h == [i \in 0..k + 1 |-> IF i = 0 THEN x ELSE F[i][g[i - 1]]]
  <2>2. \A i \in 0..k + 1 : i = 0 \/ (i - 1 \in 0..k /\ i \in 1..n)
    OBVIOUS
  <2>3. h \in [0..k + 1 -> S]
    BY <2>2
  <2>4. \A i \in 0..k : h[i] = g[i]
    <3>1. \A i \in 0..k : i \in 0..k + 1
      OBVIOUS
    <3>2. \A i \in 0..k : g[i] = IF i = 0 THEN x ELSE F[i][g[i - 1]]
      BY <2>1
    <3> QED BY <3>1, <3>2
  <2>5. Is(h, k + 1)
    <3>1. \A i \in 1..k + 1 : h[i] = F[i][g[i - 1]] /\ i - 1 \in 0..k
      OBVIOUS
    <3>2. h[0] = x
      OBVIOUS
    <3> HIDE DEF h
    <3> QED BY <2>4, <3>1, <3>2
  <2>6. k + 1 \in 0..n
    OBVIOUS
  <2> HIDE DEF h
  <2>7. \E e \in [0..k + 1 -> S] : Is(e, k + 1)
    BY <2>3, <2>5
  <2> QED BY <2>6, <2>7
<1>3. 0..n \subseteq G
  <2> HIDE DEF G
  <2> QED BY <1>1, <1>2, UpTo
<1> QED BY <1>3

-----------------------------------------------------------------------------
(***************************************************************************)
(* What the kernel writes.                                                 *)
(***************************************************************************)
LEMMA ListingFacts ==
    /\ Base \in Nat /\ WordSize \in Nat /\ NameOffset \in Nat /\ kBufSize \in Nat
    /\ RainyDay \in Nat /\ Luck \in Nat
    /\ HeaderByte \in Byte /\ TypeByte \in Byte /\ StaleBytes \subseteq Byte /\ 0 \in Byte
    /\ 2 <= Luck /\ Luck <= WordSize /\ WordSize < NameOffset /\ WordSize <= RainyDay
BY ListingAssumption DEF Byte

LEMMA NameFacts ==
    ASSUME NEW s \in EntryNames
    PROVE  /\ s \in Seq(Byte) /\ Len(s) \in Nat /\ Len(s) >= 1 /\ Len(s) < RainyDay
           /\ \A j \in 1..Len(s) : s[j] \in Byte /\ s[j] # 0 /\ s[j] \in 1..(Base - 1)
<1>1. s # << >> /\ s \in Seq(1..(Base - 1)) /\ Len(s) < RainyDay
  BY ListingAssumption
<1>2. \A j \in 1..Len(s) : s[j] \in 1..(Base - 1)
  <2> DEFINE D == 1..(Base - 1)
  <2>1. s \in Seq(D)
    BY <1>1
  <2> HIDE DEF D
  <2>2. \A j \in 1..Len(s) : s[j] \in D
    BY <2>1
  <2> QED BY <2>2 DEF D
<1>3. \A j \in 1..Len(s) : s[j] \in Byte /\ s[j] # 0
  BY <1>2, ListingFacts DEF Byte
<1>4. s \in Seq(Byte)
  BY <1>1, <1>3
<1> QED BY <1>1, <1>2, <1>3, <1>4

LEMMA JoinedBytes ==
    ASSUME NEW S, NEW p \in Seq(S), NEW q \in Seq(S)
    PROVE  /\ p \o q \in Seq(S) /\ Len(p \o q) = Len(p) + Len(q)
           /\ \A j \in 1..Len(p) : (p \o q)[j] = p[j]
           /\ \A j \in 1..Len(q) : (p \o q)[Len(p) + j] = q[j]
OBVIOUS

\* d_reclen is enough for the name and its 0, and more than a word.
LEMMA RecLenFacts ==
    ASSUME NEW s \in EntryNames
    PROVE  /\ RecLen(s) \in Nat /\ RecLen(s) >= NameOffset + Len(s) + 1
           /\ RecLen(s) >= NameOffset + Luck
<1> DEFINE x == NameOffset + Len(s) + WordSize
           q == x \div WordSize
           a == (NameOffset + Luck) \div WordSize
<1>1. WordSize \in Nat /\ WordSize > 0 /\ x \in Nat /\ NameOffset + Luck \in Nat /\ Len(s) \in Nat
  BY ListingFacts, NameFacts
<1>2. q \in Nat /\ WordSize * q <= x /\ x < WordSize * q + WordSize
  <2> HIDE DEF x
  <2> QED BY <1>1
<1>3. a \in Nat /\ NameOffset + Luck = WordSize * a
  <2> DEFINE y == NameOffset + Luck
  <2>1. y % WordSize = 0 /\ y \in Nat
    BY <1>1, ListingAssumption
  <2> HIDE DEF y
  <2>2. y \div WordSize \in Nat /\ y = WordSize * (y \div WordSize) + (y % WordSize)
    BY <1>1, <2>1
  <2>3. y = WordSize * (y \div WordSize)
    BY <1>1, <2>1, <2>2
  <2> QED BY <2>2, <2>3 DEF y
<1> HIDE DEF q, a
<1>4. RecLen(s) = WordSize * q
  BY DEF RecLen, q
<1>5. WordSize * q \in Nat /\ WordSize * a \in Nat
  BY <1>1, <1>2, <1>3
<1>6. WordSize * q >= NameOffset + Len(s) + 1
  BY <1>1, <1>2, <1>5, ListingFacts
<1>7. WordSize * q >= WordSize * a
  <2> SUFFICES ASSUME ~(WordSize * q >= WordSize * a) PROVE FALSE
    OBVIOUS
  <2>1. q < a
    <3> SUFFICES ASSUME q >= a PROVE FALSE
      BY <1>2, <1>3
    <3>1. WordSize * q >= WordSize * a
      BY <1>1, <1>2, <1>3
    <3> QED BY <3>1
  <2>2. WordSize * (q + 1) <= WordSize * a
    <3>1. q + 1 <= a
      BY <1>2, <1>3, <2>1
    <3>2. q + 1 \in Nat
      BY <1>2
    <3> QED BY <1>1, <1>3, <3>1, <3>2
  <2>3. WordSize * (q + 1) = WordSize * q + WordSize
    BY <1>1, <1>2
  <2> QED BY <1>1, <1>3, <1>5, <1>6, <2>2, <2>3, ListingFacts
<1> QED BY <1>3, <1>4, <1>5, <1>6, <1>7

\* Where the name is in what the kernel writes of it.
LEMMA DirentIs ==
    ASSUME NEW s \in EntryNames, NEW stale \in StaleBytes
    PROVE  /\ Dirent(s, stale) \in Seq(Byte) /\ Len(Dirent(s, stale)) = RecLen(s)
           /\ NamedAt(Dirent(s, stale), NameOffset, s)
<1> DEFINE h == Bytes(HeaderByte, NameOffset - 1)
           t == Bytes(stale, RecLen(s) - NameOffset - Len(s) - 1)
           n == NameOffset
<1>1. n \in Nat /\ n >= 1 /\ Len(s) \in Nat /\ RecLen(s) - n - Len(s) - 1 \in Nat /\ s \in Seq(Byte)
  BY ListingFacts, NameFacts, RecLenFacts
<1>2. h \in Seq(Byte) /\ Len(h) = n - 1
  BY <1>1, ListingFacts DEF Bytes
<1>3. t \in Seq(Byte) /\ Len(t) = RecLen(s) - n - Len(s) - 1
  BY <1>1, ListingFacts DEF Bytes
<1>4. <<TypeByte>> \in Seq(Byte) /\ <<0>> \in Seq(Byte) /\ Len(<<TypeByte>>) = 1 /\ Len(<<0>>) = 1
  BY ListingFacts
<1>5. Dirent(s, stale) = h \o <<TypeByte>> \o s \o <<0>> \o t
  BY DEF Dirent
<1> HIDE DEF h, t
<1> DEFINE u == h \o <<TypeByte>>
           v == u \o s
           w == v \o <<0>>
           z == w \o t
<1>6. u \in Seq(Byte) /\ Len(u) = n /\ u[n] = TypeByte
  BY <1>1, <1>2, <1>4
<1> HIDE DEF u
<1>7. /\ v \in Seq(Byte) /\ Len(v) = n + Len(s) /\ v[n] = TypeByte
      /\ \A j \in 1..Len(s) : v[n + j] = s[j]
  <2>1. n \in 1..Len(u)
    BY <1>1, <1>6
  <2>2. /\ u \o s \in Seq(Byte) /\ Len(u \o s) = Len(u) + Len(s)
        /\ \A j \in 1..Len(u) : (u \o s)[j] = u[j]
        /\ \A j \in 1..Len(s) : (u \o s)[Len(u) + j] = s[j]
    <3>1. u \in Seq(Byte) /\ s \in Seq(Byte)
      BY <1>1, <1>6
    <3> QED BY <3>1, JoinedBytes
  <2> HIDE DEF n
  <2> QED BY <1>6, <2>1, <2>2
<1> HIDE DEF v
<1>8. /\ w \in Seq(Byte) /\ Len(w) = n + Len(s) + 1 /\ w[n + Len(s) + 1] = 0
      /\ \A j \in 1..n + Len(s) : w[j] = v[j]
  <2>1. 1 \in 1..Len(<<0>>) /\ <<0>>[1] = 0
    BY <1>4
  <2> QED BY <1>4, <1>7, <2>1, JoinedBytes
<1> HIDE DEF w
<1>9. z \in Seq(Byte) /\ Len(z) = RecLen(s) /\ \A j \in 1..n + Len(s) + 1 : z[j] = w[j]
  <2>1. z \in Seq(Byte) /\ Len(z) = Len(w) + Len(t) /\ \A j \in 1..Len(w) : z[j] = w[j]
    BY <1>3, <1>8, JoinedBytes
  <2>2. Len(w) + Len(t) = RecLen(s)
    <3>1. RecLen(s) \in Nat
      BY RecLenFacts
    <3> HIDE DEF n
    <3> QED BY <1>1, <1>3, <1>8, <3>1
  <2> QED BY <1>8, <2>1, <2>2
<1> HIDE DEF z
<1>10. n \in 1..n + Len(s) /\ n \in 1..n + Len(s) + 1 /\ n + Len(s) + 1 \in 1..n + Len(s) + 1
       /\ \A j \in 1..Len(s) : n + j \in 1..n + Len(s) /\ n + j \in 1..n + Len(s) + 1
  BY <1>1
<1>11. NamedAt(z, n, s)
  <2> HIDE DEF n
  <2> QED BY <1>7, <1>8, <1>9, <1>10 DEF NamedAt
<1>12. Dirent(s, stale) = z
  BY <1>5 DEF u, v, w, z
<1> QED BY <1>9, <1>11, <1>12

\* A name is where its bytes are.
LEMMA NamedMoves ==
    ASSUME NEW s \in EntryNames, NEW b, NEW p \in Nat, NamedAt(b, p, s),
           NEW c, NEW q \in Nat, \A j \in 0..Len(s) + 1 : c[q + j] = b[p + j]
    PROVE  NamedAt(c, q, s)
<1> DEFINE n == Len(s)
<1>1. n \in Nat
  BY NameFacts
<1>2. b[p] = TypeByte /\ b[p + n + 1] = 0 /\ \A j \in 1..n : b[p + j] = s[j]
  BY DEF NamedAt
<1> HIDE DEF n
<1>3. 0 \in 0..n + 1 /\ n + 1 \in 0..n + 1 /\ \A j \in 1..n : j \in 0..n + 1
  BY <1>1
<1>4. \A j \in 0..n + 1 : c[q + j] = b[p + j]
  BY DEF n
<1>5. c[q + 0] = b[p + 0] /\ c[q + (n + 1)] = b[p + (n + 1)] /\ \A j \in 1..n : c[q + j] = s[j]
  BY <1>2, <1>3, <1>4
<1>6. q + 0 = q /\ p + 0 = p /\ q + (n + 1) = q + n + 1 /\ p + (n + 1) = p + n + 1
  BY <1>1
<1>7. c[q] = TypeByte /\ c[q + n + 1] = 0
  BY <1>2, <1>5, <1>6
<1> QED BY <1>5, <1>7 DEF NamedAt, n

\* The first k entries are in front of the next one.
Chunks(first, names, stale) ==
    /\ \A k \in 0..Len(names) : first[k] \in Seq(Byte)
    /\ first[0] = << >>
    /\ \A k \in 1..Len(names) : first[k] = first[k - 1] \o Dirent(names[k], stale)

LEMMA DirentsAre ==
    ASSUME NEW names \in Seq(EntryNames), NEW stale \in StaleBytes
    PROVE  Chunks(Dirents(names, stale), names, stale)
<1> DEFINE n == Len(names)
           S == Seq(Byte)
           Is(g) == g = [k \in 0..n |-> IF k = 0 THEN << >> ELSE g[k - 1] \o Dirent(names[k], stale)]
           D == CHOOSE g : Is(g)
           F == [k \in 1..n |-> [x \in S |-> x \o Dirent(names[k], stale)]]
<1>0. n \in Nat
  OBVIOUS
<1>1. \A k \in 1..n : Dirent(names[k], stale) \in S
  <2> TAKE k \in 1..n
  <2>1. names[k] \in EntryNames
    OBVIOUS
  <2> QED BY <2>1, DirentIs
<1>2. F \in [1..n -> [S -> S]]
  <2>1. \A k \in 1..n : \A x \in S : x \o Dirent(names[k], stale) \in S
    <3> TAKE k \in 1..n
    <3> TAKE x \in S
    <3>1. Dirent(names[k], stale) \in Seq(Byte) /\ x \in Seq(Byte)
      BY <1>1
    <3> QED BY <3>1, JoinedBytes
  <2> HIDE DEF S, n
  <2> QED BY <2>1
<1>3. \E g : Is(g)
  <2>1. \E g : Iterates(g, S, F, << >>, n)
    <3>1. << >> \in S
      OBVIOUS
    <3> HIDE DEF S, F, n
    <3> QED BY <1>0, <1>2, <3>1, Iterated
  <2>2. PICK g : Iterates(g, S, F, << >>, n)
    BY <2>1
  <2>3. g \in [0..n -> S] /\ g[0] = << >> /\ \A i \in 1..n : g[i] = F[i][g[i - 1]]
    BY <2>2 DEF Iterates
  <2>4. \A i \in 0..n : i # 0 => i \in 1..n /\ i - 1 \in 0..n
    BY <1>0
  <2>5. \A i \in 0..n : i # 0 => g[i] = g[i - 1] \o Dirent(names[i], stale)
    <3> TAKE i \in 0..n
    <3>1. i # 0 => i \in 1..n /\ g[i - 1] \in S
      BY <2>3, <2>4
    <3> HIDE DEF S, n
    <3> QED BY <2>3, <3>1
  <2>6. Is(g)
    <3> HIDE DEF n, S
    <3> QED BY <2>3, <2>5
  <2> QED BY <2>6
<1>4. Is(D)
  <2> HIDE DEF Is
  <2> QED BY <1>3
<1>5. Dirents(names, stale) = D
  BY DEF Dirents
<1> HIDE DEF D
<1>6. D[0] = << >> /\ \A k \in 1..n : D[k] = D[k - 1] \o Dirent(names[k], stale)
  <2>1. 0 \in 0..n /\ \A k \in 1..n : k \in 0..n /\ k # 0
    BY <1>0
  <2> HIDE DEF n
  <2> QED BY <1>4, <2>1
<1>7. \A k \in 0..n : D[k] \in S
  <2> DEFINE G == {k \in 0..n : D[k] \in S}
  <2>1. 0 \in G
    <3>1. 0 \in 0..n /\ << >> \in S
      BY <1>0
    <3> HIDE DEF n, S
    <3> QED BY <1>6, <3>1
  <2>2. ASSUME NEW k \in 0..n - 1, k \in G
        PROVE  k + 1 \in G
    <3>1. k + 1 \in 1..n /\ k + 1 - 1 = k /\ k + 1 \in 0..n
      BY <1>0
    <3>2. D[k] \in Seq(Byte) /\ Dirent(names[k + 1], stale) \in Seq(Byte)
      BY <1>1, <2>2, <3>1
    <3>3. D[k + 1] = D[k] \o Dirent(names[k + 1], stale)
      <4> DEFINE i == k + 1
      <4>1. i \in 1..n /\ i - 1 = k
        BY <3>1
      <4> HIDE DEF i, n
      <4>2. D[i] = D[i - 1] \o Dirent(names[i], stale)
        BY <1>6, <4>1
      <4> QED BY <4>1, <4>2 DEF i
    <3>4. D[k + 1] \in Seq(Byte)
      BY <3>2, <3>3, JoinedBytes
    <3> QED BY <3>1, <3>4
  <2>3. 0..n \subseteq G
    <3> HIDE DEF G, n
    <3> QED BY <1>0, <2>1, <2>2, UpTo
  <2> QED BY <2>3
<1> QED BY <1>5, <1>6, <1>7 DEF Chunks

\* Each of the entries is behind the ones before it.
Place(first, names, i, k) ==
    /\ Len(first[i - 1]) + RecLen(names[i]) <= Len(first[k])
    /\ NamedAt(first[k], Len(first[i - 1]) + NameOffset, names[i])

LEMMA DirentsPlace ==
    ASSUME NEW names \in Seq(EntryNames), NEW stale \in StaleBytes,
           NEW first, Chunks(first, names, stale)
    PROVE  \A k \in 0..Len(names) : \A i \in 1..k : Place(first, names, i, k)
<1> DEFINE n == Len(names)
           G == {k \in 0..n : \A i \in 1..k : Place(first, names, i, k)}
<1>0. n \in Nat
  OBVIOUS
<1>1. 0 \in G
  BY <1>0
<1>2. ASSUME NEW k \in 0..n - 1, k \in G
      PROVE  k + 1 \in G
  <2> DEFINE s == names[k + 1]
             a == first[k]
             b == Dirent(s, stale)
             c == first[k + 1]
  <2>1. k \in Nat /\ k + 1 \in 1..n /\ k + 1 - 1 = k /\ k + 1 \in 0..n /\ k \in 0..n
    BY <1>0
  <2>2. s \in EntryNames
    BY <2>1
  <2>3. a \in Seq(Byte) /\ c = a \o b
    <3>1. first[k] \in Seq(Byte)
      BY <2>1 DEF Chunks
    <3> DEFINE i == k + 1
    <3>2. i \in 1..n /\ i - 1 = k
      BY <2>1
    <3> HIDE DEF i
    <3>3. first[i] = first[i - 1] \o Dirent(names[i], stale)
      BY <3>2 DEF Chunks
    <3> QED BY <3>1, <3>2, <3>3 DEF i
  <2>4. b \in Seq(Byte) /\ Len(b) = RecLen(s) /\ NamedAt(b, NameOffset, s)
    BY <2>2, DirentIs
  <2> HIDE DEF a, b, c
  <2>5. /\ Len(c) = Len(a) + RecLen(s) /\ Len(a) \in Nat /\ RecLen(s) \in Nat
        /\ \A j \in 1..Len(a) : c[j] = a[j]
        /\ \A j \in 1..RecLen(s) : c[Len(a) + j] = b[j]
    <3>1. RecLen(s) \in Nat /\ Len(a) \in Nat
      BY <2>2, <2>3, RecLenFacts
    <3>2. /\ Len(a \o b) = Len(a) + Len(b) /\ \A j \in 1..Len(a) : (a \o b)[j] = a[j]
          /\ \A j \in 1..Len(b) : (a \o b)[Len(a) + j] = b[j]
      <4>1. a \in Seq(Byte) /\ b \in Seq(Byte)
        BY <2>3, <2>4
      <4> QED BY <4>1, JoinedBytes
    <3> QED BY <2>3, <2>4, <3>1, <3>2
  <2>6. ASSUME NEW i \in 1..k
        PROVE  Place(first, names, i, k + 1)
    <3> DEFINE u == names[i]
               p == Len(first[i - 1])
    <3>1. p + RecLen(u) <= Len(a) /\ NamedAt(a, p + NameOffset, u)
      BY <1>2 DEF Place, a
    <3>2. i \in 1..n /\ i - 1 \in 0..n
      BY <1>0
    <3>3. u \in EntryNames
      BY <3>2
    <3>4. first[i - 1] \in Seq(Byte)
      BY <3>2 DEF Chunks
    <3>5. p \in Nat
      BY <3>4
    <3> HIDE DEF u, p
    <3>6. /\ RecLen(u) \in Nat /\ RecLen(u) >= NameOffset + Len(u) + 1 /\ Len(u) \in Nat
          /\ NameOffset \in Nat /\ NameOffset >= 1
      BY <3>3, RecLenFacts, NameFacts, ListingFacts
    <3>7. \A j \in 0..Len(u) + 1 : p + NameOffset + j \in 1..Len(a)
      BY <2>5, <3>1, <3>5, <3>6
    <3>8. NamedAt(c, p + NameOffset, u)
      <4>1. p + NameOffset \in Nat
        BY <3>5, <3>6
      <4>2. \A j \in 0..Len(u) + 1 : c[p + NameOffset + j] = a[p + NameOffset + j]
        BY <2>5, <3>7
      <4> QED BY <3>1, <3>3, <4>1, <4>2, NamedMoves
    <3>9. p + RecLen(u) <= Len(c)
      BY <2>5, <3>1, <3>5, <3>6
    <3> QED BY <3>8, <3>9 DEF Place, u, p, c
  <2>7. Place(first, names, k + 1, k + 1)
    <3>1. /\ RecLen(s) >= NameOffset + Len(s) + 1 /\ Len(s) \in Nat /\ NameOffset \in Nat /\ NameOffset >= 1
      BY <2>2, RecLenFacts, NameFacts, ListingFacts
    <3>2. \A j \in 0..Len(s) + 1 : NameOffset + j \in 1..RecLen(s)
      BY <2>5, <3>1
    <3>3. \A j \in 0..Len(s) + 1 : c[Len(a) + NameOffset + j] = b[NameOffset + j]
      <4> TAKE j \in 0..Len(s) + 1
      <4>1. c[Len(a) + (NameOffset + j)] = b[NameOffset + j]
        BY <2>5, <3>2
      <4>2. Len(a) + (NameOffset + j) = Len(a) + NameOffset + j
        BY <2>5, <3>1
      <4> QED BY <4>1, <4>2
    <3>4. NamedAt(c, Len(a) + NameOffset, s)
      <4>1. Len(a) + NameOffset \in Nat
        BY <2>5, <3>1
      <4> HIDE DEF s
      <4> QED BY <2>2, <2>4, <3>1, <3>3, <4>1, NamedMoves
    <3>5. Len(a) + RecLen(s) <= Len(c)
      BY <2>5
    <3> HIDE DEF s
    <3>6. first[k + 1 - 1] = a
      BY <2>1 DEF a
    <3> QED BY <3>4, <3>5, <3>6 DEF Place, s, c
  <2>8. \A i \in 1..k + 1 : i \in 1..k \/ i = k + 1
    BY <2>1
  <2>9. \A i \in 1..k + 1 : Place(first, names, i, k + 1)
    BY <2>6, <2>7, <2>8
  <2> QED BY <2>1, <2>9
<1>3. 0..n \subseteq G
  <2> HIDE DEF G, n
  <2> QED BY <1>0, <1>1, <1>2, UpTo
<1> QED BY <1>3

\* An enumeration of a finite set.
LEMMA Enumerates ==
    ASSUME NEW S, IsFiniteSet(S), NEW t \in SetToSeqs(S)
    PROVE  /\ t \in Seq(S) /\ Range(t) = S
           /\ \A j, k \in 1..Len(t) : t[j] = t[k] => j = k
<1> DEFINE n == Cardinality(S)
<1>0. n \in Nat
  BY FS_CardinalityType
<1>1. t \in [1..n -> S] /\ \A j, k \in 1..n : j # k => t[j] # t[k]
  BY DEF SetToSeqs
<1>2. t \in Seq(S) /\ Len(t) = n
  BY <1>0, <1>1
<1>3. t \in Injection(1..n, S)
  BY <1>1 DEF Injection, IsInjective
<1>4. Cardinality(1..n) = n
  BY <1>0, FS_Interval
<1>5. t \in Surjection(1..n, S)
  <2> HIDE DEF n
  <2>1. IsFiniteSet(S) /\ Cardinality(S) = n
    BY DEF n
  <2> QED BY <1>3, <1>4, <2>1, FS_Injection
<1>6. \A x \in S : \E k \in 1..n : t[k] = x
  BY <1>5 DEF Surjection
<1>7. Range(t) = S
  <2>1. DOMAIN t = 1..n
    BY <1>1
  <2> QED BY <1>1, <1>6, <2>1 DEF Range
<1> QED BY <1>1, <1>2, <1>7

\* The entry of the i-th name of a call.
Spot(buf, first, i) == [buf |-> buf, pos |-> Len(first[i - 1]) + NameOffset]
Spots(buf, names, first, k) ==
    {Spot(buf, first, i) : i \in {j \in 1..k : ~Dots(names[j])}}

LEMMA Appended ==
    ASSUME NEW S, NEW q \in Seq(S), NEW x \in S
    PROVE  /\ Append(q, x) \in Seq(S) /\ Len(Append(q, x)) = Len(q) + 1
           /\ Append(q, x)[Len(q) + 1] = x
           /\ \A j \in 1..Len(q) : Append(q, x)[j] = q[j]
           /\ Range(Append(q, x)) = Range(q) \cup {x}
<1>1. /\ Append(q, x) \in Seq(S) /\ Len(Append(q, x)) = Len(q) + 1
      /\ Append(q, x)[Len(q) + 1] = x
      /\ \A j \in 1..Len(q) : Append(q, x)[j] = q[j]
  OBVIOUS
<1> DEFINE r == Append(q, x)
           n == Len(q)
<1>2. n \in Nat /\ DOMAIN q = 1..n /\ DOMAIN r = 1..n + 1
  OBVIOUS
<1>3. \A j \in 1..n + 1 : j \in 1..n \/ j = n + 1
  BY <1>2
<1>4. 1..n \subseteq 1..n + 1 /\ n + 1 \in 1..n + 1
  BY <1>2
<1>5. r[n + 1] = x /\ \A j \in 1..n : r[j] = q[j]
  BY <1>1
<1>6. Range(r) = Range(q) \cup {x}
  <2> HIDE DEF r, n
  <2> QED BY <1>2, <1>3, <1>4, <1>5 DEF Range
<1> QED BY <1>1, <1>6

Once(es) == \A j, k \in 1..Len(es) : es[j] = es[k] => j = k

\* What the loop has made of es after k names.
PushedTo(after, es, buf, names, first, k) ==
    /\ after[k] \in Seq(Entry) /\ Once(after[k])
    /\ Range(after[k]) = Range(es) \cup Spots(buf, names, first, k)

LEMMA OnceMore ==
    ASSUME NEW S, NEW q \in Seq(S), NEW x \in S, Once(q), x \notin Range(q)
    PROVE  Once(Append(q, x))
<1> DEFINE r == Append(q, x)
           n == Len(q)
<1>1. Len(r) = n + 1 /\ r[n + 1] = x /\ (\A j \in 1..n : r[j] = q[j]) /\ n \in Nat
  OBVIOUS
<1>2. \A j \in 1..n : q[j] # x
  BY DEF Range
<1>3. \A j \in 1..n + 1 : j \in 1..n \/ j = n + 1
  BY <1>1
<1>4. \A j, k \in 1..n : q[j] = q[k] => j = k
  BY DEF Once
<1> HIDE DEF r, n
<1>5. \A j, k \in 1..n + 1 : r[j] = r[k] => j = k
  BY <1>1, <1>2, <1>3, <1>4
<1>6. Once(r)
  BY <1>1, <1>5 DEF Once
<1> QED BY <1>6 DEF r

LEMMA PushedIs ==
    ASSUME NEW es \in Seq(Entry), Once(es), NEW names \in Seq(EntryNames), NEW stale \in StaleBytes,
           NEW first, Chunks(first, names, stale), NEW buf \in Nat,
           \A e \in Range(es) : e.buf # buf
    PROVE  /\ Pushed(es, buf, names, first) \in Seq(Entry) /\ Once(Pushed(es, buf, names, first))
           /\ Range(Pushed(es, buf, names, first)) = Range(es) \cup Spots(buf, names, first, Len(names))
<1> DEFINE n == Len(names)
           S == Seq(Entry)
           Is(g) == g = [k \in 0..n |->
                           IF k = 0 THEN es
                           ELSE IF Dots(names[k]) THEN g[k - 1]
                           ELSE Append(g[k - 1], [buf |-> buf, pos |-> Len(first[k - 1]) + NameOffset])]
           D == CHOOSE g : Is(g)
           F == [k \in 1..n |-> [x \in S |-> IF Dots(names[k]) THEN x ELSE Append(x, Spot(buf, first, k))]]
<1>0. n \in Nat
  OBVIOUS
<1>1. \A k \in 1..n : Spot(buf, first, k) \in Entry /\ Len(first[k - 1]) \in Nat
  <2> TAKE k \in 1..n
  <2>1. k - 1 \in 0..n
    BY <1>0
  <2>2. first[k - 1] \in Seq(Byte)
    BY <2>1 DEF Chunks
  <2>3. Len(first[k - 1]) \in Nat /\ NameOffset \in Nat
    BY <2>2, ListingFacts
  <2> QED BY <2>3 DEF Spot, Entry
<1>2. F \in [1..n -> [S -> S]]
  <2>1. \A k \in 1..n : \A x \in S : Append(x, Spot(buf, first, k)) \in S
    <3> TAKE k \in 1..n
    <3> TAKE x \in S
    <3>1. Spot(buf, first, k) \in Entry /\ x \in Seq(Entry)
      BY <1>1
    <3> QED BY <3>1, Appended
  <2> HIDE DEF S, n
  <2> QED BY <2>1
<1>3. \E g : Is(g)
  <2>1. \E g : Iterates(g, S, F, es, n)
    <3>1. es \in S
      OBVIOUS
    <3> HIDE DEF S, F, n
    <3> QED BY <1>0, <1>2, <3>1, Iterated
  <2>2. PICK g : Iterates(g, S, F, es, n)
    BY <2>1
  <2>3. g \in [0..n -> S] /\ g[0] = es /\ \A i \in 1..n : g[i] = F[i][g[i - 1]]
    BY <2>2 DEF Iterates
  <2>4. \A i \in 0..n : i # 0 => i \in 1..n /\ i - 1 \in 0..n
    BY <1>0
  <2>5. \A i \in 0..n : i # 0 => g[i] = IF Dots(names[i]) THEN g[i - 1] ELSE Append(g[i - 1], Spot(buf, first, i))
    <3> TAKE i \in 0..n
    <3>1. i # 0 => i \in 1..n /\ g[i - 1] \in S
      BY <2>3, <2>4
    <3> HIDE DEF S, n
    <3> QED BY <2>3, <3>1
  <2>6. Is(g)
    <3> HIDE DEF n, S
    <3> QED BY <2>3, <2>5 DEF Spot
  <2> QED BY <2>6
<1>4. Is(D)
  <2> HIDE DEF Is
  <2> QED BY <1>3
<1>5. Pushed(es, buf, names, first) = D[n]
  BY DEF Pushed
<1> HIDE DEF D
<1>6. D[0] = es /\ \A k \in 1..n : D[k] = IF Dots(names[k]) THEN D[k - 1] ELSE Append(D[k - 1], Spot(buf, first, k))
  <2>1. 0 \in 0..n /\ \A k \in 1..n : k \in 0..n /\ k # 0
    BY <1>0
  <2> HIDE DEF n
  <2> QED BY <1>4, <2>1 DEF Spot
<1> DEFINE G == {k \in 0..n : PushedTo(D, es, buf, names, first, k)}
<1>7. 0 \in G
  <2>1. Spots(buf, names, first, 0) = {}
    BY DEF Spots
  <2> QED BY <1>0, <1>6, <2>1 DEF PushedTo
<1>8. ASSUME NEW k \in 0..n - 1, k \in G
      PROVE  k + 1 \in G
  <2> DEFINE i == k + 1
             x == Spot(buf, first, i)
  <2>1. i \in 1..n /\ i - 1 = k /\ i \in 0..n /\ k \in 0..n /\ k \in Nat
    BY <1>0
  <2>2. PushedTo(D, es, buf, names, first, k)
    BY <1>8
  <2>3. \A j \in 1..i : j \in 1..k \/ j = i
    BY <2>1
  <2>4. 1..k \subseteq 1..i /\ i \in 1..i
    BY <2>1
  <2> HIDE DEF i
  <2>5. D[i] = IF Dots(names[i]) THEN D[k] ELSE Append(D[k], Spot(buf, first, i))
    BY <1>6, <2>1
  <2>6. x \in Entry
    BY <1>1, <2>1
  <2>7. CASE Dots(names[i])
    <3>1. D[i] = D[k]
      BY <2>5, <2>7
    <3>2. Spots(buf, names, first, i) = Spots(buf, names, first, k)
      BY <2>3, <2>4, <2>7 DEF Spots
    <3>3. PushedTo(D, es, buf, names, first, i)
      BY <2>2, <3>1, <3>2 DEF PushedTo
    <3> QED BY <2>1, <3>3 DEF i
  <2>8. CASE ~Dots(names[i])
    <3>1. D[i] = Append(D[k], x) /\ D[k] \in Seq(Entry) /\ Once(D[k])
      BY <2>2, <2>5, <2>8 DEF PushedTo
    <3>2. Spots(buf, names, first, i) = Spots(buf, names, first, k) \cup {x}
      BY <2>3, <2>4, <2>8 DEF Spots
    <3>3. x \notin Range(es)
      BY DEF Spot
    <3>4. x \notin Spots(buf, names, first, k)
      <4> SUFFICES ASSUME NEW j \in 1..k, Spot(buf, first, j) = x PROVE FALSE
        BY DEF Spots
      <4>1. Spot(buf, first, j).pos = x.pos
        OBVIOUS
      <4>2. Len(first[j - 1]) + NameOffset = Len(first[i - 1]) + NameOffset
        BY <4>1 DEF Spot
      <4>3. j \in 1..n
        BY <2>1
      <4>4. Len(first[j - 1]) \in Nat /\ Len(first[k]) \in Nat /\ names[j] \in EntryNames
        BY <1>1, <2>1, <4>3
      <4>5. RecLen(names[j]) \in Nat /\ RecLen(names[j]) >= 1 /\ NameOffset \in Nat
        <5>1. RecLen(names[j]) >= NameOffset + Luck /\ RecLen(names[j]) \in Nat
          BY <4>4, RecLenFacts
        <5> QED BY <5>1, ListingFacts
      <4>6. Place(first, names, j, k)
        BY <2>1, DirentsPlace
      <4>7. Len(first[j - 1]) + RecLen(names[j]) <= Len(first[k])
        BY <4>6 DEF Place
      <4> DEFINE p == Len(first[j - 1])
                 q == Len(first[k])
                 r == RecLen(names[j])
      <4>8. p \in Nat /\ q \in Nat /\ r \in Nat /\ r >= 1 /\ p + r <= q
            /\ p + NameOffset = q + NameOffset /\ NameOffset \in Nat
        BY <2>1, <4>2, <4>4, <4>5, <4>7
      <4> HIDE DEF p, q, r
      <4> QED BY <4>8
    <3>5. x \notin Range(D[k])
      BY <2>2, <3>3, <3>4 DEF PushedTo
    <3> HIDE DEF x
    <3>6. Append(D[k], x) \in Seq(Entry) /\ Range(Append(D[k], x)) = Range(D[k]) \cup {x}
      BY <2>6, <3>1, Appended
    <3>7. Once(Append(D[k], x))
      BY <2>6, <3>1, <3>5, OnceMore
    <3>8. PushedTo(D, es, buf, names, first, i)
      BY <2>2, <3>1, <3>2, <3>6, <3>7 DEF PushedTo
    <3> QED BY <2>1, <3>8 DEF i
  <2> QED BY <2>7, <2>8
<1>9. n \in G
  <2>1. 0..n \subseteq G
    <3> HIDE DEF G, n
    <3> QED BY <1>0, <1>7, <1>8, UpTo
  <2>2. n \in 0..n
    BY <1>0
  <2> QED BY <2>1, <2>2
<1> QED BY <1>5, <1>9 DEF PushedTo

-----------------------------------------------------------------------------
\* Another buffer with its entries.
Written(nb, first, names) ==
    /\ Len(first[Len(names)]) <= kBufSize - RainyDay
    /\ \A j \in 1..Len(first[Len(names)]) : nb[j] = first[Len(names)][j]

NamesOf(es, nm) == {nm[e] : e \in es}
Kept(names) == {names[i] : i \in {j \in 1..Len(names) : ~Dots(names[j])}}

\* The entries es in m have these names.
WithNames(m, es, names) ==
    \E nm : Layout(m, es, nm) /\ NamesOf(es, nm) = names

NewNames(es, nm, names) == \A e \in es : \A i \in 1..Len(names) : nm[e] # names[i]

LEMMA LayoutGrows ==
    ASSUME NEW m \in Seq(Buffer), NEW es, NEW nm, Layout(m, es, nm),
           NEW names \in Seq(EntryNames), Once(names), NEW stale \in StaleBytes,
           NEW first, Chunks(first, names, stale), NEW nb \in Buffer, Written(nb, first, names),
           NEW E, E = es \cup Spots(Len(m) + 1, names, first, Len(names)), NewNames(es, nm, names)
    PROVE  WithNames(Append(m, nb), E, NamesOf(es, nm) \cup Kept(names))
<1> DEFINE n == Len(names)
           b == Len(m) + 1
           J == {j \in 1..n : ~Dots(names[j])}
           sp == [i \in 1..n |-> Spot(b, first, i)]
           N == {sp[i] : i \in J}
           m2 == Append(m, nb)
           nn == [e \in es \cup N |-> IF e \in es THEN nm[e] ELSE names[CHOOSE i \in J : sp[i] = e]]
<1>0. n \in Nat /\ b \in Nat /\ Len(m) \in Nat /\ J \subseteq 1..n
  OBVIOUS
<1>1. /\ es \subseteq Entry /\ nm \in [es -> EntryNames]
      /\ \A e \in es : HasName(m, e, nm[e])
      /\ \A e, f \in es : e # f => Apart(e, nm[e], f, nm[f])
      /\ \A e \in es : \A i \in 1..n : nm[e] # names[i]
  BY DEF Layout, NewNames
<1>2. N = Spots(b, names, first, n)
  BY DEF Spots
<1>3. Len(m2) = b /\ m2[b] = nb /\ \A k \in 1..Len(m) : m2[k] = m[k]
  BY Appended
\* places in the new buffer
<1>4. ASSUME NEW i \in 1..n
      PROVE  /\ sp[i].buf = b /\ sp[i].pos = Len(first[i - 1]) + NameOffset /\ sp[i] \in Entry
             /\ Len(first[i - 1]) \in Nat /\ names[i] \in EntryNames
             /\ RecLen(names[i]) \in Nat /\ RecLen(names[i]) >= NameOffset + Len(names[i]) + 1
  <2>1. i - 1 \in 0..n
    BY <1>0
  <2>2. first[i - 1] \in Seq(Byte)
    BY <2>1 DEF Chunks
  <2>3. Len(first[i - 1]) \in Nat /\ NameOffset \in Nat
    BY <2>2, ListingFacts
  <2>4. names[i] \in EntryNames
    OBVIOUS
  <2>5. RecLen(names[i]) \in Nat /\ RecLen(names[i]) >= NameOffset + Len(names[i]) + 1
    BY <2>4, RecLenFacts
  <2>6. Len(first[i - 1]) + NameOffset \in Nat
    BY <2>3
  <2>7. sp[i] = [buf |-> b, pos |-> Len(first[i - 1]) + NameOffset]
    BY DEF Spot
  <2> HIDE DEF sp, b
  <2>8. sp[i].buf = b /\ sp[i].pos = Len(first[i - 1]) + NameOffset /\ sp[i] \in Entry
    BY <1>0, <2>6, <2>7 DEF Entry
  <2> QED BY <2>3, <2>4, <2>5, <2>8
<1>5. ASSUME NEW i \in 1..n, NEW k \in 1..n, i < k
      PROVE  sp[i].pos + RecLen(names[i]) <= sp[k].pos
  <2>1. k - 1 \in 0..n /\ i \in 1..k - 1
    BY <1>0, <1>5
  <2>2. Place(first, names, i, k - 1)
    BY <2>1, DirentsPlace
  <2>3. Len(first[i - 1]) + RecLen(names[i]) <= Len(first[k - 1])
    BY <2>2 DEF Place
  <2> DEFINE p == Len(first[i - 1])
             q == Len(first[k - 1])
             r == RecLen(names[i])
  <2>4. p \in Nat /\ q \in Nat /\ r \in Nat /\ p + r <= q /\ NameOffset \in Nat
    BY <1>4, <2>3, ListingFacts
  <2>5. sp[i].pos = p + NameOffset /\ sp[k].pos = q + NameOffset
    BY <1>4
  <2> HIDE DEF p, q, r, sp
  <2>6. sp[i].pos + r <= sp[k].pos
    BY <2>4, <2>5
  <2> QED BY <2>6 DEF r
<1>6. ASSUME NEW i \in 1..n
      PROVE  HasName(m2, sp[i], names[i])
  <2> DEFINE s == names[i]
             p == sp[i].pos
             c == first[n]
  <2>1. n \in 0..n /\ i \in 1..n
    BY <1>0
  <2>2. Place(first, names, i, n)
    BY <2>1, DirentsPlace
  <2>3. p - NameOffset + RecLen(s) <= Len(c) /\ NamedAt(c, p, s)
    <3>1. p = Len(first[i - 1]) + NameOffset /\ Len(first[i - 1]) \in Nat /\ NameOffset \in Nat
      BY <1>4, ListingFacts
    <3>2. p - NameOffset = Len(first[i - 1])
      BY <3>1
    <3> HIDE DEF p
    <3> QED BY <2>2, <3>1, <3>2 DEF Place
  <2>4. c \in Seq(Byte) /\ Len(c) \in Nat
    BY <2>1 DEF Chunks
  <2>5. /\ p \in Nat /\ p >= NameOffset /\ s \in EntryNames /\ RecLen(s) \in Nat
        /\ RecLen(s) >= NameOffset + Len(s) + 1 /\ Len(s) \in Nat
    <3>1. p = Len(first[i - 1]) + NameOffset /\ Len(first[i - 1]) \in Nat /\ NameOffset \in Nat
      BY <1>4, ListingFacts
    <3>2. p \in Nat /\ p >= NameOffset
      <4> HIDE DEF p
      <4> QED BY <3>1
    <3>3. s \in EntryNames /\ RecLen(s) \in Nat /\ RecLen(s) >= NameOffset + Len(s) + 1
      BY <1>4
    <3>4. Len(s) \in Nat
      BY <3>3, NameFacts
    <3> QED BY <3>2, <3>3, <3>4
  <2>6. Len(c) <= kBufSize - RainyDay /\ \A j \in 1..Len(c) : nb[j] = c[j]
    BY DEF Written
  <2> HIDE DEF s, p, c
  <2>7. \A j \in 0..Len(s) + 1 : p + j \in 1..Len(c)
    BY <2>3, <2>4, <2>5, ListingFacts
  <2>8. \A j \in 0..Len(s) + 1 : nb[p + j] = c[p + j]
    BY <2>6, <2>7
  <2>9. NamedAt(nb, p, s)
    BY <2>3, <2>5, <2>8, NamedMoves
  <2>10. p - NameOffset + RecLen(s) <= kBufSize - RainyDay
    BY <2>3, <2>4, <2>5, <2>6, ListingFacts
  <2>11. sp[i].buf \in 1..Len(m2) /\ m2[sp[i].buf] = nb
    BY <1>0, <1>3, <1>4
  <2> HIDE DEF m2, sp
  <2> QED BY <2>5, <2>9, <2>10, <2>11 DEF HasName, s, p
\* the entries of old
<1>7. ASSUME NEW e \in es
      PROVE  HasName(m2, e, nm[e]) /\ e.buf # b /\ e \notin N
  <2>1. e.buf \in 1..Len(m)
    BY <1>1 DEF HasName
  <2>2. e.buf # b /\ m2[e.buf] = m[e.buf] /\ e.buf \in 1..Len(m2)
    BY <1>0, <1>3, <2>1
  <2>3. HasName(m, e, nm[e])
    BY <1>1
  <2>4. HasName(m2, e, nm[e])
    <3> HIDE DEF m2, b
    <3> QED BY <2>2, <2>3 DEF HasName
  <2>5. e \notin N
    <3> SUFFICES ASSUME NEW i \in J, e = sp[i] PROVE FALSE
      OBVIOUS
    <3> QED BY <1>4, <2>2
  <2> QED BY <2>2, <2>4, <2>5
\* their names
<1>8. \A i, k \in 1..n : sp[i] = sp[k] => i = k
  <2> SUFFICES ASSUME NEW i \in 1..n, NEW k \in 1..n, sp[i] = sp[k], i < k PROVE FALSE
    <3>1. \A i, k \in 1..n : i = k \/ i < k \/ k < i
      BY <1>0
    <3> QED BY <3>1
  <2>1. sp[i].pos + RecLen(names[i]) <= sp[k].pos
    BY <1>5
  <2>2. RecLen(names[i]) > 0 /\ sp[i].pos \in Nat /\ RecLen(names[i]) \in Nat
    <3>1. Len(names[i]) \in Nat
      BY <1>4, NameFacts
    <3>2. sp[i].pos = Len(first[i - 1]) + NameOffset /\ Len(first[i - 1]) \in Nat
      BY <1>4
    <3>3. RecLen(names[i]) \in Nat /\ RecLen(names[i]) >= NameOffset + Len(names[i]) + 1
      BY <1>4
    <3> HIDE DEF sp
    <3> QED BY <3>1, <3>2, <3>3, ListingFacts
  <2> HIDE DEF sp
  <2> QED BY <2>1, <2>2
<1> HIDE DEF sp, m2
<1>9. ASSUME NEW e \in es PROVE nn[e] = nm[e]
  OBVIOUS
<1>10. ASSUME NEW i \in J PROVE nn[sp[i]] = names[i]
  <2>1. sp[i] \in N /\ sp[i] \notin es
    BY <1>7
  <2>2. nn[sp[i]] = names[CHOOSE k \in J : sp[k] = sp[i]]
    BY <2>1
  <2> DEFINE c == CHOOSE k \in J : sp[k] = sp[i]
  <2>3. c \in J /\ sp[c] = sp[i]
    <3>1. \E k \in J : sp[k] = sp[i]
      OBVIOUS
    <3> HIDE DEF J
    <3> QED BY <3>1
  <2>4. c = i
    BY <1>0, <1>8, <2>3
  <2> QED BY <2>2, <2>4
<1>11. E = es \cup N
  BY <1>2
<1>16. nn \in [E -> EntryNames] /\ E \subseteq Entry
  <2>1. DOMAIN nn = E /\ nn = [e \in E |-> nn[e]]
    BY <1>11
  <2>2. \A e \in E : nn[e] \in EntryNames /\ e \in Entry
    <3> SUFFICES ASSUME NEW e \in E PROVE nn[e] \in EntryNames /\ e \in Entry
      OBVIOUS
    <3>1. CASE e \in es
      BY <1>1, <1>9, <3>1
    <3>2. CASE e \in N
      <4>1. PICK i \in J : e = sp[i]
        BY <3>2
      <4>2. nn[e] = names[i] /\ i \in 1..n
        BY <1>10, <4>1
      <4> HIDE DEF nn, N, J
      <4> QED BY <1>4, <4>1, <4>2
    <3> QED BY <1>11, <3>1, <3>2
  <2> HIDE DEF nn
  <2> QED BY <2>1, <2>2
<1> HIDE DEF nn
<1>12. \A e \in E : HasName(m2, e, nn[e])
  <2> SUFFICES ASSUME NEW e \in E PROVE HasName(m2, e, nn[e])
    OBVIOUS
  <2>1. CASE e \in es
    BY <1>7, <1>9, <2>1
  <2>2. CASE e \in N
    <3>1. PICK i \in J : e = sp[i]
      BY <2>2
    <3> QED BY <1>6, <1>10, <3>1
  <2> QED BY <1>11, <2>1, <2>2
<1>13. ASSUME NEW e \in E, NEW f \in E, e # f
       PROVE  Apart(e, nn[e], f, nn[f])
  <2>1. CASE e \in es /\ f \in es
    BY <1>1, <1>9, <1>13, <2>1
  <2>2. CASE e \in es /\ f \in N
    <3>1. PICK i \in J : f = sp[i]
      BY <2>2
    <3>2. nn[f] = names[i] /\ nn[e] = nm[e] /\ i \in 1..n
      BY <1>9, <1>10, <2>2, <3>1
    <3>3. nn[e] # nn[f]
      BY <1>1, <2>2, <3>2
    <3>4. e.buf # f.buf
      BY <1>4, <1>7, <2>2, <3>1, <3>2
    <3> QED BY <3>3, <3>4 DEF Apart
  <2>3. CASE e \in N /\ f \in es
    <3>1. PICK i \in J : e = sp[i]
      BY <2>3
    <3>2. nn[e] = names[i] /\ nn[f] = nm[f] /\ i \in 1..n
      BY <1>9, <1>10, <2>3, <3>1
    <3>3. nn[e] # nn[f]
      BY <1>1, <2>3, <3>2
    <3>4. e.buf # f.buf
      BY <1>4, <1>7, <2>3, <3>1, <3>2
    <3> QED BY <3>3, <3>4 DEF Apart
  <2>4. CASE e \in N /\ f \in N
    <3>1. PICK i \in J : e = sp[i]
      BY <2>4
    <3>2. PICK k \in J : f = sp[k]
      BY <2>4
    <3>3. nn[e] = names[i] /\ nn[f] = names[k] /\ i \in 1..n /\ k \in 1..n /\ i # k
      BY <1>10, <1>13, <3>1, <3>2
    <3>4. names[i] # names[k]
      BY <3>3 DEF Once
    <3>5. i < k \/ k < i
      BY <1>0, <3>3
    <3>6. InFront(e, nn[e], f) \/ InFront(f, nn[f], e)
      <4> HIDE DEF J, N, n, b
      <4>1. CASE i < k
        <5>1. sp[i].pos + RecLen(names[i]) <= sp[k].pos
          BY <1>5, <3>3, <4>1
        <5> QED BY <3>1, <3>2, <3>3, <5>1 DEF InFront
      <4>2. CASE k < i
        <5>1. sp[k].pos + RecLen(names[k]) <= sp[i].pos
          BY <1>5, <3>3, <4>2
        <5> QED BY <3>1, <3>2, <3>3, <5>1 DEF InFront
      <4> QED BY <3>5, <4>1, <4>2
    <3> QED BY <3>3, <3>4, <3>6 DEF Apart
  <2> QED BY <1>11, <1>13, <2>1, <2>2, <2>3, <2>4
<1>14. Layout(m2, E, nn)
  <2> QED BY <1>11, <1>16, <1>12, <1>13 DEF Layout
<1>15. NamesOf(E, nn) = NamesOf(es, nm) \cup Kept(names)
  <2>1. NamesOf(E, nn) = {nn[e] : e \in es} \cup {nn[sp[i]] : i \in J}
    BY <1>11 DEF NamesOf
  <2>2. {nn[e] : e \in es} = {nm[e] : e \in es}
    BY <1>9
  <2>3. {nn[sp[i]] : i \in J} = {names[i] : i \in J}
    BY <1>10
  <2> QED BY <2>1, <2>2, <2>3 DEF NamesOf, Kept
<1>17. Append(m, nb) = m2
  BY DEF m2
<1> QED BY <1>14, <1>15, <1>17 DEF WithNames

\* What a call of getdents64 has read into a buffer.
LEMMA BufferIs ==
    ASSUME NEW c \in Seq(Byte), Len(c) <= kBufSize - RainyDay, NEW stale \in StaleBytes
    PROVE  /\ c \o Bytes(stale, kBufSize - Len(c)) \in Buffer
           /\ \A j \in 1..Len(c) : (c \o Bytes(stale, kBufSize - Len(c)))[j] = c[j]
<1> DEFINE t == Bytes(stale, kBufSize - Len(c))
           z == c \o t
<1>1. Len(c) \in Nat /\ kBufSize - Len(c) \in Nat
  BY ListingFacts
<1>2. t \in Seq(Byte) /\ Len(t) = kBufSize - Len(c)
  BY <1>1, ListingFacts DEF Bytes
<1> HIDE DEF t
<1>3. z \in Seq(Byte) /\ Len(z) = Len(c) + Len(t) /\ \A j \in 1..Len(c) : z[j] = c[j]
  BY <1>2, JoinedBytes
<1>4. Len(z) = kBufSize
  BY <1>1, <1>2, <1>3, ListingFacts
<1>5. z \in Buffer
  <2> HIDE DEF z
  <2> QED BY <1>3, <1>4 DEF Buffer
<1> QED BY <1>3, <1>5 DEF t

LEMMA GetDentsKeeps ==
    ASSUME ListIInv, NEW s \in SUBSET remaining, NEW stale \in StaleBytes,
           NEW names \in SetToSeqs(s), GetDents(names, stale)
    PROVE  ListIInv'
<1> DEFINE first == Dirents(names, stale)
           c == first[Len(names)]
           nb == c \o Bytes(stale, kBufSize - Len(c))
           n == Len(names)
           R == Range(entries_)
           b == Len(buffers) + 1
<1>1. /\ listing = "read" /\ Len(c) <= kBufSize - RainyDay
      /\ buffers' = Append(buffers, nb) /\ entries_' = Pushed(entries_, b, names, first)
      /\ remaining' = remaining \ Range(names)
      /\ UNCHANGED <<listing, case_sensitive, listed>>
  BY DEF GetDents
<1>2. /\ case_sensitive \in BOOLEAN
      /\ listed \subseteq EntryNames /\ remaining \subseteq listed
      /\ buffers \in Seq(Buffer) /\ entries_ \in Seq(Entry) /\ Once(entries_)
  BY DEF ListIInv, ListTypes, Once
<1>3. IsFiniteSet(s)
  <2>1. s \subseteq EntryNames /\ IsFiniteSet(EntryNames)
    BY <1>2, ListingAssumption
  <2> QED BY <2>1, FS_Subset
<1>4. names \in Seq(s) /\ Range(names) = s /\ Once(names)
  BY <1>3, Enumerates DEF Once
<1>5. names \in Seq(EntryNames) /\ \A i \in 1..n : names[i] \in remaining
  BY <1>2, <1>4
<1>6. Chunks(first, names, stale)
  BY <1>5, DirentsAre
<1>7. c \in Seq(Byte)
  BY <1>5, <1>6 DEF Chunks
<1>8. PICK nm : /\ Layout(buffers, R, nm)
                /\ {nm[e] : e \in R} = {u \in listed \ remaining : ~Dots(u)}
  <2>1. Returned
    BY <1>1 DEF ListIInv
  <2> QED BY <2>1 DEF Returned
<1> HIDE DEF first
<1>9. nb \in Buffer /\ \A j \in 1..Len(c) : nb[j] = c[j]
  <2> HIDE DEF c
  <2> QED BY <1>1, <1>7, BufferIs
<1>10. Written(nb, first, names)
  <2> HIDE DEF nb
  <2> QED BY <1>1, <1>9 DEF Written
<1> HIDE DEF c, nb
<1>11. \A e \in R : \A i \in 1..n : nm[e] # names[i]
  <2> SUFFICES ASSUME NEW e \in R, NEW i \in 1..n, nm[e] = names[i] PROVE FALSE
    OBVIOUS
  <2>1. nm[e] \in {u \in listed \ remaining : ~Dots(u)}
    BY <1>8
  <2> QED BY <1>5, <2>1
<1> DEFINE N == Spots(b, names, first, n)
<1>12. PICK nn : /\ Layout(Append(buffers, nb), R \cup N, nn)
                 /\ NamesOf(R \cup N, nn) = NamesOf(R, nm) \cup Kept(names)
  <2> DEFINE E == R \cup N
  <2>1. WithNames(Append(buffers, nb), E, NamesOf(R, nm) \cup Kept(names))
    <3>1. E = R \cup Spots(Len(buffers) + 1, names, first, Len(names))
      OBVIOUS
    <3>2. NewNames(R, nm, names)
      BY <1>11 DEF NewNames
    <3>3. buffers \in Seq(Buffer) /\ Once(names) /\ names \in Seq(EntryNames) /\ nb \in Buffer
      BY <1>2, <1>4, <1>5, <1>9
    <3>4. Layout(buffers, R, nm)
      BY <1>8
    <3> HIDE DEF R, E
    <3> QED BY <1>6, <1>10, <3>1, <3>2, <3>3, <3>4, LayoutGrows
  <2> QED BY <2>1 DEF WithNames
<1>13. entries_' \in Seq(Entry) /\ Once(entries_') /\ Range(entries_') = R \cup N
  <2>1. b \in Nat /\ \A e \in Range(entries_) : e.buf # b
    <3>1. \A e \in R : e.buf \in 1..Len(buffers)
      BY <1>8 DEF Layout, HasName
    <3>2. Len(buffers) \in Nat
      BY <1>2
    <3> QED BY <3>1, <3>2
  <2> HIDE DEF b
  <2> QED BY <1>1, <1>2, <1>5, <1>6, <2>1, PushedIs
<1>14. buffers' \in Seq(Buffer)
  <2> HIDE DEF nb
  <2> QED BY <1>1, <1>2, <1>9, Appended
<1>15. ListTypes'
  <2>1. remaining' \subseteq listed'
    BY <1>1, <1>2
  <2> QED BY <1>1, <1>2, <1>13, <1>14, <2>1 DEF ListTypes, Once
<1>16. NamesOf(R, nm) \cup Kept(names) = {u \in listed' \ remaining' : ~Dots(u)}
  <2>1. Kept(names) = {u \in s : ~Dots(u)}
    <3>1. \A u \in s : \E i \in 1..n : names[i] = u
      BY <1>4 DEF Range
    <3>2. \A i \in 1..n : names[i] \in s
      BY <1>4
    <3> QED BY <3>1, <3>2 DEF Kept
  <2>2. NamesOf(R, nm) = {u \in listed \ remaining : ~Dots(u)}
    BY <1>8 DEF NamesOf
  <2>3. s \subseteq listed /\ remaining' = remaining \ s /\ listed' = listed
    BY <1>1, <1>2, <1>4
  <2> HIDE DEF R
  <2> QED BY <2>1, <2>2, <2>3
<1>17. Returned'
  <2> DEFINE E == Range(entries_')
  <2>1. Layout(buffers', E, nn) /\ NamesOf(E, nn) = {u \in listed' \ remaining' : ~Dots(u)}
    BY <1>1, <1>12, <1>13, <1>16
  <2>2. nn \in [E -> EntryNames]
    BY <2>1 DEF Layout
  <2>3. {nn[e] : e \in E} = {u \in listed' \ remaining' : ~Dots(u)}
    BY <2>1 DEF NamesOf
  <2>4. ~(listing' = "listed")
    BY <1>1
  <2> QED BY <2>1, <2>2, <2>3, <2>4 DEF Returned
<1>18. ~(listing' = "failed") /\ ~(listing' = "listed")
  BY <1>1
<1> QED BY <1>15, <1>17, <1>18 DEF ListIInv

LEMMA GetDentsFailsKeeps ==
    ASSUME ListIInv, GetDentsFails PROVE ListIInv'
<1>1. /\ listing = "read" /\ listing' = "failed" /\ entries_' = << >>
      /\ UNCHANGED <<case_sensitive, remaining, buffers, listed>>
  BY DEF GetDentsFails
<1>2. entries_' \in Seq(Entry) /\ Len(entries_') = 0
  BY <1>1
<1>3. ListTypes'
  BY <1>1, <1>2 DEF ListIInv, ListTypes
<1> QED BY <1>1, <1>3 DEF ListIInv

LEMMA ListInitIInv ==
    ASSUME ListInit PROVE ListIInv
<1>1. /\ listing = "read" /\ case_sensitive \in BOOLEAN
      /\ listed \subseteq EntryNames
      /\ remaining = listed /\ buffers = << >> /\ entries_ = << >>
  BY DEF ListInit
<1>2. ListTypes
  BY <1>1 DEF ListTypes
<1>3. Returned
  <2> DEFINE nm == [e \in {} |-> CHOOSE u \in EntryNames : TRUE]
  <2>1. Range(entries_) = {}
    BY <1>1 DEF Range
  <2>2. nm \in [{} -> EntryNames]
    OBVIOUS
  <2> HIDE DEF nm
  <2>3. Layout(buffers, {}, nm)
    BY <2>2 DEF Layout
  <2>4. listed \ remaining = {} /\ listing # "listed"
    BY <1>1
  <2>5. {nm[e] : e \in Range(entries_)} = {u \in listed \ remaining : ~Dots(u)}
    BY <2>1, <2>4
  <2> QED BY <2>1, <2>2, <2>3, <2>4, <2>5 DEF Returned
<1> QED BY <1>1, <1>2, <1>3 DEF ListIInv

LEMMA ListStutterKept ==
    ASSUME ListIInv, UNCHANGED listVars PROVE ListIInv'
BY DEF ListIInv, listVars, ListTypes, Returned

-----------------------------------------------------------------------------
(***************************************************************************)
(* Words that are turned around.                                           *)
(***************************************************************************)
WordIn(m, e) == e \in Entry /\ e.buf \in 1..Len(m) /\ e.pos + WordSize <= kBufSize
Words(m, es) ==
    /\ \A e \in es : WordIn(m, e)
    /\ \A e, f \in es :
          e # f => e.buf # f.buf \/ e.pos + WordSize <= f.pos \/ f.pos + WordSize <= e.pos

\* Position p of buffer b is in none of the words.
Outside(es, b, p) == \A e \in es : e.buf = b => ~(e.pos + 1 <= p /\ p <= e.pos + WordSize)

Turned(m, w, e) == \A j \in 1..WordSize : w[e.buf][e.pos + j] = m[e.buf][e.pos + WordSize + 1 - j]
Swapped(m, w, es) ==
    /\ w \in Seq(Buffer) /\ Len(w) = Len(m)
    /\ \A e \in es : Turned(m, w, e)
    /\ \A b \in 1..Len(m) : \A p \in 1..kBufSize : Outside(es, b, p) => w[b][p] = m[b][p]

LEMMA SwapWordIs ==
    ASSUME NEW m \in Seq(Buffer), NEW e, WordIn(m, e)
    PROVE  Swapped(m, SwapWord(m, e), {e})
<1> DEFINE w == SwapWord(m, e)
           c == m[e.buf]
           d == [j \in DOMAIN c |-> IF j \in (e.pos + 1)..(e.pos + WordSize)
                                    THEN c[2 * e.pos + WordSize + 1 - j] ELSE c[j]]
<1>1. e.buf \in 1..Len(m) /\ e.pos \in Nat /\ e.pos + WordSize <= kBufSize /\ WordSize \in Nat /\ kBufSize \in Nat
  BY ListingFacts DEF WordIn, Entry
<1>2. w = [m EXCEPT ![e.buf] = d]
  BY DEF SwapWord
<1>3. c \in [1..kBufSize -> Byte]
  BY <1>1 DEF Buffer
<1>4. \A j \in 1..kBufSize : d[j] = IF j \in (e.pos + 1)..(e.pos + WordSize)
                                    THEN c[2 * e.pos + WordSize + 1 - j] ELSE c[j]
  BY <1>3
<1>5. d \in [1..kBufSize -> Byte]
  <2>1. \A j \in 1..kBufSize : j \in (e.pos + 1)..(e.pos + WordSize) => 2 * e.pos + WordSize + 1 - j \in 1..kBufSize
    <3> DEFINE q == e.pos
    <3>1. q \in Nat /\ q + WordSize <= kBufSize
      BY <1>1
    <3> HIDE DEF q
    <3>2. \A j \in 1..kBufSize : j \in (q + 1)..(q + WordSize) => 2 * q + WordSize + 1 - j \in 1..kBufSize
      BY <1>1, <3>1
    <3> QED BY <3>2 DEF q
  <2>2. DOMAIN c = 1..kBufSize
    BY <1>3
  <2>3. \A j \in 1..kBufSize : d[j] \in Byte
    <3> HIDE DEF c, d
    <3> QED BY <1>3, <1>4, <2>1
  <2> HIDE DEF c
  <2> QED BY <2>2, <2>3
<1> HIDE DEF d, c, w
<1>6. w \in Seq(Buffer) /\ Len(w) = Len(m) /\ w[e.buf] = d /\ \A b \in 1..Len(m) : b # e.buf => w[b] = m[b]
  <2>1. d \in Buffer
    BY <1>5 DEF Buffer
  <2> QED BY <1>1, <1>2, <2>1
<1>7. Turned(m, w, e)
  <2>1. \A j \in 1..WordSize :
           /\ e.pos + j \in 1..kBufSize /\ e.pos + j \in (e.pos + 1)..(e.pos + WordSize)
           /\ 2 * e.pos + WordSize + 1 - (e.pos + j) = e.pos + WordSize + 1 - j
    <3> DEFINE q == e.pos
    <3>1. q \in Nat /\ q + WordSize <= kBufSize
      BY <1>1
    <3> HIDE DEF q
    <3>2. \A j \in 1..WordSize :
             /\ q + j \in 1..kBufSize /\ q + j \in (q + 1)..(q + WordSize)
             /\ 2 * q + WordSize + 1 - (q + j) = q + WordSize + 1 - j
      BY <1>1, <3>1
    <3> QED BY <3>2 DEF q
  <2>2. \A j \in 1..WordSize : d[e.pos + j] = c[2 * e.pos + WordSize + 1 - (e.pos + j)]
    BY <1>4, <2>1
  <2>3. \A j \in 1..WordSize : d[e.pos + j] = c[e.pos + WordSize + 1 - j]
    BY <2>1, <2>2
  <2> QED BY <1>6, <2>3 DEF Turned, c
<1>8. ASSUME NEW b \in 1..Len(m), NEW p \in 1..kBufSize, Outside({e}, b, p)
      PROVE  w[b][p] = m[b][p]
  <2>1. CASE b # e.buf
    BY <1>6, <2>1
  <2>2. CASE b = e.buf
    <3>1. ~(e.pos + 1 <= p /\ p <= e.pos + WordSize)
      BY <1>8, <2>2 DEF Outside
    <3>2. p \notin (e.pos + 1)..(e.pos + WordSize)
      BY <1>1, <3>1
    <3> QED BY <1>4, <1>6, <2>2, <3>2 DEF c
  <2> QED BY <2>1, <2>2
<1>9. \A f \in {e} : Turned(m, w, f)
  BY <1>7
<1> QED BY <1>6, <1>8, <1>9 DEF Swapped, w

\* Its own word apart, a buffer is the same in a word of another entry.
LEMMA OutsideOther ==
    ASSUME NEW m, NEW es, Words(m, es), NEW F \in SUBSET es, NEW e \in es, e \notin F,
           NEW j \in 1..WordSize
    PROVE  /\ Outside(F, e.buf, e.pos + j) /\ Outside(F, e.buf, e.pos + WordSize + 1 - j)
           /\ e.pos + j \in 1..kBufSize /\ e.pos + WordSize + 1 - j \in 1..kBufSize
           /\ e.buf \in 1..Len(m)
<1>1. /\ \A f \in es : f \in Entry /\ f.pos \in Nat /\ f.buf \in 1..Len(m) /\ f.pos + WordSize <= kBufSize
      /\ \A f \in F : f # e /\ f \in es
  BY DEF Words, WordIn, Entry
<1>2. WordSize \in Nat /\ kBufSize \in Nat
  BY ListingFacts
<1>3. ASSUME NEW f \in F, f.buf = e.buf
      PROVE  /\ ~(f.pos + 1 <= e.pos + j /\ e.pos + j <= f.pos + WordSize)
             /\ ~(f.pos + 1 <= e.pos + WordSize + 1 - j /\ e.pos + WordSize + 1 - j <= f.pos + WordSize)
  <2>1. e.pos + WordSize <= f.pos \/ f.pos + WordSize <= e.pos
    BY <1>1, <1>3 DEF Words
  <2>2. e.pos \in Nat /\ f.pos \in Nat /\ j \in Int /\ 1 <= j /\ j <= WordSize
    BY <1>1, <1>2
  <2> QED BY <1>2, <2>1, <2>2
<1>4. e.pos \in Nat /\ e.pos + WordSize <= kBufSize /\ e.buf \in 1..Len(m)
  BY <1>1
<1>5. e.pos + j \in 1..kBufSize /\ e.pos + WordSize + 1 - j \in 1..kBufSize
  BY <1>2, <1>4
<1> QED BY <1>3, <1>4, <1>5 DEF Outside

LEMMA SwapMore ==
    ASSUME NEW m \in Seq(Buffer), NEW es, NEW F \in SUBSET es, Words(m, es), NEW e \in es, e \notin F,
           NEW w, Swapped(m, w, F), NEW v, Swapped(w, v, {e})
    PROVE  Swapped(m, v, F \cup {e})
<1>1. /\ w \in Seq(Buffer) /\ Len(w) = Len(m) /\ v \in Seq(Buffer) /\ Len(v) = Len(w)
      /\ \A f \in F : Turned(m, w, f)
      /\ Turned(w, v, e)
      /\ \A b \in 1..Len(m) : \A p \in 1..kBufSize : Outside(F, b, p) => w[b][p] = m[b][p]
      /\ \A b \in 1..Len(m) : \A p \in 1..kBufSize : Outside({e}, b, p) => v[b][p] = w[b][p]
  BY DEF Swapped
<1>2. Turned(m, v, e)
  <2> SUFFICES ASSUME NEW j \in 1..WordSize
               PROVE  v[e.buf][e.pos + j] = m[e.buf][e.pos + WordSize + 1 - j]
    BY DEF Turned
  <2>1. /\ Outside(F, e.buf, e.pos + WordSize + 1 - j)
        /\ e.pos + WordSize + 1 - j \in 1..kBufSize /\ e.buf \in 1..Len(m)
    BY OutsideOther
  <2>2. v[e.buf][e.pos + j] = w[e.buf][e.pos + WordSize + 1 - j]
    BY <1>1 DEF Turned
  <2>3. w[e.buf][e.pos + WordSize + 1 - j] = m[e.buf][e.pos + WordSize + 1 - j]
    BY <1>1, <2>1
  <2> QED BY <2>2, <2>3
<1>3. ASSUME NEW f \in F
      PROVE  Turned(m, v, f)
  <2> SUFFICES ASSUME NEW j \in 1..WordSize
               PROVE  v[f.buf][f.pos + j] = m[f.buf][f.pos + WordSize + 1 - j]
    BY DEF Turned
  <2>1. f \in es /\ f \notin {e} /\ {e} \in SUBSET es
    OBVIOUS
  <2>2. /\ Outside({e}, f.buf, f.pos + j)
        /\ f.pos + j \in 1..kBufSize /\ f.buf \in 1..Len(m)
    BY <2>1, OutsideOther
  <2>3. w[f.buf][f.pos + j] = m[f.buf][f.pos + WordSize + 1 - j]
    BY <1>1 DEF Turned
  <2>4. v[f.buf][f.pos + j] = w[f.buf][f.pos + j]
    BY <1>1, <2>2
  <2> QED BY <2>3, <2>4
<1>4. ASSUME NEW b \in 1..Len(m), NEW p \in 1..kBufSize, Outside(F \cup {e}, b, p)
      PROVE  v[b][p] = m[b][p]
  <2>1. Outside(F, b, p) /\ Outside({e}, b, p)
    BY <1>4 DEF Outside
  <2>2. v[b][p] = w[b][p] /\ w[b][p] = m[b][p]
    BY <1>1, <2>1
  <2> QED BY <2>2
<1>5. \A f \in F \cup {e} : Turned(m, v, f)
  BY <1>2, <1>3
<1> QED BY <1>1, <1>4, <1>5 DEF Swapped

\* Turned around twice the words are as they were.
LEMMA SwapTwice ==
    ASSUME NEW m \in Seq(Buffer), NEW es, Words(m, es), NEW w, Swapped(m, w, es),
           NEW v, Swapped(w, v, es)
    PROVE  v = m
<1>1. /\ w \in Seq(Buffer) /\ Len(w) = Len(m) /\ v \in Seq(Buffer) /\ Len(v) = Len(w)
      /\ \A f \in es : Turned(m, w, f)
      /\ \A f \in es : Turned(w, v, f)
      /\ \A b \in 1..Len(m) : \A p \in 1..kBufSize : Outside(es, b, p) => w[b][p] = m[b][p]
      /\ \A b \in 1..Len(m) : \A p \in 1..kBufSize : Outside(es, b, p) => v[b][p] = w[b][p]
  BY DEF Swapped
<1>2. WordSize \in Nat /\ kBufSize \in Nat
  BY ListingFacts
<1>3. ASSUME NEW b \in 1..Len(m), NEW p \in 1..kBufSize
      PROVE  v[b][p] = m[b][p]
  <2>1. CASE Outside(es, b, p)
    BY <1>1, <2>1
  <2>2. CASE ~Outside(es, b, p)
    <3>1. PICK e \in es : e.buf = b /\ e.pos + 1 <= p /\ p <= e.pos + WordSize
      BY <2>2 DEF Outside
    <3>2. e.pos \in Nat
      BY DEF Words, WordIn, Entry
    <3> DEFINE j == p - e.pos
               k == WordSize + 1 - j
    <3>3. j \in 1..WordSize /\ k \in 1..WordSize /\ e.pos + j = p
          /\ e.pos + WordSize + 1 - j = e.pos + k /\ e.pos + WordSize + 1 - k = p
      <4> DEFINE c == e.pos
      <4>1. c \in Nat /\ c + 1 <= p /\ p <= c + WordSize /\ j = p - c
        BY <3>1, <3>2
      <4> HIDE DEF c, j
      <4>2. j \in 1..WordSize /\ k \in 1..WordSize /\ c + j = p
            /\ c + WordSize + 1 - j = c + k /\ c + WordSize + 1 - k = p
        BY <1>2, <4>1
      <4> QED BY <4>2 DEF c
    <3> HIDE DEF j, k
    <3>4. v[e.buf][e.pos + j] = w[e.buf][e.pos + WordSize + 1 - j]
      BY <1>1, <3>3 DEF Turned
    <3>5. w[e.buf][e.pos + k] = m[e.buf][e.pos + WordSize + 1 - k]
      BY <1>1, <3>3 DEF Turned
    <3> QED BY <3>1, <3>3, <3>4, <3>5
  <2> QED BY <2>1, <2>2
<1>4. \A b \in 1..Len(m) : v[b] = m[b]
  <2> TAKE b \in 1..Len(m)
  <2> DEFINE f == v[b]
             g == m[b]
  <2>1. f \in [1..kBufSize -> Byte] /\ g \in [1..kBufSize -> Byte]
    BY <1>1 DEF Buffer
  <2>2. \A p \in 1..kBufSize : f[p] = g[p]
    BY <1>3
  <2> HIDE DEF f, g
  <2>3. f = [p \in 1..kBufSize |-> f[p]] /\ g = [p \in 1..kBufSize |-> g[p]]
    BY <2>1
  <2>4. f = g
    BY <2>2, <2>3
  <2> QED BY <2>4 DEF f, g
<1> QED BY <1>1, <1>4

LEMMA SwapNone ==
    ASSUME NEW m \in Seq(Buffer)
    PROVE  Swapped(m, m, {})
BY DEF Swapped

\* The entries of the first k steps of the loop.
UpToNth(es, k) == {es[i] : i \in 1..k}

LEMMA SwapBytesIs ==
    ASSUME NEW m \in Seq(Buffer), NEW es \in Seq(Entry), Once(es), Words(m, Range(es))
    PROVE  Swapped(m, SwapBytes(m, es), Range(es))
<1> DEFINE n == Len(es)
           S == {x \in Seq(Buffer) : Len(x) = Len(m)}
           R == Range(es)
           Is(g) == g = [k \in 0..n |-> IF k = 0 THEN m ELSE SwapWord(g[k - 1], es[k])]
           D == CHOOSE g : Is(g)
           F == [k \in 1..n |-> [x \in S |-> SwapWord(x, es[k])]]
<1>0. n \in Nat /\ (\A k \in 1..n : es[k] \in R) /\ UpToNth(es, n) = R
  <2>1. n \in Nat /\ DOMAIN es = 1..n
    OBVIOUS
  <2> HIDE DEF n
  <2> QED BY <2>1 DEF UpToNth, Range
<1>1. \A k \in 1..n : \A x \in S : WordIn(x, es[k])
  <2> TAKE k \in 1..n
  <2> TAKE x \in S
  <2>1. WordIn(m, es[k])
    <3> HIDE DEF R
    <3>1. Words(m, R)
      BY DEF R
    <3> QED BY <1>0, <3>1 DEF Words
  <2> QED BY <2>1 DEF WordIn
<1>2. \A k \in 1..n : \A x \in S : Swapped(x, SwapWord(x, es[k]), {es[k]})
  <2> TAKE k \in 1..n
  <2> TAKE x \in S
  <2>1. x \in Seq(Buffer) /\ WordIn(x, es[k])
    BY <1>1
  <2> HIDE DEF S
  <2> QED BY <2>1, SwapWordIs
<1>3. \A k \in 1..n : \A x \in S : SwapWord(x, es[k]) \in S
  <2> TAKE k \in 1..n
  <2> TAKE x \in S
  <2> QED BY <1>2 DEF Swapped
<1>4. F \in [1..n -> [S -> S]]
  <2> HIDE DEF S, n
  <2> QED BY <1>3
<1>5. \E g : Is(g)
  <2>1. \E g : Iterates(g, S, F, m, n)
    <3>1. m \in S
      OBVIOUS
    <3> HIDE DEF S, F, n
    <3> QED BY <1>0, <1>4, <3>1, Iterated
  <2>2. PICK g : Iterates(g, S, F, m, n)
    BY <2>1
  <2>3. g \in [0..n -> S] /\ g[0] = m /\ \A i \in 1..n : g[i] = F[i][g[i - 1]]
    BY <2>2 DEF Iterates
  <2>4. \A i \in 0..n : i # 0 => i \in 1..n /\ i - 1 \in 0..n
    BY <1>0
  <2>5. \A i \in 0..n : i # 0 => g[i] = SwapWord(g[i - 1], es[i])
    <3> TAKE i \in 0..n
    <3>1. i # 0 => i \in 1..n /\ g[i - 1] \in S
      BY <2>3, <2>4
    <3> HIDE DEF S, n
    <3> QED BY <2>3, <3>1
  <2>6. Is(g)
    <3> HIDE DEF n, S
    <3> QED BY <2>3, <2>5
  <2> QED BY <2>6
<1>6. Is(D)
  <2> HIDE DEF Is
  <2> QED BY <1>5
<1>7. SwapBytes(m, es) = D[n]
  BY DEF SwapBytes
<1> HIDE DEF D
<1>8. D[0] = m /\ \A k \in 1..n : D[k] = SwapWord(D[k - 1], es[k])
  <2>1. 0 \in 0..n /\ \A k \in 1..n : k \in 0..n /\ k # 0
    BY <1>0
  <2> HIDE DEF n
  <2> QED BY <1>6, <2>1
\* the words of the first k entries have been turned around
<1> DEFINE G == {k \in 0..n : Swapped(m, D[k], UpToNth(es, k))}
<1>9. 0 \in G
  <2>1. UpToNth(es, 0) = {}
    BY DEF UpToNth
  <2>2. Swapped(m, m, {})
    BY SwapNone
  <2>3. D[0] = m
    BY <1>8
  <2>4. Swapped(m, D[0], UpToNth(es, 0))
    BY <2>1, <2>2, <2>3
  <2>5. 0 \in 0..n
    BY <1>0
  <2> QED BY <2>4, <2>5
<1>10. ASSUME NEW k \in 0..n - 1, k \in G
      PROVE  k + 1 \in G
  <2> DEFINE i == k + 1
  <2>1. i \in 1..n /\ i - 1 = k /\ i \in 0..n /\ k \in 0..n
    BY <1>0
  <2>2. \A j \in 1..i : j \in 1..k \/ j = i
    BY <2>1
  <2>3. 1..k \subseteq 1..n /\ 1..k \subseteq 1..i /\ i \in 1..i /\ i \notin 1..k
    BY <2>1
  <2> HIDE DEF i
  <2>4. Swapped(m, D[k], UpToNth(es, k))
    BY <1>10
  <2>5. D[k] \in S
    BY <2>4 DEF Swapped
  <2>6. D[i] = SwapWord(D[k], es[i])
    BY <1>8, <2>1
  <2>7. Swapped(D[k], D[i], {es[i]})
    BY <1>2, <2>1, <2>5, <2>6
  <2>8. es[i] \in R /\ UpToNth(es, k) \in SUBSET R /\ es[i] \notin UpToNth(es, k)
    <3>1. es[i] \in R /\ \A j \in 1..k : es[j] \in R
      BY <1>0, <2>1, <2>3
    <3>2. \A j \in 1..k : es[j] # es[i]
      BY <2>1, <2>3 DEF Once
    <3> HIDE DEF R
    <3> QED BY <3>1, <3>2 DEF UpToNth
  <2>9. UpToNth(es, i) = UpToNth(es, k) \cup {es[i]}
    BY <2>2, <2>3 DEF UpToNth
  <2>10. Swapped(m, D[i], UpToNth(es, i))
    <3>1. Words(m, R)
      OBVIOUS
    <3> HIDE DEF R, S
    <3>2. Swapped(m, D[i], UpToNth(es, k) \cup {es[i]})
      BY <2>4, <2>7, <2>8, <3>1, SwapMore
    <3> QED BY <2>9, <3>2
  <2> QED BY <2>1, <2>10 DEF i
<1>11. n \in G
  <2>1. 0..n \subseteq G
    <3> HIDE DEF G, n
    <3> QED BY <1>0, <1>9, <1>10, UpTo
  <2>2. n \in 0..n
    BY <1>0
  <2> QED BY <2>1, <2>2
<1> QED BY <1>0, <1>7, <1>11

-----------------------------------------------------------------------------
(***************************************************************************)
(* Numbers and their digits.                                               *)
(***************************************************************************)
Digits == [1..WordSize -> Byte]
Reading(g, d) ==
    /\ g \in [0..WordSize -> Nat] /\ g[0] = 0
    /\ \A k \in 1..WordSize : g[k] = Base * g[k - 1] + d[k]

\* What Read64 reads, the most significant byte first.
Word(m, e) == [k \in 1..WordSize |-> m[e.buf][e.pos + WordSize + 1 - k]]

LEMMA WordIs ==
    ASSUME NEW m \in Seq(Buffer), NEW e, WordIn(m, e)
    PROVE  Word(m, e) \in Digits
<1>1. e.buf \in 1..Len(m) /\ e.pos \in Nat /\ e.pos + WordSize <= kBufSize /\ WordSize \in Nat /\ kBufSize \in Nat
  BY ListingFacts DEF WordIn, Entry
<1>2. m[e.buf] \in [1..kBufSize -> Byte]
  BY <1>1 DEF Buffer
<1>3. \A k \in 1..WordSize : e.pos + WordSize + 1 - k \in 1..kBufSize
  BY <1>1
<1>4. \A k \in 1..WordSize : m[e.buf][e.pos + WordSize + 1 - k] \in Byte
  BY <1>2, <1>3
<1> QED BY <1>4 DEF Word, Digits

LEMMA Read64Is ==
    ASSUME NEW m \in Seq(Buffer), NEW e, WordIn(m, e)
    PROVE  \E g : Reading(g, Word(m, e)) /\ Read64(m, e) = g[WordSize]
<1> DEFINE n == WordSize
           d == Word(m, e)
           Is(g) == g = [k \in 0..n |-> IF k = 0 THEN 0 ELSE Base * g[k - 1] + m[e.buf][e.pos + n + 1 - k]]
           D == CHOOSE g : Is(g)
           F == [k \in 1..n |-> [x \in Nat |-> Base * x + d[k]]]
<1>0. n \in Nat /\ Base \in Nat
  BY ListingFacts
<1>1. \A k \in 1..n : d[k] \in Nat /\ d[k] = m[e.buf][e.pos + n + 1 - k]
  <2>1. d \in Digits
    BY WordIs
  <2>2. \A k \in 1..n : d[k] \in Byte
    BY <2>1 DEF Digits
  <2> QED BY <2>2 DEF Byte, Word
<1> HIDE DEF d
<1>2. F \in [1..n -> [Nat -> Nat]]
  <2>1. \A k \in 1..n : \A x \in Nat : Base * x + d[k] \in Nat
    <3> TAKE k \in 1..n
    <3> TAKE x \in Nat
    <3>1. Base * x \in Nat
      BY <1>0
    <3>2. d[k] \in Nat
      BY <1>1
    <3> QED BY <3>1, <3>2
  <2> HIDE DEF n
  <2> QED BY <2>1
<1>3. PICK g : Iterates(g, Nat, F, 0, n)
  <2>1. \E g : Iterates(g, Nat, F, 0, n)
    <3>1. 0 \in Nat
      OBVIOUS
    <3> HIDE DEF F, n
    <3> QED BY <1>0, <1>2, <3>1, Iterated
  <2> QED BY <2>1
<1>4. g \in [0..n -> Nat] /\ g[0] = 0 /\ \A i \in 1..n : g[i] = Base * g[i - 1] + d[i]
  <2>1. g \in [0..n -> Nat] /\ g[0] = 0 /\ \A i \in 1..n : g[i] = F[i][g[i - 1]]
    BY <1>3 DEF Iterates
  <2>2. \A i \in 1..n : i - 1 \in 0..n
    BY <1>0
  <2>3. \A i \in 1..n : g[i - 1] \in Nat
    BY <2>1, <2>2
  <2>4. \A i \in 1..n : \A x \in Nat : F[i][x] = Base * x + d[i]
    OBVIOUS
  <2> HIDE DEF n, F
  <2> QED BY <2>1, <2>3, <2>4
<1>5. \E h : Is(h)
  <2>1. \A i \in 0..n : i # 0 => i \in 1..n
    BY <1>0
  <2>2. \A i \in 0..n : g[i] = IF i = 0 THEN 0 ELSE Base * g[i - 1] + m[e.buf][e.pos + n + 1 - i]
    <3> HIDE DEF n
    <3> QED BY <1>1, <1>4, <2>1
  <2>3. Is(g)
    <3>1. DOMAIN g = 0..n /\ g = [i \in DOMAIN g |-> g[i]]
      BY <1>4
    <3> HIDE DEF n
    <3> QED BY <2>2, <3>1
  <2> QED BY <2>3
<1>6. Is(D)
  <2> HIDE DEF Is
  <2> QED BY <1>5
<1>7. Read64(m, e) = D[n]
  BY DEF Read64
<1> HIDE DEF D
<1>8. D[0] = 0 /\ \A k \in 1..n : D[k] = Base * D[k - 1] + d[k]
  <2>1. 0 \in 0..n /\ \A k \in 1..n : k \in 0..n /\ k # 0
    BY <1>0
  <2> HIDE DEF n
  <2> QED BY <1>1, <1>6, <2>1
<1>9. \A k \in 0..n : D[k] \in Nat
  <2> DEFINE G == {k \in 0..n : D[k] \in Nat}
  <2>1. 0 \in G
    BY <1>0, <1>8
  <2>2. ASSUME NEW k \in 0..n - 1, k \in G
        PROVE  k + 1 \in G
    <3> DEFINE i == k + 1
    <3>1. i \in 1..n /\ i - 1 = k /\ i \in 0..n /\ D[k] \in Nat
      BY <1>0, <2>2
    <3> HIDE DEF i
    <3>2. D[i] = Base * D[k] + d[i] /\ d[i] \in Nat
      BY <1>1, <1>8, <3>1
    <3>3. D[i] \in Nat
      BY <1>0, <3>1, <3>2
    <3> QED BY <3>1, <3>3 DEF i
  <2>3. 0..n \subseteq G
    <3> HIDE DEF G, n
    <3> QED BY <1>0, <2>1, <2>2, UpTo
  <2> QED BY <2>3
<1>10. D \in [0..n -> Nat]
  <2>1. DOMAIN D = 0..n /\ D = [i \in DOMAIN D |-> D[i]]
    BY <1>6
  <2> HIDE DEF n
  <2> QED BY <1>9, <2>1
<1>11. Reading(D, d)
  BY <1>8, <1>10 DEF Reading
<1> QED BY <1>7, <1>11 DEF d

\* Numbers with the same digits in front are the same up to there.
LEMMA SameInFront ==
    ASSUME NEW d \in Digits, NEW f \in Digits, NEW g, Reading(g, d), NEW h, Reading(h, f),
           NEW n \in 0..WordSize, \A j \in 1..n : d[j] = f[j]
    PROVE  g[n] = h[n]
<1> DEFINE G == {k \in 0..n : g[k] = h[k]}
<1>0. n \in Nat /\ WordSize \in Nat /\ 1..n \subseteq 1..WordSize
  BY ListingFacts
<1>1. 0 \in G
  BY <1>0 DEF Reading
<1>2. ASSUME NEW k \in 0..n - 1, k \in G
      PROVE  k + 1 \in G
  <2> DEFINE i == k + 1
  <2>1. i \in 1..n /\ i - 1 = k /\ i \in 0..n /\ g[k] = h[k] /\ i \in 1..WordSize
    BY <1>0, <1>2
  <2> HIDE DEF i
  <2>2. g[i] = Base * g[k] + d[i] /\ h[i] = Base * h[k] + f[i]
    BY <2>1 DEF Reading
  <2> QED BY <2>1, <2>2 DEF i
<1>3. 0..n \subseteq G
  <2> HIDE DEF G
  <2> QED BY <1>0, <1>1, <1>2, UpTo
<1> QED BY <1>0, <1>3

\* The first digits that differ say which number is less.
LEMMA LessInFront ==
    ASSUME NEW d \in Digits, NEW f \in Digits, NEW g, Reading(g, d), NEW h, Reading(h, f),
           NEW k \in 1..WordSize, \A j \in 1..k - 1 : d[j] = f[j], d[k] < f[k]
    PROVE  g[WordSize] < h[WordSize]
<1> DEFINE r == WordSize - k
           G == {i \in 0..r : g[k + i] < h[k + i]}
<1>0. r \in Nat /\ WordSize \in Nat /\ Base \in Nat /\ k - 1 \in 0..WordSize /\ k \in Nat /\ k + r = WordSize
  BY ListingFacts
<1>1. \A i \in 1..WordSize : d[i] \in Nat /\ d[i] < Base /\ f[i] \in Nat /\ f[i] < Base
  <2>1. \A i \in 1..WordSize : d[i] \in 0..(Base - 1) /\ f[i] \in 0..(Base - 1)
    BY DEF Digits, Byte
  <2> QED BY <1>0, <2>1
<1>2. \A i \in 0..WordSize : g[i] \in Nat /\ h[i] \in Nat
  BY DEF Reading
<1>3. \A i \in 1..WordSize : g[i] = Base * g[i - 1] + d[i] /\ h[i] = Base * h[i - 1] + f[i]
  BY DEF Reading
<1>4. 0 \in G
  <2>1. g[k - 1] = h[k - 1]
    <3> DEFINE n == k - 1
    <3>1. n \in 0..WordSize /\ \A j \in 1..n : d[j] = f[j]
      BY <1>0
    <3> HIDE DEF n
    <3>2. g[n] = h[n]
      BY <3>1, SameInFront
    <3> QED BY <3>2 DEF n
  <2>2. g[k] = Base * g[k - 1] + d[k] /\ h[k] = Base * h[k - 1] + f[k]
    BY <1>3
  <2>3. Base * g[k - 1] \in Nat
    <3>1. g[k - 1] \in Nat
      BY <1>0, <1>2
    <3> QED BY <1>0, <3>1
  <2>4. g[k] < h[k]
    BY <1>1, <2>1, <2>2, <2>3
  <2>5. k + 0 = k /\ 0 \in 0..r
    BY <1>0
  <2> HIDE DEF r
  <2> QED BY <2>4, <2>5
<1>5. ASSUME NEW i \in 0..r - 1, i \in G
      PROVE  i + 1 \in G
  <2> DEFINE p == k + i
             q == k + (i + 1)
  <2>1. p \in 0..WordSize /\ q \in 1..WordSize /\ q - 1 = p /\ i + 1 \in 0..r
    BY <1>0
  <2>2. g[p] < h[p]
    BY <1>5
  <2> HIDE DEF p, q
  <2>3. g[q] = Base * g[p] + d[q] /\ h[q] = Base * h[p] + f[q]
    BY <1>3, <2>1
  <2>4. g[p] \in Nat /\ h[p] \in Nat /\ d[q] \in Nat /\ d[q] < Base /\ f[q] \in Nat
    BY <1>1, <1>2, <2>1
  <2>5. Base * (g[p] + 1) <= Base * h[p] /\ Base * (g[p] + 1) = Base * g[p] + Base
        /\ Base * g[p] \in Nat /\ Base * h[p] \in Nat
    <3>1. g[p] + 1 <= h[p] /\ g[p] + 1 \in Nat
      BY <2>2, <2>4
    <3> QED BY <1>0, <2>4, <3>1
  <2>6. g[q] < h[q]
    BY <1>0, <2>3, <2>4, <2>5
  <2> HIDE DEF r
  <2> QED BY <2>1, <2>6 DEF q
<1>6. 0..r \subseteq G
  <2> HIDE DEF G, r
  <2> QED BY <1>0, <1>4, <1>5, UpTo
<1>7. r \in 0..r
  BY <1>0
<1>8. g[k + r] < h[k + r]
  BY <1>6, <1>7
<1> HIDE DEF r
<1> QED BY <1>0, <1>8

-----------------------------------------------------------------------------
(***************************************************************************)
(* The order of the entries.                                               *)
(***************************************************************************)
\* The i-th byte of a name, where it is.
At(m, e, i) == m[e.buf][e.pos + i]

LEMMA LayoutWords ==
    ASSUME NEW m, NEW es, NEW nm, Layout(m, es, nm)
    PROVE  Words(m, es)
<1>1. /\ es \subseteq Entry
      /\ \A e \in es : nm[e] \in EntryNames /\ HasName(m, e, nm[e])
      /\ \A e, f \in es : e # f => Apart(e, nm[e], f, nm[f])
  BY DEF Layout
<1>2. WordSize \in Nat /\ kBufSize \in Nat /\ NameOffset \in Nat /\ RainyDay \in Nat /\ Luck \in Nat
      /\ WordSize < NameOffset /\ WordSize <= RainyDay
  BY ListingFacts
<1>3. ASSUME NEW e \in es
      PROVE  /\ e \in Entry /\ e.pos \in Nat /\ e.buf \in 1..Len(m)
             /\ RecLen(nm[e]) \in Nat /\ RecLen(nm[e]) >= NameOffset + Luck
             /\ e.pos - NameOffset + RecLen(nm[e]) <= kBufSize - RainyDay
  <2>1. e \in Entry /\ nm[e] \in EntryNames /\ HasName(m, e, nm[e])
    BY <1>1
  <2>2. RecLen(nm[e]) \in Nat /\ RecLen(nm[e]) >= NameOffset + Luck
    BY <2>1, RecLenFacts
  <2> QED BY <2>1, <2>2 DEF HasName, Entry
<1>4. ASSUME NEW e \in es
      PROVE  e.pos + WordSize <= kBufSize
  BY <1>2, <1>3
<1>5. ASSUME NEW e \in es, NEW f \in es, e # f, e.buf = f.buf
      PROVE  e.pos + WordSize <= f.pos \/ f.pos + WordSize <= e.pos
  <2>1. InFront(e, nm[e], f) \/ InFront(f, nm[f], e)
    BY <1>1, <1>5 DEF Apart
  <2>2. /\ e.pos \in Nat /\ RecLen(nm[e]) \in Nat /\ RecLen(nm[e]) >= NameOffset + Luck
        /\ f.pos \in Nat /\ RecLen(nm[f]) \in Nat /\ RecLen(nm[f]) >= NameOffset + Luck
    BY <1>3
  <2> QED BY <1>2, <2>1, <2>2 DEF InFront
<1> QED BY <1>3, <1>4, <1>5 DEF Words, WordIn

LEMMA NameBytes ==
    ASSUME NEW m, NEW es, NEW nm, Layout(m, es, nm), NEW e \in es
    PROVE  /\ nm[e] \in EntryNames /\ e.pos \in Nat
           /\ \A i \in 1..Len(nm[e]) : At(m, e, i) = nm[e][i]
           /\ At(m, e, Len(nm[e]) + 1) = 0
<1> DEFINE s == nm[e]
<1>1. s \in EntryNames /\ NamedAt(m[e.buf], e.pos, s) /\ e.pos \in Nat
  BY DEF Layout, HasName, Entry
<1>2. Len(s) \in Nat
  BY <1>1, NameFacts
<1> HIDE DEF s
<1>3. e.pos + Len(s) + 1 = e.pos + (Len(s) + 1)
  BY <1>1, <1>2
<1>4. /\ \A i \in 1..Len(s) : At(m, e, i) = s[i]
      /\ At(m, e, Len(s) + 1) = 0
  BY <1>1, <1>3 DEF NamedAt, At
<1> QED BY <1>1, <1>4 DEF s

\* The word turned around is read the right way round, and what is behind it
\* of a name is as it was.
LEMMA SwappedBytes ==
    ASSUME NEW m \in Seq(Buffer), NEW es, NEW nm, Layout(m, es, nm),
           NEW w, Swapped(m, w, es), NEW e \in es
    PROVE  /\ \A k \in 1..WordSize : Word(w, e)[k] = At(m, e, k)
           /\ \A k \in 1..WordSize : At(w, e, k) = At(m, e, WordSize + 1 - k)
           /\ \A i \in (WordSize + 1)..(Len(nm[e]) + 1) : At(w, e, i) = At(m, e, i)
<1>1. /\ es \subseteq Entry
      /\ \A f \in es : nm[f] \in EntryNames /\ HasName(m, f, nm[f])
      /\ \A f, h \in es : f # h => Apart(f, nm[f], h, nm[h])
  BY DEF Layout
<1>2. WordSize \in Nat /\ kBufSize \in Nat /\ NameOffset \in Nat /\ RainyDay \in Nat /\ Luck \in Nat
      /\ WordSize < NameOffset /\ WordSize <= RainyDay
  BY ListingFacts
<1>3. ASSUME NEW f \in es
      PROVE  /\ f.pos \in Nat /\ f.buf \in 1..Len(m)
             /\ Len(nm[f]) \in Nat /\ NameOffset <= f.pos
             /\ RecLen(nm[f]) \in Nat /\ RecLen(nm[f]) >= NameOffset + Luck
             /\ RecLen(nm[f]) >= NameOffset + Len(nm[f]) + 1
             /\ f.pos - NameOffset + RecLen(nm[f]) <= kBufSize - RainyDay
  <2>1. f \in Entry /\ nm[f] \in EntryNames /\ HasName(m, f, nm[f])
    BY <1>1
  <2>2. /\ RecLen(nm[f]) \in Nat /\ RecLen(nm[f]) >= NameOffset + Luck
        /\ RecLen(nm[f]) >= NameOffset + Len(nm[f]) + 1 /\ Len(nm[f]) \in Nat
    BY <2>1, RecLenFacts, NameFacts
  <2> QED BY <2>1, <2>2 DEF HasName, Entry
<1>8. /\ e.pos \in Nat /\ e.buf \in 1..Len(m) /\ Len(nm[e]) \in Nat /\ NameOffset <= e.pos
      /\ RecLen(nm[e]) \in Nat /\ RecLen(nm[e]) >= NameOffset + Len(nm[e]) + 1
      /\ e.pos - NameOffset + RecLen(nm[e]) <= kBufSize - RainyDay
  BY <1>3
<1>4. \A j \in 1..WordSize : w[e.buf][e.pos + j] = m[e.buf][e.pos + WordSize + 1 - j]
  BY DEF Swapped, Turned
<1>5. \A k \in 1..WordSize : At(w, e, k) = At(m, e, WordSize + 1 - k)
  <2>1. \A k \in 1..WordSize : e.pos + WordSize + 1 - k = e.pos + (WordSize + 1 - k)
    <3> TAKE k \in 1..WordSize
    <3> DEFINE c == e.pos
    <3>1. c \in Nat /\ k \in Nat
      BY <1>2, <1>8
    <3> HIDE DEF c
    <3>2. c + WordSize + 1 - k = c + (WordSize + 1 - k)
      BY <1>2, <3>1
    <3> QED BY <3>2 DEF c
  <2> QED BY <1>4, <2>1 DEF At
<1>6. \A k \in 1..WordSize : Word(w, e)[k] = At(m, e, k)
  <2> TAKE k \in 1..WordSize
  <2> DEFINE j == WordSize + 1 - k
  <2>1. j \in 1..WordSize /\ e.pos + WordSize + 1 - j = e.pos + k /\ e.pos + WordSize + 1 - k = e.pos + j
    BY <1>2, <1>8
  <2> HIDE DEF j
  <2>2. w[e.buf][e.pos + j] = m[e.buf][e.pos + k]
    BY <1>4, <2>1
  <2>3. Word(w, e)[k] = w[e.buf][e.pos + WordSize + 1 - k]
    BY DEF Word
  <2> QED BY <2>1, <2>2, <2>3 DEF At
<1>7. ASSUME NEW i \in (WordSize + 1)..(Len(nm[e]) + 1)
      PROVE  At(w, e, i) = At(m, e, i)
  <2> DEFINE p == e.pos + i
  <2>1. i \in Nat /\ WordSize < i /\ i <= Len(nm[e]) + 1
    BY <1>2, <1>3
  <2>2. p \in 1..kBufSize
    <3> DEFINE c == e.pos
               re == RecLen(nm[e])
               le == Len(nm[e])
    <3>1. c \in Nat /\ re \in Nat /\ le \in Nat /\ re >= NameOffset + le + 1 /\ i <= le + 1
          /\ c - NameOffset + re <= kBufSize - RainyDay
      BY <1>8, <2>1
    <3> HIDE DEF c, re, le
    <3>2. c + i \in 1..kBufSize
      BY <1>2, <2>1, <3>1
    <3> QED BY <3>2 DEF c
  <2>3. ASSUME NEW f \in es, f.buf = e.buf
        PROVE  ~(f.pos + 1 <= p /\ p <= f.pos + WordSize)
    <3>1. CASE f = e
      BY <1>2, <1>3, <2>1, <3>1
    <3>2. CASE f # e
      <4>1. InFront(e, nm[e], f) \/ InFront(f, nm[f], e)
        BY <1>1, <2>3, <3>2 DEF Apart
      <4>2. /\ e.pos \in Nat /\ RecLen(nm[e]) \in Nat /\ RecLen(nm[e]) >= NameOffset + Len(nm[e]) + 1
            /\ f.pos \in Nat /\ RecLen(nm[f]) \in Nat /\ RecLen(nm[f]) >= NameOffset + Luck
            /\ Len(nm[e]) \in Nat
        BY <1>3
      <4> DEFINE re == RecLen(nm[e])
                 rf == RecLen(nm[f])
                 le == Len(nm[e])
      <4>3. e.pos + re <= f.pos \/ f.pos + rf <= e.pos
        BY <4>1 DEF InFront
      <4>4. /\ e.pos \in Nat /\ re \in Nat /\ re >= NameOffset + le + 1 /\ i <= le + 1
            /\ f.pos \in Nat /\ rf \in Nat /\ rf >= NameOffset + Luck /\ le \in Nat
        BY <2>1, <4>2
      <4> DEFINE c == e.pos
                 z == f.pos
      <4>5. c \in Nat /\ z \in Nat /\ (c + re <= z \/ z + rf <= c)
        BY <4>3, <4>4
      <4> HIDE DEF re, rf, le, c, z
      <4>6. ~(z + 1 <= c + i /\ c + i <= z + WordSize)
        BY <1>2, <2>1, <4>4, <4>5
      <4> QED BY <4>6 DEF c, z
    <3> QED BY <3>1, <3>2
  <2> HIDE DEF p
  <2>4. Outside(es, e.buf, p)
    BY <2>3 DEF Outside
  <2>5. w[e.buf][p] = m[e.buf][p]
    BY <1>3, <2>2, <2>4 DEF Swapped
  <2> QED BY <2>5 DEF At, p
<1> QED BY <1>5, <1>6, <1>7

\* Where two names are told apart, in memory.
FirstApart(m, a, b, k) ==
    /\ \A j \in 1..k - 1 : At(m, a, j) = At(m, b, j)
    /\ At(m, a, k) < At(m, b, k)

LEMMA PrecedesAt ==
    ASSUME NEW m, NEW es, NEW nm, Layout(m, es, nm), NEW a \in es, NEW b \in es,
           Precedes(nm[a], nm[b])
    PROVE  \E k \in 1..Len(nm[b]) : k <= Len(nm[a]) + 1 /\ FirstApart(m, a, b, k)
<1> DEFINE x == nm[a]
           y == nm[b]
<1>1. /\ x \in EntryNames /\ (\A i \in 1..Len(x) : At(m, a, i) = x[i]) /\ At(m, a, Len(x) + 1) = 0
      /\ y \in EntryNames /\ (\A i \in 1..Len(y) : At(m, b, i) = y[i])
  BY NameBytes
<1>2. Len(x) \in Nat /\ Len(y) \in Nat /\ DOMAIN y = 1..Len(y) /\ \A j \in 1..Len(y) : y[j] \in 1..(Base - 1)
  <2>1. y \in Seq(Byte)
    BY <1>1, NameFacts
  <2>2. DOMAIN y = 1..Len(y)
    <3> HIDE DEF y
    <3> QED BY <2>1
  <2> QED BY <1>1, <2>2, NameFacts
<1>3. Precedes(x, y)
  OBVIOUS
<1> HIDE DEF x, y
<1>4. PICK k \in 1..Len(y) :
           /\ k <= Len(x) + 1 /\ \A j \in 1..(k - 1) : x[j] = y[j]
           /\ k <= Len(x) => x[k] < y[k]
  BY <1>2, <1>3 DEF Precedes
<1>5. \A j \in 1..k - 1 : At(m, a, j) = At(m, b, j)
  <2>1. \A j \in 1..k - 1 : j \in 1..Len(x) /\ j \in 1..Len(y)
    BY <1>2, <1>4
  <2> QED BY <1>1, <1>4, <2>1
<1>6. At(m, a, k) < At(m, b, k)
  <2>1. At(m, b, k) = y[k]
    BY <1>1
  <2>2. CASE k <= Len(x)
    <3>1. k \in 1..Len(x)
      BY <1>2, <2>2
    <3> QED BY <1>1, <1>4, <2>1, <2>2, <3>1
  <2>3. CASE ~(k <= Len(x))
    <3>1. k = Len(x) + 1
      BY <1>2, <1>4, <2>3
    <3>2. At(m, a, k) = 0
      BY <1>1, <3>1
    <3>3. y[k] \in 1..(Base - 1)
      BY <1>2
    <3> QED BY <2>1, <3>2, <3>3, ListingFacts
  <2> QED BY <2>2, <2>3
<1> QED BY <1>4, <1>5, <1>6 DEF FirstApart, x, y

\* A name that precedes another is less in memory, its word turned around.
LEMMA OrderKept ==
    ASSUME NEW m \in Seq(Buffer), NEW es, NEW nm, Layout(m, es, nm),
           NEW w, Swapped(m, w, es), NEW a \in es, NEW b \in es, Precedes(nm[a], nm[b])
    PROVE  MemLess(w, a, b)
<1>0. WordSize \in Nat /\ Luck \in Nat /\ Luck >= 2 /\ Luck <= WordSize /\ RainyDay \in Nat
  BY ListingFacts
<1>1. Words(m, es) /\ w \in Seq(Buffer) /\ Len(w) = Len(m)
  BY LayoutWords DEF Swapped
<1>2. WordIn(w, a) /\ WordIn(w, b)
  BY <1>1 DEF Words, WordIn
<1>3. PICK k \in 1..Len(nm[b]) : k <= Len(nm[a]) + 1 /\ FirstApart(m, a, b, k)
  BY PrecedesAt
<1>4. (\A j \in 1..k - 1 : At(m, a, j) = At(m, b, j)) /\ At(m, a, k) < At(m, b, k)
  BY <1>3 DEF FirstApart
<1>5. nm[a] \in EntryNames /\ nm[b] \in EntryNames /\ a.pos \in Nat /\ b.pos \in Nat
  BY NameBytes
<1>6. Len(nm[a]) \in Nat /\ Len(nm[b]) \in Nat /\ Len(nm[b]) < RainyDay /\ k \in Nat /\ k >= 1
      /\ k <= Len(nm[a]) + 1 /\ k <= Len(nm[b])
  BY <1>3, <1>5, NameFacts
<1> DEFINE d == Word(w, a)
           f == Word(w, b)
<1>7. d \in Digits /\ f \in Digits
  BY <1>1, <1>2, WordIs
<1>8. PICK g : Reading(g, d) /\ Read64(w, a) = g[WordSize]
  BY <1>1, <1>2, Read64Is
<1>9. PICK h : Reading(h, f) /\ Read64(w, b) = h[WordSize]
  BY <1>1, <1>2, Read64Is
<1>10. \A j \in 1..WordSize : d[j] = At(m, a, j) /\ f[j] = At(m, b, j)
  BY SwappedBytes
<1> HIDE DEF d, f
<1>11. CASE k <= WordSize
  <2>1. k \in 1..WordSize /\ \A j \in 1..k - 1 : j \in 1..WordSize
    BY <1>0, <1>6, <1>11
  <2>2. (\A j \in 1..k - 1 : d[j] = f[j]) /\ d[k] < f[k]
    BY <1>4, <1>10, <2>1
  <2>3. g[WordSize] < h[WordSize]
    BY <1>7, <1>8, <1>9, <2>1, <2>2, LessInFront
  <2> QED BY <1>8, <1>9, <2>3 DEF MemLess
<1>12. CASE ~(k <= WordSize)
  <2>1. \A j \in 1..WordSize : j \in 1..k - 1
    BY <1>0, <1>6, <1>12
  <2>2. \A j \in 1..WordSize : d[j] = f[j]
    BY <1>4, <1>10, <2>1
  <2>3. g[WordSize] = h[WordSize]
    <3>1. WordSize \in 0..WordSize
      BY <1>0
    <3> QED BY <1>7, <1>8, <1>9, <2>2, <3>1, SameInFront
  \* from the byte Luck on
  <2> DEFINE n == k - Luck
             x == Bytewise(w, a, Luck, RainyDay)
             y == Bytewise(w, b, Luck, RainyDay)
  <2>4. n \in 1..RainyDay
    BY <1>0, <1>6, <1>12
  <2>5. /\ DOMAIN y = 1..RainyDay /\ Len(x) = RainyDay
        /\ \A j \in 1..RainyDay : x[j] = At(w, a, Luck + j) /\ y[j] = At(w, b, Luck + j)
    <3>1. DOMAIN x = 1..RainyDay /\ DOMAIN y = 1..RainyDay
      BY DEF Bytewise
    <3>2. Len(x) = RainyDay
      BY <1>0 DEF Bytewise
    <3>3. \A j \in 1..RainyDay : a.pos + Luck + j = a.pos + (Luck + j) /\ b.pos + Luck + j = b.pos + (Luck + j)
      <4> DEFINE c == a.pos
                 e == b.pos
      <4>1. c \in Nat /\ e \in Nat
        BY <1>5
      <4> HIDE DEF c, e
      <4>2. \A j \in 1..RainyDay : c + Luck + j = c + (Luck + j) /\ e + Luck + j = e + (Luck + j)
        BY <1>0, <4>1
      <4> QED BY <4>2 DEF c, e
    <3>4. \A j \in 1..RainyDay : x[j] = w[a.buf][a.pos + Luck + j] /\ y[j] = w[b.buf][b.pos + Luck + j]
      BY DEF Bytewise
    <3> QED BY <3>1, <3>2, <3>3, <3>4 DEF At
  <2> HIDE DEF x, y
  <2>6. ASSUME NEW j \in 1..n
        PROVE  IF j = n THEN x[j] < y[j] ELSE x[j] = y[j]
    <3> DEFINE i == Luck + j
    <3>1. i \in Nat /\ i <= k /\ i >= 1 /\ j \in 1..RainyDay /\ (i = k <=> j = n)
      BY <1>0, <1>6, <2>4
    <3> HIDE DEF i
    <3>2. x[j] = At(w, a, i) /\ y[j] = At(w, b, i)
      BY <2>5, <3>1 DEF i
    <3>3. CASE i <= WordSize
      <4>1. i \in 1..WordSize /\ WordSize + 1 - i \in 1..WordSize /\ i # k
        BY <1>0, <1>12, <3>1, <3>3
      <4>2. At(w, a, i) = At(m, a, WordSize + 1 - i) /\ At(w, b, i) = At(m, b, WordSize + 1 - i)
        BY <4>1, SwappedBytes
      <4>3. At(m, a, WordSize + 1 - i) = At(m, b, WordSize + 1 - i)
        BY <1>4, <2>1, <4>1
      <4> QED BY <3>1, <3>2, <4>1, <4>2, <4>3
    <3>4. CASE ~(i <= WordSize)
      <4>1. i \in (WordSize + 1)..(Len(nm[a]) + 1) /\ i \in (WordSize + 1)..(Len(nm[b]) + 1)
        BY <1>0, <1>6, <3>1, <3>4
      <4>2. At(w, a, i) = At(m, a, i) /\ At(w, b, i) = At(m, b, i)
        BY <4>1, SwappedBytes
      <4>3. i \in 1..k - 1 \/ i = k
        BY <1>6, <3>1
      <4>4. i # k => At(m, a, i) = At(m, b, i)
        BY <1>4, <4>3
      <4>5. i = k => At(m, a, i) < At(m, b, i)
        BY <1>4
      <4> QED BY <3>1, <3>2, <4>2, <4>4, <4>5
    <3> QED BY <3>3, <3>4
  <2>7. Precedes(x, y)
    <3>1. n \in DOMAIN y /\ n <= Len(x) + 1
      BY <1>0, <2>4, <2>5
    <3>2. \A j \in 1..(n - 1) : j \in 1..n /\ j # n
      BY <2>4
    <3>3. n \in 1..n
      BY <2>4
    <3> HIDE DEF n
    <3>4. (\A j \in 1..(n - 1) : x[j] = y[j]) /\ x[n] < y[n]
      BY <2>6, <3>2, <3>3
    <3> QED BY <3>1, <3>4 DEF Precedes
  <2> QED BY <1>8, <1>9, <2>3, <2>7 DEF MemLess, x, y
<1> QED BY <1>11, <1>12

\* A name ends at the first 0.
LEMMA NameAtIs ==
    ASSUME NEW m, NEW es, NEW nm, Layout(m, es, nm), NEW e \in es
    PROVE  NameAt(m, e) = nm[e]
<1> DEFINE s == nm[e]
           End(n) == m[e.buf][e.pos + n + 1] = 0 /\ \A k \in 1..n : m[e.buf][e.pos + k] # 0
           end == CHOOSE n \in 0..RainyDay : End(n)
<1>1. /\ s \in EntryNames /\ e.pos \in Nat
      /\ \A i \in 1..Len(s) : At(m, e, i) = s[i]
      /\ At(m, e, Len(s) + 1) = 0
  BY NameBytes
<1>2. Len(s) \in 0..RainyDay /\ Len(s) \in Nat /\ RainyDay \in Nat
  BY <1>1, NameFacts, ListingFacts
<1>3. \A i \in 1..Len(s) : s[i] # 0
  BY <1>1, NameFacts
<1>4. s = [i \in 1..Len(s) |-> s[i]]
  <2>1. s \in Seq(Byte)
    BY <1>1, NameFacts
  <2> HIDE DEF s
  <2> QED BY <2>1
<1> DEFINE c == e.pos
<1>5. c \in Nat
  BY <1>1
<1> HIDE DEF s
<1>6. \A n \in 0..RainyDay : End(n) <=> At(m, e, n + 1) = 0 /\ \A k \in 1..n : At(m, e, k) # 0
  <2> TAKE n \in 0..RainyDay
  <2>1. e.pos + n + 1 = e.pos + (n + 1)
    <3> HIDE DEF c
    <3>1. c + n + 1 = c + (n + 1)
      BY <1>2, <1>5
    <3> QED BY <3>1 DEF c
  <2> QED BY <2>1 DEF At
<1>7. End(Len(s))
  BY <1>1, <1>2, <1>3, <1>6
<1>8. \A n \in 0..RainyDay : End(n) => n = Len(s)
  <2> SUFFICES ASSUME NEW n \in 0..RainyDay, End(n), n # Len(s) PROVE FALSE
    OBVIOUS
  <2>1. At(m, e, n + 1) = 0 /\ \A k \in 1..n : At(m, e, k) # 0
    BY <1>6
  <2>2. CASE n < Len(s)
    <3>1. n + 1 \in 1..Len(s)
      BY <1>2, <2>2
    <3> QED BY <1>1, <1>3, <2>1, <3>1
  <2>3. CASE ~(n < Len(s))
    <3>1. Len(s) + 1 \in 1..n
      BY <1>2, <2>3
    <3> QED BY <1>1, <2>1, <3>1
  <2> QED BY <2>2, <2>3
<1>9. end = Len(s)
  <2>1. \E n \in 0..RainyDay : End(n)
    BY <1>2, <1>7
  <2> HIDE DEF End
  <2>2. end \in 0..RainyDay /\ End(end)
    BY <2>1
  <2> QED BY <1>8, <2>2
<1>10. NameAt(m, e) = Bytewise(m, e, 0, end)
  BY DEF NameAt
<1> HIDE DEF end
<1>11. Bytewise(m, e, 0, Len(s)) = [j \in 1..Len(s) |-> s[j]]
  <2>1. e.pos + 0 = e.pos
    <3> HIDE DEF c
    <3>1. c + 0 = c
      BY <1>5
    <3> QED BY <3>1 DEF c
  <2>2. \A j \in 1..Len(s) : m[e.buf][e.pos + 0 + j] = s[j]
    BY <1>1, <2>1 DEF At
  <2> QED BY <2>2 DEF Bytewise
<1> QED BY <1>4, <1>9, <1>10, <1>11 DEF s

LEMMA FiniteEntries ==
    ASSUME NEW es \in Seq(Entry) PROVE IsFiniteSet(Range(es))
<1> DEFINE n == Len(es)
<1>1. n \in Nat /\ DOMAIN es = 1..n
  OBVIOUS
<1>2. IsFiniteSet(1..n)
  <2> HIDE DEF n
  <2> QED BY <1>1, FS_Interval
<1>3. es \in Surjection(1..n, Range(es))
  <2> HIDE DEF n
  <2>1. es \in [1..n -> Range(es)]
    BY <1>1 DEF Range
  <2> QED BY <1>1, <2>1 DEF Surjection, Range
<1> QED BY <1>2, <1>3, FS_Surjection

LEMMA EndOfDirKeeps ==
    ASSUME ListIInv, EndOfDir PROVE ListIInv'
<1> DEFINE R == Range(entries_)
           w == SwapBytes(buffers, entries_)
           order == entries_'
<1>1. /\ listing = "read" /\ remaining = {} /\ listing' = "listed"
      /\ order \in SetToSeqs(R)
      /\ UNCHANGED <<case_sensitive, remaining, listed>>
  BY DEF EndOfDir, SortEntries
<1>2. /\ case_sensitive \in BOOLEAN /\ listed \subseteq EntryNames /\ remaining \subseteq listed
      /\ buffers \in Seq(Buffer) /\ entries_ \in Seq(Entry) /\ Once(entries_)
  BY DEF ListIInv, ListTypes, Once
<1>3. PICK nm \in [R -> EntryNames] :
                /\ Layout(buffers, R, nm)
                /\ {nm[e] : e \in R} = {u \in listed \ remaining : ~Dots(u)}
  <2>1. Returned
    BY <1>1 DEF ListIInv
  <2> QED BY <2>1 DEF Returned
<1>4. order \in Seq(R) /\ Range(order) = R /\ Once(order)
  <2>1. IsFiniteSet(R)
    BY <1>2, FiniteEntries
  <2> HIDE DEF R
  <2> QED BY <1>1, <2>1, Enumerates DEF Once
<1>5. R \subseteq Entry /\ order \in Seq(Entry)
  <2>1. R \subseteq Entry
    BY <1>3 DEF Layout
  <2> HIDE DEF R
  <2> QED BY <1>4, <2>1
<1>6. Words(buffers, R)
  BY <1>3, LayoutWords
<1>7. \A j \in 1..Len(order) : order[j] \in R
  BY <1>4
<1>8. DOMAIN order = 1..Len(order)
  BY <1>4
<1> HIDE DEF R
\* by memcmp
<1>9. ASSUME case_sensitive
      PROVE  buffers' = buffers /\ ListSorted(case_sensitive, order, nm)
  <2>1. /\ buffers' = SwapBytes(w, order)
        /\ \A j, k \in 1..Len(order) : j < k => ~MemLess(w, order[k], order[j])
    BY <1>8, <1>9 DEF EndOfDir, SortEntries
  <2>2. Swapped(buffers, w, R)
    BY <1>2, <1>6, SwapBytesIs DEF R
  <2>3. w \in Seq(Buffer) /\ Len(w) = Len(buffers)
    BY <2>2 DEF Swapped
  <2> HIDE DEF w
  <2>4. Words(w, R)
    BY <1>6, <2>3 DEF Words, WordIn
  <2>5. Swapped(w, buffers', R)
    <3>1. Words(w, Range(order))
      BY <1>4, <2>4
    <3>2. Swapped(w, SwapBytes(w, order), Range(order))
      <4> HIDE DEF order
      <4> QED BY <1>4, <1>5, <2>3, <3>1, SwapBytesIs
    <3> QED BY <1>4, <2>1, <3>2
  <2>6. buffers' = buffers
    BY <1>2, <1>6, <2>2, <2>5, SwapTwice
  <2>7. ASSUME NEW j \in 1..Len(order), NEW k \in 1..Len(order), j < k
        PROVE  ~Precedes(nm[order[k]], nm[order[j]])
    <3>1. ~MemLess(w, order[k], order[j]) /\ order[k] \in R /\ order[j] \in R
      BY <1>7, <2>1, <2>7
    <3> HIDE DEF order
    <3> QED BY <1>2, <1>3, <2>2, <3>1, OrderKept
  <2>8. ListSorted(case_sensitive, order, nm)
    BY <1>9, <2>7 DEF ListSorted, SortKey
  <2> QED BY <2>6, <2>8
\* by strcasecmp
<1>10. ASSUME ~case_sensitive
       PROVE  buffers' = buffers /\ ListSorted(case_sensitive, order, nm)
  <2>1. /\ buffers' = buffers
        /\ \A j, k \in 1..Len(order) : j < k => ~CaseLess(buffers, order[k], order[j])
    BY <1>8, <1>10 DEF EndOfDir, SortEntries
  <2>2. ASSUME NEW j \in 1..Len(order), NEW k \in 1..Len(order), j < k
        PROVE  ~Precedes(Fold(nm[order[k]]), Fold(nm[order[j]]))
    <3>1. ~CaseLess(buffers, order[k], order[j]) /\ order[k] \in R /\ order[j] \in R
      BY <1>7, <2>1, <2>2
    <3>2. NameAt(buffers, order[k]) = nm[order[k]] /\ NameAt(buffers, order[j]) = nm[order[j]]
      <4> HIDE DEF order
      <4> QED BY <1>3, <3>1, NameAtIs
    <3> QED BY <3>1, <3>2 DEF CaseLess
  <2>3. ListSorted(case_sensitive, order, nm)
    BY <1>10, <2>2 DEF ListSorted, SortKey
  <2> QED BY <2>1, <2>3
<1>11. buffers' = buffers /\ ListSorted(case_sensitive, order, nm)
  BY <1>9, <1>10
<1>12. ListTypes'
  BY <1>1, <1>2, <1>4, <1>5, <1>11 DEF ListTypes, Once
<1>13. Returned'
  <2>1. nm \in [Range(entries_') -> EntryNames] /\ Layout(buffers', Range(entries_'), nm)
    BY <1>3, <1>4, <1>11
  <2>2. {nm[e] : e \in Range(entries_')} = {u \in listed' \ remaining' : ~Dots(u)}
    BY <1>1, <1>3, <1>4
  <2>3. ListSorted(case_sensitive', entries_', nm)
    BY <1>1, <1>11
  <2> QED BY <2>1, <2>2, <2>3 DEF Returned
<1> QED BY <1>1, <1>12, <1>13 DEF ListIInv

LEMMA ListNextKept ==
    ASSUME ListIInv, ListNext PROVE ListIInv'
<1>1. ASSUME NEW s \in SUBSET remaining, NEW stale \in StaleBytes, NEW names \in SetToSeqs(s),
             GetDents(names, stale)
      PROVE  ListIInv'
  BY <1>1, GetDentsKeeps
<1>2. CASE GetDentsFails
  BY <1>2, GetDentsFailsKeeps
<1>3. CASE EndOfDir
  BY <1>3, EndOfDirKeeps
<1> QED BY <1>1, <1>2, <1>3 DEF ListNext

(* The inductive invariant of ListDir holds for any names, buffers, and any  *)
(* division of a directory among the calls of getdents64.                  *)
THEOREM ListInvariant == ListSpec => []ListIInv
<1>1. ListInit => ListIInv
  BY ListInitIInv
<1>2. ListIInv /\ [ListNext]_listVars => ListIInv'
  BY ListNextKept, ListStutterKept
<1> QED BY <1>1, <1>2, PTL DEF ListSpec

LEMMA ListRight ==
    ASSUME ListIInv PROVE ListingRight
<1> DEFINE R == Range(entries_)
           n == Len(entries_)
<1>0. entries_ \in Seq(Entry) /\ Once(entries_) /\ n \in Nat /\ DOMAIN entries_ = 1..n
      /\ listing \in {"read", "listed", "failed"}
  BY DEF ListIInv, ListTypes, Once
<1>1. ASSUME listing = "failed"
      PROVE  entries_ = << >>
  BY <1>1 DEF ListIInv
<1>2. CASE listing = "failed"
  <2>1. entries_ = << >> /\ DOMAIN entries_ = {}
    BY <1>1, <1>2
  <2> QED BY <1>2, <2>1 DEF ListingRight
<1>3. CASE listing # "failed"
  <2>1. PICK nm \in [R -> EntryNames] :
                /\ Layout(buffers, R, nm)
                /\ {nm[e] : e \in R} = {u \in listed \ remaining : ~Dots(u)}
                /\ listing = "listed" => ListSorted(case_sensitive, entries_, nm)
    <3>1. Returned
      BY <1>3 DEF ListIInv
    <3> QED BY <3>1 DEF Returned
  <2>2. /\ \A e \in R : nm[e] \in EntryNames /\ HasName(buffers, e, nm[e]) /\ e \in Entry
        /\ \A e, f \in R : e # f => nm[e] # nm[f]
    BY <2>1 DEF Layout, Apart
  <2>3. \A k \in 1..n : entries_[k] \in R
    BY <1>0 DEF Range
  <2>4. \A e \in R : e.pos + WordSize <= kBufSize /\ e.pos + Luck + RainyDay <= kBufSize
    <3> SUFFICES ASSUME NEW e \in R
                 PROVE  e.pos + WordSize <= kBufSize /\ e.pos + Luck + RainyDay <= kBufSize
      OBVIOUS
    <3> DEFINE c == e.pos
               r == RecLen(nm[e])
    <3>1. nm[e] \in EntryNames /\ c \in Nat /\ c - NameOffset + r <= kBufSize - RainyDay
      BY <2>2 DEF HasName, Entry
    <3>2. r \in Nat /\ r >= NameOffset + Luck
      BY <3>1, RecLenFacts
    <3> HIDE DEF c, r
    <3>3. c + WordSize <= kBufSize /\ c + Luck + RainyDay <= kBufSize
      BY <3>1, <3>2, ListingFacts
    <3> QED BY <3>3 DEF c
  <2>5. ASSUME listing = "listed"
        PROVE  LET names == [k \in DOMAIN entries_ |-> NameAt(buffers, entries_[k])]
                   Key(k) == IF case_sensitive THEN names[k] ELSE Fold(names[k])
               IN  /\ Range(names) = {s \in listed : ~Dots(s)} /\ Cardinality(Range(names)) = Len(names)
                   /\ \A j, k \in DOMAIN names : j < k => ~Precedes(Key(k), Key(j))
                   /\ \A e \in Range(entries_) : buffers[e.buf][e.pos] = TypeByte
    <3> DEFINE names == [k \in DOMAIN entries_ |-> NameAt(buffers, entries_[k])]
               Key(k) == IF case_sensitive THEN names[k] ELSE Fold(names[k])
    <3>1. DOMAIN names = 1..n /\ Len(names) = n /\ \A k \in 1..n : names[k] = nm[entries_[k]]
      <4>1. \A k \in 1..n : NameAt(buffers, entries_[k]) = nm[entries_[k]]
        <5> TAKE k \in 1..n
        <5>1. entries_[k] \in R
          BY <2>3
        <5> HIDE DEF R
        <5> QED BY <2>1, <5>1, NameAtIs
      <4>2. DOMAIN names = 1..n
        BY <1>0
      <4>3. Len(names) = n
        <5> HIDE DEF names
        <5> QED BY <1>0, <4>2
      <4> QED BY <1>0, <4>1, <4>2, <4>3
    <3>2. \A k \in 1..n : Key(k) = SortKey(case_sensitive, nm[entries_[k]])
      BY <3>1 DEF SortKey
    <3> HIDE DEF names
    <3>3. Range(names) = {s \in listed : ~Dots(s)}
      <4>1. Range(names) = {nm[e] : e \in R}
        BY <1>0, <3>1 DEF Range
      <4>2. remaining = {}
        BY <2>5 DEF ListIInv
      <4> QED BY <2>1, <4>1, <4>2
    <3>4. Cardinality(Range(names)) = n
      <4>1. \A j, k \in 1..n : names[j] = names[k] => j = k
        <5> SUFFICES ASSUME NEW j \in 1..n, NEW k \in 1..n, names[j] = names[k] PROVE j = k
          OBVIOUS
        <5>1. entries_[j] = entries_[k]
          BY <2>2, <2>3, <3>1
        <5> QED BY <1>0, <5>1 DEF Once
      <4>2. names \in [1..n -> Range(names)]
        <5>1. names = [k \in 1..n |-> names[k]] /\ \A k \in 1..n : names[k] \in Range(names)
          BY <3>1 DEF names, Range
        <5> HIDE DEF n
        <5> QED BY <5>1
      <4>3. names \in Bijection(1..n, Range(names))
        BY <3>1, <4>1, <4>2 DEF Bijection, Injection, Surjection, IsInjective, Range
      <4>4. IsFiniteSet(1..n) /\ Cardinality(1..n) = n
        <5> HIDE DEF n
        <5>1. 1 \in Int /\ n \in Int
          BY <1>0
        <5> QED BY <1>0, <5>1, FS_Interval
      <4> DEFINE C == Range(names)
      <4>5. Cardinality(1..n) = Cardinality(C)
        <5>1. ExistsBijection(1..n, C)
          BY <4>3 DEF ExistsBijection
        <5> HIDE DEF n, C
        <5> QED BY <4>4, <5>1, FS_Bijection
      <4> QED BY <4>4, <4>5
    <3>5. \A j, k \in 1..n : j < k => ~Precedes(Key(k), Key(j))
      <4>1. ListSorted(case_sensitive, entries_, nm)
        BY <2>1, <2>5
      <4> HIDE DEF Key
      <4> QED BY <3>2, <4>1 DEF ListSorted
    <3>6. \A e \in R : buffers[e.buf][e.pos] = TypeByte
      BY <2>2 DEF HasName, NamedAt
    <3> QED BY <3>1, <3>3, <3>4, <3>5, <3>6 DEF names
  <2>6. \A k \in DOMAIN entries_ :
           entries_[k].pos + WordSize <= kBufSize /\ entries_[k].pos + Luck + RainyDay <= kBufSize
    BY <1>0, <2>3, <2>4
  <2> QED BY <1>3, <2>5, <2>6 DEF ListingRight
<1> QED BY <1>2, <1>3

(* However getdents64 splits and orders the entries, and however long names  *)
(* and buffers are, ListDir returns each name of the directory but the dots  *)
(* once, in order and as it was, and reads only within its buffers.          *)
THEOREM ListAlwaysRight == ListSpec => []ListingRight
<1>1. ListIInv => ListingRight
  BY ListRight
<1> QED BY <1>1, ListInvariant, PTL
=============================================================================
