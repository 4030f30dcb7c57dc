------------------------------- MODULE Listing -------------------------------
(***************************************************************************)
(* ListDir (dir.cc, as built on Linux): the entries of a directory, sorted *)
(* in the buffers getdents64 has filled.  An entry is a header, whose last *)
(* byte is d_type, and a name that ends with 0, padded to whole words; the *)
(* sort turns the first word of each name around, compares these as        *)
(* numbers and then the rest of the names, and turns them back.            *)
(*                                                                         *)
(* A byte is a number below Base.  An entry is the number of its buffer    *)
(* and the position of its name in there, from 0.                          *)
(***************************************************************************)
EXTENDS Integers, Sequences, FiniteSets, SequencesExt

CONSTANTS
    Base,            \* 256
    WordSize,        \* 8
    NameOffset,      \* 19: offsetof(linux_dirent64, d_name)
    kBufSize,        \* 8192
    RainyDay,        \* 256 bytes that are saved in each buffer
    Luck,            \* 5
    DotByte, LowerByte,   \* '.', and tolower
    HeaderByte, TypeByte, StaleBytes,   \* what is in headers, and in the rest
    EntryNames, MaxListed    \* names there may be; a bound on a directory

ASSUME ListingAssumption ==
    /\ {Base, WordSize, NameOffset, kBufSize, RainyDay, Luck, MaxListed} \subseteq Nat
    /\ LowerByte \in [1..(Base - 1) -> 1..(Base - 1)] /\ StaleBytes \subseteq 0..(Base - 1)
    /\ {HeaderByte, TypeByte} \subseteq 0..(Base - 1) /\ IsFiniteSet(EntryNames)
    /\ \A s \in EntryNames : s # << >> /\ s \in Seq(1..(Base - 1)) /\ Len(s) < RainyDay
    \* the least entry has Luck bytes for its name and its padding
    /\ Luck <= WordSize /\ (NameOffset + Luck) % WordSize = 0 /\ Luck >= 2
    /\ WordSize < NameOffset /\ WordSize <= RainyDay

VARIABLES
    listing,      \* "read", "listed" or "failed"
    case_sensitive,
    remaining,    \* the names getdents64 has not returned
    buffers,      \* the contents of the buffers, by the bytes
    entries_,     \* the vector entries
    listed        \* history: the names of the directory

listVars == <<listing, case_sensitive, remaining, buffers, entries_, listed>>

ListInit ==
    /\ listing = "read" /\ case_sensitive \in BOOLEAN
    /\ listed \in {s \in SUBSET EntryNames : Cardinality(s) <= MaxListed}
    /\ remaining = listed /\ buffers = << >> /\ entries_ = << >>

Dots(name) == name \in {<<DotByte>>, <<DotByte, DotByte>>}

\* What the kernel writes.
Bytes(b, n) == [k \in 1..n |-> b]
RecLen(name) == WordSize * ((NameOffset + Len(name) + WordSize) \div WordSize)
Dirent(name, stale) ==
    Bytes(HeaderByte, NameOffset - 1) \o <<TypeByte>> \o name \o <<0>>
      \o Bytes(stale, RecLen(name) - NameOffset - Len(name) - 1)
Dirents(names, stale) ==
    LET first[k \in 0..Len(names)] ==
          IF k = 0 THEN << >> ELSE first[k - 1] \o Dirent(names[k], stale)
    IN  first

\* The loop over the entries a call has brought, into the buffer buf, where
\* first[k] is what the first k of them take.
Pushed(es, buf, names, first) ==
    LET after[k \in 0..Len(names)] ==
          IF k = 0 THEN es
          ELSE IF Dots(names[k]) THEN after[k - 1]
          ELSE Append(after[k - 1], [buf |-> buf, pos |-> Len(first[k - 1]) + NameOffset])
    IN  after[Len(names)]

\* SYS_getdents64 returns some of what remains, in any order.
GetDents(names, stale) ==
    /\ listing = "read" /\ names # << >>
    /\ LET first == Dirents(names, stale)
           bytes == first[Len(names)]
       IN  /\ Len(bytes) <= kBufSize - RainyDay
           /\ buffers' = Append(buffers, bytes \o Bytes(stale, kBufSize - Len(bytes)))
           /\ entries_' = Pushed(entries_, Len(buffers) + 1, names, first)
    /\ remaining' = remaining \ Range(names)
    /\ UNCHANGED <<listing, case_sensitive, listed>>

GetDentsFails ==
    /\ listing = "read" /\ listing' = "failed" /\ entries_' = << >>
    /\ UNCHANGED <<case_sensitive, remaining, buffers, listed>>

-----------------------------------------------------------------------------
\* n bytes from the k-th byte of a name on.
Bytewise(m, e, k, n) == [j \in 1..n |-> m[e.buf][e.pos + k + j]]

\* SwapBytes: the first word of each name, the other way round.
SwapWord(m, e) ==
    [m EXCEPT ![e.buf] = [j \in DOMAIN @ |->
        IF j \in (e.pos + 1)..(e.pos + WordSize) THEN @[2 * e.pos + WordSize + 1 - j] ELSE @[j]]]
SwapBytes_No(m, es) == m
SwapBytes(m, es) ==
    LET after[k \in 0..Len(es)] == IF k = 0 THEN m ELSE SwapWord(after[k - 1], es[k])
    IN  after[Len(es)]

\* The number in the first word: the last byte is the most significant.
Read64(m, e) ==
    LET last[k \in 0..WordSize] ==
          IF k = 0 THEN 0 ELSE Base * last[k - 1] + m[e.buf][e.pos + WordSize + 1 - k]
    IN  last[WordSize]

\* memcmp and strcmp: x < y.
Precedes(x, y) ==
    \E k \in DOMAIN y :
       /\ k <= Len(x) + 1 /\ \A j \in 1..(k - 1) : x[j] = y[j]
       /\ k <= Len(x) => x[k] < y[k]
MemLess(m, a, b) ==
    \/ Read64(m, a) < Read64(m, b)
    \/ Read64(m, a) = Read64(m, b) /\ Precedes(Bytewise(m, a, Luck, RainyDay), Bytewise(m, b, Luck, RainyDay))

NameAt(m, e) ==
    LET end == CHOOSE n \in 0..RainyDay : m[e.buf][e.pos + n + 1] = 0 /\ \A k \in 1..n : m[e.buf][e.pos + k] # 0
    IN  Bytewise(m, e, 0, end)
Fold(name) == [k \in DOMAIN name |-> LowerByte[name[k]]]
CaseLess(m, a, b) == Precedes(Fold(NameAt(m, a)), Fold(NameAt(m, b)))

\* std::sort: any order in which nothing is in front of a lesser one.
SortEntries ==
    LET m == IF case_sensitive THEN SwapBytes(buffers, entries_) ELSE buffers
        Less(a, b) == IF case_sensitive THEN MemLess(m, a, b) ELSE CaseLess(m, a, b)
    IN  \E order \in SetToSeqs(Range(entries_)) :
          /\ \A j, k \in DOMAIN order : j < k => ~Less(order[k], order[j])
          /\ entries_' = order
          /\ buffers' = IF case_sensitive THEN SwapBytes(m, order) ELSE m

\* getdents64 returns 0.
EndOfDir ==
    /\ listing = "read" /\ remaining = {} /\ listing' = "listed" /\ SortEntries
    /\ UNCHANGED <<case_sensitive, remaining, listed>>

ListNext ==
    \/ \E s \in SUBSET remaining, stale \in StaleBytes : \E names \in SetToSeqs(s) : GetDents(names, stale)
    \/ GetDentsFails \/ EndOfDir

ListSpec == ListInit /\ [][ListNext]_listVars

-----------------------------------------------------------------------------
(* However getdents64 splits and orders the entries, ListDir returns each  *)
(* name of the directory but the dots once, in the order of strcmp or of   *)
(* strcasecmp, with the name and its d_type as they were, and reads only   *)
(* within the buffers, whatever is behind the entries.                     *)
ListingRight ==
    /\ \A k \in DOMAIN entries_ :
          entries_[k].pos + WordSize <= kBufSize /\ entries_[k].pos + Luck + RainyDay <= kBufSize
    /\ listing = "listed" =>
          LET names == [k \in DOMAIN entries_ |-> NameAt(buffers, entries_[k])]
              Key(k) == IF case_sensitive THEN names[k] ELSE Fold(names[k])
          IN  /\ Range(names) = {s \in listed : ~Dots(s)} /\ Cardinality(Range(names)) = Len(names)
              /\ \A j, k \in DOMAIN names : j < k => ~Precedes(Key(k), Key(j))
              /\ \A e \in Range(entries_) : buffers[e.buf][e.pos] = TypeByte
    /\ listing = "failed" => entries_ = << >>
=============================================================================
