------------------------------ MODULE ShellProofs ------------------------------
(***************************************************************************)
(* Proofs about the shell's side: the options on their way to the daemon   *)
(* (Options), the queries and their answers (Client), the worker of        *)
(* powerlevel10k (Worker), and the bytes of requests and answers           *)
(* (Messages).                                                             *)
(***************************************************************************)
EXTENDS Options, Client, Worker, Messages, FiniteSetTheorems, SequenceTheorems,
        WellFoundedInduction, TLAPS

-----------------------------------------------------------------------------
\* Options.  An argument is what getopt_long returns for it.

Letter == Limit \cup Flag \cup {"G", "v", "t"}
Argument == Letter \X Int
Word == {<< >>} \cup {<<n>> : n \in Int}

\* Among the first k arguments there is no o, or <<o, n>> is the last one of o.
Without(o, k) == \A j \in 1..k : args[j][1] # o
LastIs(o, n, k) == \E j \in 1..k : args[j] = <<o, n>> /\ \A i \in (j + 1)..k : args[i][1] # o

OptTyped ==
    /\ phase \in {"shell", "getopt", "running", "exited"}
    /\ args \in Seq(Argument) /\ optind \in 0..Len(args)
    /\ dirty_max_index_size \in Int
    /\ asked \in [Limit \cup Flag -> Word]
    /\ limits \in [Limit -> Nat] /\ flags \subseteq Flag
    /\ phase = "shell" => optind = 0

\* What is passed on says what the user's last word on each limit was, and
\* has the flags; the shell's own copy of -m is that word.
AskedPassed ==
    /\ \A o \in Limit :
          \/ asked[o] = << >> /\ Without(o, Len(args))
          \/ \E n \in Int : asked[o] = <<n>> /\ LastIs(o, n, Len(args))
    /\ \A o \in Flag : asked[o] # << >> => \E j \in 1..Len(args) : args[j][1] = o
    /\ \/ asked["m"] = << >> /\ dirty_max_index_size = -1
       \/ asked["m"] = <<dirty_max_index_size>>

\* The limits follow what has been parsed so far.
LimitsFollow ==
    phase # "exited" =>
       /\ \A o \in Limit :
             \/ Without(o, optind) /\ limits[o] = Default[o]
             \/ \E n \in Int : LastIs(o, n, optind) /\ limits[o] = ParseSizeT(n)
       /\ \A j \in 1..optind : args[j][1] \in Flag => args[j][1] \in flags
       /\ phase = "running" => optind = Len(args)

OptIInv == OptTyped /\ AskedPassed /\ LimitsFollow

\* A list grows at its end: what was last stays so but for the new argument.
LEMMA Appended ==
    ASSUME OptTyped, NEW a \in Letter, NEW n \in Int, args' = Append(args, <<a, n>>)
    PROVE  /\ args' \in Seq(Argument) /\ Len(args') = Len(args) + 1
           /\ \A j \in 1..Len(args) : args'[j] = args[j]
           /\ args'[Len(args) + 1] = <<a, n>>
           /\ LastIs(a, n, Len(args))'
           /\ \A o \in Letter : o # a /\ Without(o, Len(args)) => Without(o, Len(args))'
           /\ \A o \in Letter, m \in Int :
                 o # a /\ LastIs(o, m, Len(args)) => LastIs(o, m, Len(args))'
<1>1. /\ args' \in Seq(Argument) /\ Len(args') = Len(args) + 1 /\ Len(args) \in Nat
      /\ \A j \in 1..Len(args) : args'[j] = args[j]
      /\ args'[Len(args) + 1] = <<a, n>>
  BY AppendProperties, LenProperties DEF OptTyped, Argument
<1>2. LastIs(a, n, Len(args))'
  BY <1>1 DEF LastIs
<1>3. \A o \in Letter : o # a /\ Without(o, Len(args)) => Without(o, Len(args))'
  BY <1>1 DEF Without
<1>4. \A o \in Letter, m \in Int : o # a /\ LastIs(o, m, Len(args)) => LastIs(o, m, Len(args))'
  BY <1>1, SMTT(20) DEF LastIs
<1> QED BY <1>1, <1>2, <1>3, <1>4

LEMMA OptInitHolds == OptInit => OptIInv
<1> SUFFICES ASSUME OptInit PROVE OptIInv
  OBVIOUS
<1>1. args = << >> /\ << >> \in Seq(Argument) /\ Len(args) = 0
  BY EmptySeq DEF OptInit
<1>2. Default \in [Limit -> Nat]
  BY OptionsAssumption DEF Default, SizeMax, Limit
<1>3. OptTyped
  BY <1>1, <1>2 DEF OptInit, OptTyped, Word
<1>4. AskedPassed
  BY <1>1 DEF OptInit, AskedPassed, Without, Limit, Flag
<1>5. LimitsFollow
  BY <1>1 DEF OptInit, LimitsFollow, Without
<1> QED BY <1>3, <1>4, <1>5 DEF OptIInv

LEMMA StartLimitKeeps ==
    ASSUME OptIInv, NEW o \in Limit, NEW n \in Values, StartLimit(o, n)
    PROVE  OptIInv'
<1> USE DEF OptIInv
<1>1. o \in Letter /\ n \in Int /\ args' = Append(args, <<o, n>>)
  BY OptionsAssumption DEF StartLimit, Letter
<1>2. /\ args' \in Seq(Argument) /\ Len(args') = Len(args) + 1
      /\ \A j \in 1..Len(args) : args'[j] = args[j]
      /\ LastIs(o, n, Len(args))'
      /\ \A p \in Letter : p # o /\ Without(p, Len(args)) => Without(p, Len(args))'
      /\ \A p \in Letter, m \in Int : p # o /\ LastIs(p, m, Len(args)) => LastIs(p, m, Len(args))'
  BY <1>1, Appended
<1>3. optind = 0 /\ phase = "shell" /\ phase' = phase /\ optind' = 0 /\ limits' = limits /\ flags' = flags
  BY DEF StartLimit, OptTyped
<1>4. asked' = [asked EXCEPT ![o] = <<n>>] /\ asked \in [Limit \cup Flag -> Word]
  BY DEF StartLimit, OptTyped
<1>5. \A p \in Limit \cup Flag : asked'[p] = IF p = o THEN <<n>> ELSE asked[p]
  BY <1>4
<1>6. Len(args) \in Nat
  BY LenProperties DEF OptTyped
<1>7. OptTyped'
  <2>1. <<n>> \in Word
    BY <1>1 DEF Word
  <2>2. asked' \in [Limit \cup Flag -> Word]
    BY <1>4, <2>1
  <2>3. dirty_max_index_size' \in Int
    BY <1>1 DEF StartLimit, OptTyped
  <2> QED BY <1>2, <1>3, <1>6, <2>2, <2>3 DEF OptTyped
<1>8. AskedPassed'
  <2>1. ASSUME NEW p \in Limit
        PROVE  \/ asked'[p] = << >> /\ Without(p, Len(args))'
               \/ \E m \in Int : asked'[p] = <<m>> /\ LastIs(p, m, Len(args))'
    <3>1. CASE p = o
      BY <1>1, <1>2, <1>5, <3>1
    <3>2. CASE p # o
      <4>1. p \in Letter /\ asked'[p] = asked[p]
        BY <1>5, <3>2 DEF Letter
      <4> QED BY <1>2, <3>2, <4>1 DEF AskedPassed
    <3> QED BY <3>1, <3>2
  <2>2. \A p \in Flag : asked'[p] # << >> => \E j \in 1..Len(args') : args'[j][1] = p
    BY <1>2, <1>5, <1>6 DEF AskedPassed, Limit, Flag
  <2>3. \/ asked'["m"] = << >> /\ dirty_max_index_size' = -1
        \/ asked'["m"] = <<dirty_max_index_size'>>
    BY <1>5 DEF AskedPassed, StartLimit, Limit
  <2> QED BY <2>1, <2>2, <2>3 DEF AskedPassed
<1>9. LimitsFollow'
  <2>1. \A p \in Limit : limits'[p] = Default[p]
    BY <1>3 DEF LimitsFollow, LastIs
  <2> QED BY <1>3, <2>1 DEF LimitsFollow, Without
<1> QED BY <1>7, <1>8, <1>9

LEMMA StartFlagKeeps ==
    ASSUME OptIInv, NEW o \in Flag, StartFlag(o)
    PROVE  OptIInv'
<1> USE DEF OptIInv
<1>1. o \in Letter /\ o \notin Limit /\ args' = Append(args, <<o, 0>>)
  BY DEF StartFlag, Letter, Limit, Flag
<1>2. /\ args' \in Seq(Argument) /\ Len(args') = Len(args) + 1
      /\ \A j \in 1..Len(args) : args'[j] = args[j]
      /\ args'[Len(args) + 1] = <<o, 0>>
      /\ \A p \in Letter : p # o /\ Without(p, Len(args)) => Without(p, Len(args))'
      /\ \A p \in Letter, m \in Int : p # o /\ LastIs(p, m, Len(args)) => LastIs(p, m, Len(args))'
  <2>1. OptTyped /\ 0 \in Int
    OBVIOUS
  <2> HIDE DEF OptIInv
  <2> QED BY ONLY <1>1, <2>1, Appended
<1>3. optind = 0 /\ phase = "shell" /\ phase' = phase /\ optind' = 0 /\ limits' = limits /\ flags' = flags
  BY DEF StartFlag, OptTyped
<1>4. asked' = [asked EXCEPT ![o] = <<0>>] /\ asked \in [Limit \cup Flag -> Word]
  BY DEF StartFlag, OptTyped
<1>5. \A p \in Limit \cup Flag : asked'[p] = IF p = o THEN <<0>> ELSE asked[p]
  BY <1>4
<1>6. Len(args) \in Nat
  BY LenProperties DEF OptTyped
<1>7. OptTyped'
  <2>1. <<0>> \in Word
    BY DEF Word
  <2>2. asked' \in [Limit \cup Flag -> Word]
    BY <1>4, <2>1
  <2> QED BY <1>2, <1>3, <1>6, <2>2 DEF OptTyped, StartFlag
<1>8. AskedPassed'
  <2>1. \A p \in Limit : p \in Letter /\ p # o /\ asked'[p] = asked[p]
    BY <1>1, <1>5 DEF Letter
  <2>2. \A p \in Limit :
           \/ asked'[p] = << >> /\ Without(p, Len(args))'
           \/ \E m \in Int : asked'[p] = <<m>> /\ LastIs(p, m, Len(args))'
    BY <1>2, <2>1 DEF AskedPassed
  <2>3. \A p \in Flag : asked'[p] # << >> => \E j \in 1..Len(args') : args'[j][1] = p
    BY <1>2, <1>5, <1>6 DEF AskedPassed
  <2>4. \/ asked'["m"] = << >> /\ dirty_max_index_size' = -1
        \/ asked'["m"] = <<dirty_max_index_size'>>
    BY <2>1 DEF AskedPassed, StartFlag, Limit
  <2> QED BY <2>2, <2>3, <2>4 DEF AskedPassed
<1>9. LimitsFollow'
  <2>1. \A p \in Limit : limits'[p] = Default[p]
    BY <1>3 DEF LimitsFollow, LastIs
  <2> QED BY <1>3, <2>1 DEF LimitsFollow, Without
<1> QED BY <1>7, <1>8, <1>9

LEMMA StartUnflagKeeps ==
    ASSUME OptIInv, NEW o \in Flag, StartUnflag(o)
    PROVE  OptIInv'
<1> USE DEF OptIInv
<1>1. asked' = [asked EXCEPT ![o] = << >>] /\ asked \in [Limit \cup Flag -> Word]
  BY DEF StartUnflag, OptTyped
<1>2. \A p \in Limit \cup Flag : asked'[p] = IF p = o THEN << >> ELSE asked[p]
  BY <1>1
<1>3. \A p \in Limit : asked'[p] = asked[p]
  BY <1>2 DEF Limit, Flag
<1>4. UNCHANGED <<phase, args, dirty_max_index_size, optind, limits, flags>>
  BY DEF StartUnflag
<1>5. OptTyped'
  BY <1>1, <1>4 DEF OptTyped, Word
<1>6. AskedPassed'
  <2>1. \A p \in Limit :
           \/ asked'[p] = << >> /\ Without(p, Len(args))'
           \/ \E m \in Int : asked'[p] = <<m>> /\ LastIs(p, m, Len(args))'
    <3>1. \A p \in Limit : Without(p, Len(args))' = Without(p, Len(args))
      BY <1>4 DEF Without
    <3>2. \A p \in Limit, m \in Int : LastIs(p, m, Len(args))' = LastIs(p, m, Len(args))
      BY <1>4 DEF LastIs
    <3> QED BY <1>3, <3>1, <3>2 DEF AskedPassed
  <2>2. \A p \in Flag : asked'[p] # << >> => \E j \in 1..Len(args') : args'[j][1] = p
    BY <1>2, <1>4 DEF AskedPassed
  <2>3. \/ asked'["m"] = << >> /\ dirty_max_index_size' = -1
        \/ asked'["m"] = <<dirty_max_index_size'>>
    BY <1>3, <1>4 DEF AskedPassed, Limit
  <2> QED BY <2>1, <2>2, <2>3 DEF AskedPassed
<1>7. LimitsFollow'
  BY <1>4, ZenonT(20) DEF LimitsFollow, Without, LastIs
<1> QED BY <1>5, <1>6, <1>7

\* A sequence with one element put in front and two behind.
LEMMA Wrapped ==
    ASSUME NEW S, NEW s \in Seq(S), NEW x \in S, NEW y \in S, NEW z \in S,
           NEW w, w = <<x>> \o s \o <<y, z>>
    PROVE  /\ w \in Seq(S) /\ Len(s) \in Nat /\ Len(w) = Len(s) + 3
           /\ w[1] = x /\ \A j \in 1..Len(s) : w[j + 1] = s[j]
           /\ w[Len(s) + 2] = y /\ w[Len(s) + 3] = z
<1> DEFINE f == <<x>>
           b == <<y, z>>
           fs == f \o s
<1>1. /\ f \in Seq(S) /\ Len(f) = 1 /\ f[1] = x
      /\ b \in Seq(S) /\ Len(b) = 2 /\ b[1] = y /\ b[2] = z
      /\ Len(s) \in Nat
  BY LenProperties
<1> HIDE DEF f, b
<1>2. /\ fs \in Seq(S) /\ Len(fs) = Len(s) + 1
      /\ \A i \in 1..(Len(s) + 1) : fs[i] = IF i <= 1 THEN f[i] ELSE s[i - 1]
  <2>1. /\ fs \in Seq(S) /\ Len(fs) = Len(f) + Len(s)
        /\ \A i \in 1..(Len(f) + Len(s)) : fs[i] = IF i <= Len(f) THEN f[i] ELSE s[i - Len(f)]
    BY <1>1, ConcatProperties
  <2> QED BY <1>1, <2>1
<1> HIDE DEF fs
<1>3. /\ fs \o b \in Seq(S) /\ Len(fs \o b) = Len(fs) + Len(b)
      /\ \A i \in 1..(Len(fs) + Len(b)) : (fs \o b)[i] = IF i <= Len(fs) THEN fs[i] ELSE b[i - Len(fs)]
  BY <1>1, <1>2, ConcatProperties
<1>4. w = fs \o b
  BY DEF fs, f, b
<1>5. /\ w \in Seq(S) /\ Len(w) = Len(s) + 3
      /\ \A i \in 1..(Len(s) + 3) : w[i] = IF i <= Len(s) + 1 THEN fs[i] ELSE b[i - Len(s) - 1]
  BY <1>1, <1>2, <1>3, <1>4
<1>6. w[1] = x /\ \A j \in 1..Len(s) : w[j + 1] = s[j]
  BY <1>1, <1>2, <1>5
<1>7. w[Len(s) + 2] = y /\ w[Len(s) + 3] = z
  BY <1>1, <1>5
<1> QED BY <1>1, <1>5, <1>6, <1>7

\* The -G in front moves everything by one place; it and the two behind are
\* neither limits nor flags.
LEMMA LaunchKeeps ==
    ASSUME OptIInv, NEW threads \in ThreadCounts, Launch(threads)
    PROVE  OptIInv'
<1> USE DEF OptIInv
<1> DEFINE L == Len(args)
<1>1. /\ <<"G", 0>> \in Argument /\ <<"v", 0>> \in Argument /\ <<"t", threads>> \in Argument
      /\ args \in Seq(Argument)
  BY OptionsAssumption DEF Argument, Letter, OptTyped
<1>3. args' = << <<"G", 0>> >> \o args \o << <<"v", 0>>, <<"t", threads>> >>
  BY DEF Launch
<1>4. /\ args' \in Seq(Argument) /\ L \in Nat /\ Len(args') = L + 3
      /\ args'[1] = <<"G", 0>> /\ \A j \in 1..L : args'[j + 1] = args[j]
      /\ args'[L + 2] = <<"v", 0>> /\ args'[L + 3] = <<"t", threads>>
  BY <1>1, <1>3, Wrapped
<1>2. L \in Nat
  BY <1>4
<1>5. args'[1] = <<"G", 0>> /\ \A j \in 1..L : args'[j + 1] = args[j]
  BY <1>4
<1> HIDE DEF L
<1>6. phase' = "getopt" /\ phase = "shell" /\ UNCHANGED <<asked, dirty_max_index_size, optind, limits, flags>>
  BY DEF Launch
<1>7. OptTyped'
  BY <1>2, <1>4, <1>6 DEF OptTyped
<1>8. AskedPassed'
  <2>1. ASSUME NEW p \in Limit, Without(p, L)
        PROVE  Without(p, Len(args))'
    <3>1. p # "G" /\ p # "v" /\ p # "t"
      BY DEF Limit
    <3>2. ASSUME NEW j \in 1..(L + 3) PROVE args'[j][1] # p
      <4>1. CASE j = 1
        BY <1>5, <3>1, <4>1
      <4>2. CASE j \in 2..(L + 1)
        <5>1. j - 1 \in 1..L /\ args'[j] = args[j - 1]
          BY <1>2, <1>5, <4>2
        <5> QED BY <2>1, <5>1 DEF Without
      <4>3. CASE j \in {L + 2, L + 3}
        BY <1>4, <3>1, <4>3
      <4> QED BY <1>2, <4>1, <4>2, <4>3
    <3> QED BY <1>4, <3>2 DEF Without
  <2>2. ASSUME NEW p \in Limit, NEW m \in Int, LastIs(p, m, L)
        PROVE  LastIs(p, m, Len(args))'
    <3>1. p # "v" /\ p # "t"
      BY DEF Limit
    <3>2. PICK j \in 1..L : args[j] = <<p, m>> /\ \A i \in (j + 1)..L : args[i][1] # p
      BY <2>2 DEF LastIs
    <3>3. j + 1 \in 1..(L + 3) /\ args'[j + 1] = <<p, m>>
      BY <1>2, <1>5, <3>2
    <3>4. ASSUME NEW i \in ((j + 1) + 1)..(L + 3) PROVE args'[i][1] # p
      <4>1. CASE i <= L + 1
        <5>1. i - 1 \in (j + 1)..L /\ i - 1 \in 1..L /\ args'[i] = args[i - 1]
          BY <1>2, <1>5, <4>1
        <5> QED BY <3>2, <5>1
      <4>2. CASE i > L + 1
        <5>1. i = L + 2 \/ i = L + 3
          BY <1>2, <4>2
        <5>2. args'[L + 2][1] = "v" /\ args'[L + 3][1] = "t"
          BY <1>4
        <5> QED BY <3>1, <5>1, <5>2
      <4> QED BY <1>2, <4>1, <4>2
    <3>5. \E k \in 1..(L + 3) : args'[k] = <<p, m>> /\ \A i \in (k + 1)..(L + 3) : args'[i][1] # p
      BY <3>3, <3>4
    <3> QED BY <1>4, <3>5 DEF LastIs
  <2>3. \A p \in Flag : asked'[p] # << >> => \E j \in 1..Len(args') : args'[j][1] = p
    <3> SUFFICES ASSUME NEW p \in Flag, asked[p] # << >>
                 PROVE  \E j \in 1..(L + 3) : args'[j][1] = p
      BY <1>4, <1>6
    <3>1. PICK j \in 1..L : args[j][1] = p
      BY DEF AskedPassed, L
    <3>2. j + 1 \in 1..(L + 3) /\ args'[j + 1][1] = p
      BY <1>2, <1>5, <3>1
    <3> QED BY <3>2
  <2>4. \A p \in Limit :
           \/ asked'[p] = << >> /\ Without(p, Len(args))'
           \/ \E m \in Int : asked'[p] = <<m>> /\ LastIs(p, m, Len(args))'
    BY <1>6, <2>1, <2>2 DEF AskedPassed, L
  <2> QED BY <1>6, <2>3, <2>4 DEF AskedPassed
<1>9. LimitsFollow'
  <2>1. optind = 0
    BY <1>6 DEF OptTyped
  <2>2. \A p \in Limit : limits'[p] = Default[p]
    BY <1>6, <2>1 DEF LimitsFollow, LastIs
  <2> QED BY <1>6, <2>1, <2>2 DEF LimitsFollow, Without
<1> QED BY <1>7, <1>8, <1>9

\* One more argument has been parsed.
LEMMA ParseKeeps ==
    ASSUME OptIInv, NEW matches \in BOOLEAN, ParseOption(matches)
    PROVE  OptIInv'
<1> USE DEF OptIInv
<1>1. /\ phase = "getopt" /\ optind < Len(args) /\ optind' = optind + 1
      /\ UNCHANGED <<args, dirty_max_index_size, asked>>
  BY DEF ParseOption
<1>2. /\ args \in Seq(Argument) /\ Len(args) \in Nat /\ optind \in Nat /\ optind + 1 \in 1..Len(args)
      /\ limits \in [Limit -> Nat] /\ flags \subseteq Flag
  BY <1>1, LenProperties DEF OptTyped
<1>3. args[optind + 1] \in Argument
  BY <1>2, ElementOfSeq
<1>4. PICK o \in Letter, n \in Int :
         args[optind + 1] = <<o, n>> /\ args[optind + 1][1] = o /\ args[optind + 1][2] = n
  BY <1>3 DEF Argument
<1>5. AskedPassed'
  <2>1. \A p \in Limit : Without(p, Len(args))' = Without(p, Len(args))
    BY <1>1 DEF Without
  <2>2. \A p \in Limit, m \in Int : LastIs(p, m, Len(args))' = LastIs(p, m, Len(args))
    BY <1>1 DEF LastIs
  <2> QED BY <1>1, <2>1, <2>2 DEF AskedPassed
\* What the parsed arguments have become, for an option that is no limit and
\* for a limit.
<1>6. \A p \in Limit : p # o /\ Without(p, optind) => Without(p, optind)'
  <2> SUFFICES ASSUME NEW p \in Limit, p # o, Without(p, optind), NEW j \in 1..(optind + 1)
               PROVE  args[j][1] # p
    BY <1>1 DEF Without
  <2>1. CASE j = optind + 1
    BY <1>4, <2>1
  <2>2. CASE j \in 1..optind
    BY <2>2 DEF Without
  <2> QED BY <1>2, <2>1, <2>2
<1>7. \A p \in Limit, m \in Int : p # o /\ LastIs(p, m, optind) => LastIs(p, m, optind)'
  <2> SUFFICES ASSUME NEW p \in Limit, NEW m \in Int, p # o, LastIs(p, m, optind)
               PROVE  LastIs(p, m, optind)'
    OBVIOUS
  <2>1. PICK j \in 1..optind : args[j] = <<p, m>> /\ \A i \in (j + 1)..optind : args[i][1] # p
    BY DEF LastIs
  <2>2. ASSUME NEW i \in (j + 1)..(optind + 1) PROVE args[i][1] # p
    <3>1. CASE i = optind + 1
      BY <1>4, <3>1
    <3>2. CASE i \in (j + 1)..optind
      BY <2>1, <3>2
    <3> QED BY <1>2, <3>1, <3>2
  <2>3. j \in 1..(optind + 1)
    BY <1>2
  <2> QED BY <1>1, <2>1, <2>2, <2>3 DEF LastIs
<1>8. LastIs(o, n, optind)'
  <2>1. optind + 1 \in 1..(optind + 1) /\ (optind + 1 + 1)..(optind + 1) = {}
    BY <1>2
  <2> QED BY <1>1, <1>4, <2>1 DEF LastIs
<1>9. CASE o \in Limit /\ IsLong(n)
  <2>1. limits' = [limits EXCEPT ![o] = ParseSizeT(n)] /\ UNCHANGED <<phase, flags>>
    <3>1. o \notin Flag /\ o # "t" /\ o # "v" /\ o # "G"
      BY <1>9 DEF Limit, Flag
    <3> QED BY <1>4, <1>9, <3>1 DEF ParseOption
  <2>2. ParseSizeT(n) \in Nat
    BY <1>4, OptionsAssumption DEF ParseSizeT, SizeMax
  <2>3. \A p \in Limit : limits'[p] = IF p = o THEN ParseSizeT(n) ELSE limits[p]
    BY <1>2, <2>1
  <2>4. OptTyped'
    <3>1. limits' \in [Limit -> Nat]
      BY <1>2, <2>1, <2>2
    <3> QED BY <1>1, <1>2, <2>1, <3>1 DEF OptTyped
  <2>5. ASSUME NEW p \in Limit
        PROVE  \/ Without(p, optind)' /\ limits'[p] = Default[p]
               \/ \E m \in Int : LastIs(p, m, optind)' /\ limits'[p] = ParseSizeT(m)
    <3>1. CASE p = o
      BY <1>4, <1>8, <2>3, <3>1
    <3>2. CASE p # o
      BY <1>1, <1>6, <1>7, <2>3, <3>2 DEF LimitsFollow
    <3> QED BY <3>1, <3>2
  <2>6. o \notin Flag
    BY <1>9 DEF Limit, Flag
  <2>7. ASSUME NEW j \in 1..(optind + 1), args[j][1] \in Flag
        PROVE  args[j][1] \in flags
    <3>1. j \in 1..optind
      BY <1>2, <1>4, <2>6, <2>7
    <3> QED BY <1>1, <2>7, <3>1 DEF LimitsFollow
  <2>8. LimitsFollow'
    BY <1>1, <2>1, <2>5, <2>7 DEF LimitsFollow
  <2> QED BY <1>5, <2>4, <2>8
<1>10. CASE o \in Flag
  <2>1. o \notin Limit
    BY <1>10 DEF Limit, Flag
  <2>2. flags' = flags \cup {o} /\ UNCHANGED <<phase, limits>>
    <3>1. o # "t" /\ o # "v" /\ o # "G"
      BY <1>10 DEF Flag
    <3> QED BY <1>4, <1>10, <2>1, <3>1 DEF ParseOption
  <2>3. OptTyped'
    BY <1>1, <1>2, <1>10, <2>2 DEF OptTyped
  <2>4. \A p \in Limit :
           \/ Without(p, optind)' /\ limits'[p] = Default[p]
           \/ \E m \in Int : LastIs(p, m, optind)' /\ limits'[p] = ParseSizeT(m)
    BY <1>1, <1>6, <1>7, <2>1, <2>2 DEF LimitsFollow
  <2>5. ASSUME NEW j \in 1..(optind + 1), args[j][1] \in Flag
        PROVE  args[j][1] \in flags'
    <3>1. CASE j = optind + 1
      BY <1>4, <2>2, <3>1
    <3>2. CASE j \in 1..optind
      BY <1>1, <2>2, <2>5, <3>2 DEF LimitsFollow
    <3> QED BY <1>2, <3>1, <3>2
  <2>6. LimitsFollow'
    BY <1>1, <2>2, <2>4, <2>5 DEF LimitsFollow
  <2> QED BY <1>5, <2>3, <2>6
<1>11. CASE o \notin Limit /\ o \notin Flag /\ UNCHANGED <<phase, limits, flags>>
  <2>1. OptTyped'
    BY <1>1, <1>2, <1>11 DEF OptTyped
  <2>2. \A p \in Limit :
           \/ Without(p, optind)' /\ limits'[p] = Default[p]
           \/ \E m \in Int : LastIs(p, m, optind)' /\ limits'[p] = ParseSizeT(m)
    BY <1>1, <1>6, <1>7, <1>11 DEF LimitsFollow
  <2>3. ASSUME NEW j \in 1..(optind + 1), args[j][1] \in Flag
        PROVE  args[j][1] \in flags
    <3>1. j \in 1..optind
      BY <1>2, <1>4, <1>11, <2>3
    <3> QED BY <1>1, <2>3, <3>1 DEF LimitsFollow
  <2>4. LimitsFollow'
    BY <1>1, <1>11, <2>2, <2>3 DEF LimitsFollow
  <2> QED BY <1>5, <2>1, <2>4
<1>12. CASE phase' = "exited" /\ UNCHANGED <<limits, flags>>
  <2>1. OptTyped'
    BY <1>1, <1>2, <1>12 DEF OptTyped
  <2> QED BY <1>5, <1>12, <2>1 DEF LimitsFollow
<1>13. \/ o \in Limit /\ IsLong(n)
       \/ o \in Flag
       \/ o \notin Limit /\ o \notin Flag /\ UNCHANGED <<phase, limits, flags>>
       \/ phase' = "exited" /\ UNCHANGED <<limits, flags>>
  BY <1>4 DEF ParseOption, Exit, Limit, Flag
<1> QED BY <1>9, <1>10, <1>11, <1>12, <1>13

LEMMA ParsedKeeps ==
    ASSUME OptIInv, Parsed
    PROVE  OptIInv'
<1> USE DEF OptIInv
<1>1. /\ phase = "getopt" /\ optind = Len(args) /\ phase' = "running"
      /\ UNCHANGED <<args, dirty_max_index_size, asked, optind, limits, flags>>
  BY DEF Parsed
<1>2. \A p : Without(p, Len(args))' = Without(p, Len(args)) /\ Without(p, optind)' = Without(p, optind)
  BY <1>1 DEF Without
<1>3. \A p, m : LastIs(p, m, Len(args))' = LastIs(p, m, Len(args)) /\ LastIs(p, m, optind)' = LastIs(p, m, optind)
  BY <1>1 DEF LastIs
<1>4. OptTyped'
  BY <1>1 DEF OptTyped
<1>5. AskedPassed'
  BY <1>1, <1>2, <1>3 DEF AskedPassed
<1>6. LimitsFollow'
  BY <1>1, <1>2, <1>3 DEF LimitsFollow
<1> QED BY <1>4, <1>5, <1>6

LEMMA OptStutters ==
    ASSUME OptIInv, UNCHANGED optVars
    PROVE  OptIInv'
<1> USE DEF OptIInv, optVars
<1>1. UNCHANGED <<phase, args, dirty_max_index_size, asked, optind, limits, flags>>
  OBVIOUS
<1>2. \A p : Without(p, Len(args))' = Without(p, Len(args)) /\ Without(p, optind)' = Without(p, optind)
  BY <1>1 DEF Without
<1>3. \A p, m : LastIs(p, m, Len(args))' = LastIs(p, m, Len(args)) /\ LastIs(p, m, optind)' = LastIs(p, m, optind)
  BY <1>1 DEF LastIs
<1>4. OptTyped'
  BY <1>1 DEF OptTyped
<1>5. AskedPassed'
  BY <1>1, <1>2, <1>3 DEF AskedPassed
<1>6. LimitsFollow'
  BY <1>1, <1>2, <1>3 DEF LimitsFollow
<1> QED BY <1>4, <1>5, <1>6

(* The inductive invariant of the options: what is passed on says what the *)
(* user's last word was, and the limits follow what has been parsed.       *)
THEOREM OptInvariant == OptSpec => []OptIInv
<1>1. OptIInv /\ [OptNext]_optVars => OptIInv'
  BY StartLimitKeeps, StartFlagKeeps, StartUnflagKeeps, LaunchKeeps, ParseKeeps, ParsedKeeps,
     OptStutters DEF OptNext
<1> QED BY OptInitHolds, <1>1, PTL DEF OptSpec

LEMMA OptIInvAgrees == OptIInv => OptionsAgree
<1> SUFFICES ASSUME OptIInv, phase = "running" PROVE
       /\ \A size \in IndexSizes : Scans(size) <=> Known(size)
       /\ \A o \in Limit : limits[o] = IF asked[o] = << >> THEN Default[o]
                                       ELSE IF asked[o][1] < 0 THEN SizeMax ELSE asked[o][1]
       /\ {o \in Flag : asked[o] # << >>} \subseteq flags
  BY DEF OptionsAgree
<1>1. optind = Len(args) /\ Len(args) \in Nat
  BY LenProperties DEF OptIInv, OptTyped, LimitsFollow
<1>2. ASSUME NEW o \in Limit
      PROVE  \/ asked[o] = << >> /\ limits[o] = Default[o]
             \/ \E n \in Int : asked[o] = <<n>> /\ limits[o] = ParseSizeT(n)
  <2>1. CASE asked[o] = << >> /\ Without(o, Len(args))
    <3>1. \A m : ~LastIs(o, m, optind)
      BY <1>1, <2>1 DEF Without, LastIs
    <3> QED BY <2>1, <3>1 DEF OptIInv, LimitsFollow
  <2>2. ASSUME NEW n \in Int, asked[o] = <<n>>, LastIs(o, n, Len(args))
        PROVE  limits[o] = ParseSizeT(n)
    <3>1. PICK j \in 1..Len(args) : args[j] = <<o, n>> /\ \A i \in (j + 1)..Len(args) : args[i][1] # o
      BY <2>2 DEF LastIs
    <3>2. args[j][1] = o
      BY <3>1
    <3>3. ~Without(o, optind)
      BY <1>1, <3>2 DEF Without
    <3>4. PICK m \in Int : LastIs(o, m, Len(args)) /\ limits[o] = ParseSizeT(m)
      BY <1>1, <3>3 DEF OptIInv, LimitsFollow
    <3>5. PICK k \in 1..Len(args) : args[k] = <<o, m>> /\ \A i \in (k + 1)..Len(args) : args[i][1] # o
      BY <3>4 DEF LastIs
    <3>6. args[k][1] = o /\ args[k][2] = m /\ args[j][2] = n
      BY <3>1, <3>5
    <3>7. j = k
      BY <1>1, <3>1, <3>2, <3>5, <3>6
    <3> QED BY <3>4, <3>6, <3>7
  <2> QED BY <2>1, <2>2 DEF OptIInv, AskedPassed
<1>3. ASSUME NEW o \in Limit
      PROVE  limits[o] = IF asked[o] = << >> THEN Default[o]
                         ELSE IF asked[o][1] < 0 THEN SizeMax ELSE asked[o][1]
  <2>1. ASSUME NEW n \in Int, asked[o] = <<n>>, limits[o] = ParseSizeT(n)
        PROVE  asked[o] # << >> /\ limits[o] = IF asked[o][1] < 0 THEN SizeMax ELSE asked[o][1]
    BY <2>1 DEF ParseSizeT
  <2> QED BY <1>2, <2>1
<1>4. ASSUME NEW size \in IndexSizes
      PROVE  Scans(size) <=> Known(size)
  <2>1. size \in Nat /\ size <= LongMax /\ LongMax \in Nat /\ size <= SizeMax
    BY OptionsAssumption DEF SizeMax
  <2>2. "m" \in Limit
    BY DEF Limit
  <2>3. CASE asked["m"] = << >>
    <3>1. limits["m"] = SizeMax
      BY <1>3, <2>2, <2>3 DEF Default
    <3>2. dirty_max_index_size = -1
      BY <2>3 DEF OptIInv, AskedPassed
    <3> QED BY <2>1, <3>1, <3>2 DEF Scans, Known
  <2>4. CASE asked["m"] # << >>
    <3>1. asked["m"] = <<dirty_max_index_size>> /\ dirty_max_index_size \in Int
      BY <2>4 DEF OptIInv, AskedPassed, OptTyped
    <3>2. limits["m"] = IF dirty_max_index_size < 0 THEN SizeMax ELSE dirty_max_index_size
      BY <1>3, <2>2, <2>4, <3>1
    <3> QED BY <2>1, <3>1, <3>2 DEF Scans, Known
  <2> QED BY <2>3, <2>4
<1>5. {o \in Flag : asked[o] # << >>} \subseteq flags
  <2> SUFFICES ASSUME NEW o \in Flag, asked[o] # << >> PROVE o \in flags
    OBVIOUS
  <2>1. PICK j \in 1..Len(args) : args[j][1] = o
    BY DEF OptIInv, AskedPassed
  <2> QED BY <1>1, <2>1 DEF OptIInv, LimitsFollow
<1> QED BY <1>3, <1>4, <1>5

(* A running daemon goes by the user's last word on every limit, scans     *)
(* the very repositories whose counts the shell takes for known, and has   *)
(* the flags, whatever is given and however often.                         *)
THEOREM OptionsAlwaysAgree == OptSpec => []OptionsAgree
  BY OptInvariant, OptIInvAgrees, PTL

-----------------------------------------------------------------------------
\* The worker.

Message == {<<"s">>} \cup {<<"d", s>> : s \in Segments}

\* A request of the segment is on its way to the worker, its end is on its way
\* back, or subprocesses of it run.
Sent(s) == \E k \in 1..Len(work_req) : work_req[k][1] = s
Finished(s) == \E k \in 1..Len(work_resp) : work_resp[k] = <<"d", s>>
Runs(s) == work_inflight[s] > 0

WorkTyped ==
    /\ request_map \in [Segments -> Int] /\ \A s \in Segments : request_map[s] >= -1
    /\ work_req \in Seq(Segments \X Int)
    /\ work_resp \in Seq(Message)
    /\ work_inflight \in [Segments -> Nat] /\ invoked \in [Segments -> Nat]

\* No two messages are about the same segment.
WorkOnce ==
    /\ \A j, k \in 1..Len(work_req) : work_req[j][1] = work_req[k][1] => j = k
    /\ \A j, k \in 1..Len(work_resp) : work_resp[j] = work_resp[k] => j = k

\* A segment is in one of the three places at most; once the worker has
\* started, in one exactly if the map has it, and before that in none.
Apart(s) == ~(Sent(s) /\ Finished(s)) /\ ~(Sent(s) /\ Runs(s)) /\ ~(Finished(s) /\ Runs(s))
Mapped(s) == request_map[s] # -1 <=> Sent(s) \/ Finished(s) \/ Runs(s)
BeforeStart ==
    /\ work_req = << >> /\ work_resp = << <<"s">> >>
    /\ \A s \in Segments : ~Runs(s) /\ request_map[s] # 0
WorkWhere ==
    /\ \A s \in Segments : Apart(s)
    /\ started => /\ \A s \in Segments : Mapped(s)
                  /\ \A k \in 1..Len(work_resp) : work_resp[k] # <<"s">>
    /\ ~started => BeforeStart

WorkIInv == WorkTyped /\ WorkOnce /\ WorkWhere

LEMMA MessagesDiffer ==
    /\ \A s : <<"s">> # <<"d", s>>
    /\ \A s, r : <<"d", s>> = <<"d", r>> => s = r
  OBVIOUS

LEMMA WorkInitHolds == WorkInit => WorkIInv
<1> SUFFICES ASSUME WorkInit PROVE WorkIInv
  OBVIOUS
<1>1. /\ work_req = << >> /\ work_resp = << <<"s">> >> /\ started = FALSE
      /\ request_map = [s \in Segments |-> -1]
      /\ work_inflight = [s \in Segments |-> 0] /\ invoked = [s \in Segments |-> 0]
  BY DEF WorkInit
<1>2. Len(work_req) = 0 /\ work_req \in Seq(Segments \X Int)
  BY <1>1, EmptySeq
<1>3. Len(work_resp) = 1 /\ work_resp \in Seq(Message) /\ work_resp[1] = <<"s">>
  BY <1>1 DEF Message
<1>4. WorkTyped
  BY <1>1, <1>2, <1>3 DEF WorkTyped
<1>5. WorkOnce
  BY <1>2, <1>3 DEF WorkOnce
<1>6. \A s \in Segments : ~Sent(s) /\ ~Finished(s) /\ ~Runs(s)
  BY <1>1, <1>2, <1>3, MessagesDiffer DEF Sent, Finished, Runs
<1>7. BeforeStart
  BY <1>1, <1>6 DEF BeforeStart
<1>8. WorkWhere
  <2>1. ~started
    BY <1>1, Zenon
  <2> QED BY <1>6, <1>7, <2>1 DEF WorkWhere, Apart
<1> QED BY <1>4, <1>5, <1>8 DEF WorkIInv

\* A request is added for a segment that had none.
LEMMA Sending ==
    ASSUME WorkIInv, NEW s \in Segments, NEW n \in Int, ~Sent(s), work_req' = Append(work_req, <<s, n>>)
    PROVE  /\ work_req' \in Seq(Segments \X Int)
           /\ \A j, k \in 1..Len(work_req') : work_req'[j][1] = work_req'[k][1] => j = k
           /\ \A r \in Segments : Sent(r)' <=> r = s \/ Sent(r)
<1>1. /\ work_req' \in Seq(Segments \X Int) /\ Len(work_req) \in Nat
      /\ Len(work_req') = Len(work_req) + 1
      /\ \A k \in 1..Len(work_req) : work_req'[k] = work_req[k]
      /\ work_req'[Len(work_req) + 1] = <<s, n>>
  BY AppendProperties, LenProperties DEF WorkIInv, WorkTyped
<1>2. \A k \in 1..Len(work_req') :
         \/ k \in 1..Len(work_req) /\ work_req'[k] = work_req[k]
         \/ k = Len(work_req) + 1 /\ work_req'[k][1] = s
  BY <1>1
<1>3. \A k \in 1..Len(work_req) : work_req[k][1] # s
  BY DEF Sent
<1>4. \A j, k \in 1..Len(work_req') : work_req'[j][1] = work_req'[k][1] => j = k
  BY <1>2, <1>3 DEF WorkIInv, WorkOnce
<1>5. \A r \in Segments : Sent(r)' <=> r = s \/ Sent(r)
  <2>1. ASSUME NEW r \in Segments, Sent(r)' PROVE r = s \/ Sent(r)
    BY <1>2, <2>1 DEF Sent
  <2>2. ASSUME NEW r \in Segments, Sent(r) PROVE Sent(r)'
    BY <1>1, <2>2 DEF Sent
  <2>3. Sent(s)'
    <3>1. Len(work_req) + 1 \in 1..Len(work_req') /\ work_req'[Len(work_req) + 1][1] = s
      BY <1>1
    <3> QED BY <3>1 DEF Sent
  <2> QED BY <2>1, <2>2, <2>3
<1> QED BY <1>1, <1>4, <1>5

\* The worker takes a request, the only one of its segment.
LEMMA Taking ==
    ASSUME WorkIInv, work_req # << >>, work_req' = Tail(work_req)
    PROVE  /\ work_req' \in Seq(Segments \X Int)
           /\ \A j, k \in 1..Len(work_req') : work_req'[j][1] = work_req'[k][1] => j = k
           /\ Head(work_req)[1] \in Segments /\ Sent(Head(work_req)[1])
           /\ \A r \in Segments : Sent(r)' <=> r # Head(work_req)[1] /\ Sent(r)
<1>1. /\ work_req' \in Seq(Segments \X Int) /\ Len(work_req) \in Nat \ {0}
      /\ Len(work_req') = Len(work_req) - 1 /\ Head(work_req) = work_req[1]
      /\ \A k \in 1..Len(work_req') : work_req'[k] = work_req[k + 1]
      /\ Head(work_req) \in Segments \X Int
  BY HeadTailProperties, EmptySeq, LenProperties, SMTT(20) DEF WorkIInv, WorkTyped
<1>2. Head(work_req)[1] \in Segments /\ Sent(Head(work_req)[1])
  BY <1>1 DEF Sent
<1>3. \A j, k \in 1..Len(work_req') : work_req'[j][1] = work_req'[k][1] => j = k
  <2> SUFFICES ASSUME NEW j \in 1..Len(work_req'), NEW k \in 1..Len(work_req'),
                      work_req'[j][1] = work_req'[k][1]
               PROVE  j = k
    OBVIOUS
  <2>1. j + 1 \in 1..Len(work_req) /\ k + 1 \in 1..Len(work_req) /\ work_req[j + 1][1] = work_req[k + 1][1]
    BY <1>1
  <2>2. j + 1 = k + 1
    BY <2>1 DEF WorkIInv, WorkOnce
  <2> QED BY <1>1, <2>2
<1>4. ASSUME NEW r \in Segments, Sent(r)' PROVE r # Head(work_req)[1] /\ Sent(r)
  <2>1. PICK k \in 1..Len(work_req') : work_req'[k][1] = r
    BY <1>4 DEF Sent
  <2>2. k + 1 \in 1..Len(work_req) /\ k + 1 # 1 /\ 1 \in 1..Len(work_req) /\ work_req[k + 1][1] = r
    BY <1>1, <2>1
  <2>3. work_req[1][1] # r
    BY <2>2 DEF WorkIInv, WorkOnce
  <2> QED BY <1>1, <2>2, <2>3 DEF Sent
<1>5. ASSUME NEW r \in Segments, r # Head(work_req)[1], Sent(r) PROVE Sent(r)'
  <2>1. PICK k \in 1..Len(work_req) : work_req[k][1] = r
    BY <1>5 DEF Sent
  <2>2. k - 1 \in 1..Len(work_req') /\ k = (k - 1) + 1
    BY <1>1, <1>5, <2>1
  <2>3. work_req'[k - 1] = work_req[k]
    BY <1>1, <2>2
  <2> QED BY <2>1, <2>2, <2>3 DEF Sent
<1> QED BY <1>1, <1>2, <1>3, <1>4, <1>5

\* The worker tells that a segment is done, which it has not told.
LEMMA Telling ==
    ASSUME WorkIInv, NEW s \in Segments, ~Finished(s), work_resp' = Append(work_resp, <<"d", s>>)
    PROVE  /\ work_resp' \in Seq(Message)
           /\ \A j, k \in 1..Len(work_resp') : work_resp'[j] = work_resp'[k] => j = k
           /\ \A r \in Segments : Finished(r)' <=> r = s \/ Finished(r)
           /\ (\A k \in 1..Len(work_resp) : work_resp[k] # <<"s">>)
                 => \A k \in 1..Len(work_resp') : work_resp'[k] # <<"s">>
<1>1. /\ work_resp' \in Seq(Message) /\ Len(work_resp) \in Nat
      /\ Len(work_resp') = Len(work_resp) + 1
      /\ \A k \in 1..Len(work_resp) : work_resp'[k] = work_resp[k]
      /\ work_resp'[Len(work_resp) + 1] = <<"d", s>>
  <2>1. <<"d", s>> \in Message
    BY DEF Message
  <2> QED BY <2>1, AppendProperties, LenProperties DEF WorkIInv, WorkTyped
<1>2. \A k \in 1..Len(work_resp') :
         \/ k \in 1..Len(work_resp) /\ work_resp'[k] = work_resp[k]
         \/ k = Len(work_resp) + 1 /\ work_resp'[k] = <<"d", s>>
  BY <1>1
<1>3. \A k \in 1..Len(work_resp) : work_resp[k] # <<"d", s>>
  BY DEF Finished
<1>4. \A j, k \in 1..Len(work_resp') : work_resp'[j] = work_resp'[k] => j = k
  BY <1>2, <1>3 DEF WorkIInv, WorkOnce
<1>5. \A r \in Segments : Finished(r)' <=> r = s \/ Finished(r)
  <2>1. ASSUME NEW r \in Segments, Finished(r)' PROVE r = s \/ Finished(r)
    BY <1>2, <2>1, MessagesDiffer DEF Finished
  <2>2. ASSUME NEW r \in Segments, Finished(r) PROVE Finished(r)'
    BY <1>1, <2>2 DEF Finished
  <2>3. Finished(s)'
    <3>1. Len(work_resp) + 1 \in 1..Len(work_resp')
      BY <1>1
    <3> QED BY <1>1, <3>1 DEF Finished
  <2> QED BY <2>1, <2>2, <2>3
<1>6. ASSUME \A k \in 1..Len(work_resp) : work_resp[k] # <<"s">>
      PROVE  \A k \in 1..Len(work_resp') : work_resp'[k] # <<"s">>
  BY <1>2, <1>6, MessagesDiffer
<1> QED BY <1>1, <1>4, <1>5, <1>6

\* The shell reads a message, the only one of its kind.
LEMMA Reading ==
    ASSUME WorkIInv, work_resp # << >>, work_resp' = Tail(work_resp)
    PROVE  /\ work_resp' \in Seq(Message) /\ Len(work_resp) \in Nat \ {0} /\ Len(work_resp') = Len(work_resp) - 1
           /\ Head(work_resp) = work_resp[1]
           /\ \A j, k \in 1..Len(work_resp') : work_resp'[j] = work_resp'[k] => j = k
           /\ \A m \in Message : (\E k \in 1..Len(work_resp') : work_resp'[k] = m)
                 <=> m # Head(work_resp) /\ \E k \in 1..Len(work_resp) : work_resp[k] = m
<1>1. /\ work_resp' \in Seq(Message) /\ Len(work_resp) \in Nat \ {0}
      /\ Len(work_resp') = Len(work_resp) - 1 /\ Head(work_resp) = work_resp[1]
      /\ \A k \in 1..Len(work_resp') : work_resp'[k] = work_resp[k + 1]
  BY HeadTailProperties, EmptySeq, LenProperties DEF WorkIInv, WorkTyped
<1>2. \A j, k \in 1..Len(work_resp') : work_resp'[j] = work_resp'[k] => j = k
  <2> SUFFICES ASSUME NEW j \in 1..Len(work_resp'), NEW k \in 1..Len(work_resp'),
                      work_resp'[j] = work_resp'[k]
               PROVE  j = k
    OBVIOUS
  <2>1. j + 1 \in 1..Len(work_resp) /\ k + 1 \in 1..Len(work_resp) /\ work_resp[j + 1] = work_resp[k + 1]
    BY <1>1
  <2>2. j + 1 = k + 1
    BY <2>1 DEF WorkIInv, WorkOnce
  <2> QED BY <1>1, <2>2
<1>3. ASSUME NEW m \in Message, NEW k \in 1..Len(work_resp'), work_resp'[k] = m
      PROVE  m # Head(work_resp) /\ \E j \in 1..Len(work_resp) : work_resp[j] = m
  <2>1. k + 1 \in 1..Len(work_resp) /\ k + 1 # 1 /\ 1 \in 1..Len(work_resp) /\ work_resp[k + 1] = m
    BY <1>1, <1>3
  <2>2. work_resp[1] # m
    BY <2>1 DEF WorkIInv, WorkOnce
  <2> QED BY <1>1, <2>1, <2>2
<1>4. ASSUME NEW m \in Message, NEW k \in 1..Len(work_resp), work_resp[k] = m, m # Head(work_resp)
      PROVE  \E j \in 1..Len(work_resp') : work_resp'[j] = m
  <2>1. k - 1 \in 1..Len(work_resp') /\ k = (k - 1) + 1
    BY <1>1, <1>4
  <2>2. work_resp'[k - 1] = work_resp[k]
    BY <1>1, <2>1
  <2> QED BY <1>4, <2>1, <2>2
<1> QED BY <1>1, <1>2, <1>3, <1>4

LEMMA InvokeKeeps ==
    ASSUME WorkIInv, NEW s \in Segments, _p9k_worker_invoke(s)
    PROVE  WorkIInv'
<1> USE DEF WorkIInv
<1> DEFINE n == invoked[s] + 1
<1>1. /\ invoked' = [invoked EXCEPT ![s] = @ + 1] /\ UNCHANGED <<started, work_resp, work_inflight>>
      /\ n \in Nat /\ n > 0 /\ invoked'[s] = n /\ invoked' \in [Segments -> Nat]
  BY DEF _p9k_worker_invoke, WorkTyped
<1> HIDE DEF n
<1>2. \A r \in Segments : Finished(r)' = Finished(r) /\ Runs(r)' = Runs(r)
  BY <1>1 DEF Finished, Runs
<1>3. CASE started /\ request_map[s] = -1
  <2>1. request_map' = [request_map EXCEPT ![s] = 0] /\ work_req' = Append(work_req, <<s, n>>)
    BY <1>1, <1>3 DEF _p9k_worker_invoke, SendWork
  <2>2. ~Sent(s) /\ ~Finished(s) /\ ~Runs(s)
    BY <1>3 DEF WorkWhere, Mapped
  <2>3. /\ work_req' \in Seq(Segments \X Int)
        /\ \A j, k \in 1..Len(work_req') : work_req'[j][1] = work_req'[k][1] => j = k
        /\ \A r \in Segments : Sent(r)' <=> r = s \/ Sent(r)
    <3> HIDE DEF WorkIInv
    <3>1. WorkIInv /\ ~Sent(s) /\ n \in Int /\ work_req' = Append(work_req, <<s, n>>)
      BY <1>1, <2>1, <2>2
    <3> QED BY <3>1, Sending
  <2>4. \A r \in Segments : request_map'[r] = IF r = s THEN 0 ELSE request_map[r]
    BY <2>1 DEF WorkTyped
  <2>5. WorkTyped'
    BY <1>1, <2>1, <2>3, <2>4 DEF WorkTyped
  <2>6. WorkOnce'
    BY <1>1, <2>3 DEF WorkOnce
  <2>7. \A r \in Segments : Apart(r)' /\ Mapped(r)'
    BY <1>2, <1>3, <2>2, <2>3, <2>4 DEF WorkWhere, Apart, Mapped
  <2>8. started' /\ \A k \in 1..Len(work_resp') : work_resp'[k] # <<"s">>
    BY <1>1, <1>3 DEF WorkWhere
  <2> QED BY <2>5, <2>6, <2>7, <2>8 DEF WorkWhere
<1>4. CASE ~(started /\ request_map[s] = -1)
  <2>1. request_map' = [request_map EXCEPT ![s] = n] /\ work_req' = work_req
    BY <1>1, <1>4 DEF _p9k_worker_invoke
  <2>2. \A r \in Segments : Sent(r)' = Sent(r)
    BY <2>1 DEF Sent
  <2>3. \A r \in Segments : request_map'[r] = IF r = s THEN n ELSE request_map[r]
    BY <2>1 DEF WorkTyped
  <2>4. WorkTyped'
    BY <1>1, <2>1, <2>3 DEF WorkTyped
  <2>5. WorkOnce'
    BY <1>1, <2>1 DEF WorkOnce
  <2>6. \A r \in Segments : Apart(r)'
    BY <1>2, <2>2 DEF WorkWhere, Apart
  <2>7. CASE started
    <3>1. started' /\ \A k \in 1..Len(work_resp') : work_resp'[k] # <<"s">>
      BY <1>1, <2>7 DEF WorkWhere
    <3>2. \A r \in Segments : Mapped(r)'
      BY <1>1, <1>2, <1>4, <2>2, <2>3, <2>7 DEF WorkWhere, Mapped
    <3> QED BY <2>4, <2>5, <2>6, <3>1, <3>2 DEF WorkWhere
  <2>8. CASE ~started
    <3>1. ~started' /\ BeforeStart'
      BY <1>1, <1>2, <2>1, <2>3, <2>8 DEF WorkWhere, BeforeStart
    <3> QED BY <2>4, <2>5, <2>6, <3>1 DEF WorkWhere
  <2> QED BY <2>7, <2>8
<1> QED BY <1>3, <1>4

\* SetToSeq makes a sequence of a finite set, each element once.
LEMMA SetToSeqFacts ==
    ASSUME NEW S, IsFiniteSet(S)
    PROVE  /\ SetToSeq(S) \in Seq(S) /\ Len(SetToSeq(S)) = Cardinality(S)
           /\ \A j, k \in 1..Len(SetToSeq(S)) : SetToSeq(S)[j] = SetToSeq(S)[k] => j = k
           /\ \A x \in S : \E k \in 1..Len(SetToSeq(S)) : SetToSeq(S)[k] = x
<1> DEFINE n == Cardinality(S)
           f == SetToSeq(S)
<1>1. n \in Nat /\ ExistsBijection(1..n, S)
  BY FS_CardinalityType
<1> HIDE DEF n
<1>2. PICK g \in [1..n -> S] : IsInjective(g)
  BY <1>1 DEF ExistsBijection, Bijection, Injection
<1>3. f \in [1..n -> S] /\ IsInjective(f)
  BY <1>2 DEF SetToSeq, n
<1> HIDE DEF f
<1>4. f \in Seq(S) /\ Len(f) = n
  BY <1>1, <1>3
<1>5. \A j, k \in 1..n : f[j] = f[k] => j = k
  BY <1>3 DEF IsInjective
<1>6. f \in Surjection(1..n, S)
  <2>1. f \in Injection(1..n, S)
    BY <1>3 DEF Injection
  <2>2. IsFiniteSet(1..n) /\ Cardinality(1..n) = n
    BY <1>1, FS_Interval
  <2> QED BY <2>1, <2>2, FS_Injection DEF n
<1>7. \A x \in S : \E k \in 1..n : f[k] = x
  BY <1>6 DEF Surjection
<1> QED BY <1>4, <1>5, <1>7 DEF f, n

LEMMA ReceiveStartKeeps ==
    ASSUME WorkIInv, ReceiveStart
    PROVE  WorkIInv'
<1> USE DEF WorkIInv
<1> DEFINE Due == {z \in Segments : request_map[z] > 0}
           S == {<<s, request_map[s]>> : s \in Due}
<1>1. /\ work_resp # << >> /\ Head(work_resp) = <<"s">> /\ started' = TRUE
      /\ work_req' = work_req \o SetToSeq(S)
      /\ request_map' = [s \in Segments |-> IF request_map[s] = -1 THEN -1 ELSE 0]
      /\ work_resp' = Tail(work_resp) /\ UNCHANGED <<work_inflight, invoked>>
  BY DEF ReceiveStart
<1>2. ~started
  <2>1. Len(work_resp) \in Nat \ {0} /\ Head(work_resp) = work_resp[1]
    BY <1>1, Reading
  <2>2. 1 \in 1..Len(work_resp) /\ work_resp[1] = <<"s">>
    BY <1>1, <2>1
  <2> QED BY <2>2 DEF WorkWhere
<1>3. BeforeStart
  BY <1>2 DEF WorkWhere
<1>4. IsFiniteSet(S)
  <2>1. Due \subseteq Segments /\ IsFiniteSet(Due)
    BY WorkerAssumption, FS_Subset
  <2> DEFINE g == [z \in Due |-> <<z, request_map[z]>>]
  <2>2. g \in Surjection(Due, S)
    BY DEF Surjection
  <2> QED BY <2>1, <2>2, FS_Surjection
<1> DEFINE q == SetToSeq(S)
<1>5. /\ q \in Seq(S) /\ Len(q) \in Nat
      /\ \A j, k \in 1..Len(q) : q[j] = q[k] => j = k
      /\ \A x \in S : \E k \in 1..Len(q) : q[k] = x
  BY <1>4, SetToSeqFacts, LenProperties
<1>6. work_req' = q
  <2>1. work_req' = << >> \o q
    BY <1>1, <1>3 DEF BeforeStart
  <2> QED BY <1>5, <2>1, ConcatEmptySeq
<1> HIDE DEF q
<1>7. \A k \in 1..Len(q) : q[k] \in S
  BY <1>5, ElementOfSeq
<1>8. \A r \in Segments : request_map[r] \in Int /\ (request_map[r] # -1 <=> r \in Due)
  BY <1>3 DEF WorkTyped, BeforeStart
<1>9. work_req' \in Seq(Segments \X Int)
  <2>1. S \subseteq Segments \X Int
    BY <1>8
  <2> HIDE DEF S
  <2> QED BY <1>5, <1>6, <2>1, SeqMonotonic
<1>10. \A j, k \in 1..Len(work_req') : work_req'[j][1] = work_req'[k][1] => j = k
  <2> SUFFICES ASSUME NEW j \in 1..Len(q), NEW k \in 1..Len(q), q[j][1] = q[k][1]
               PROVE  j = k
    BY <1>6
  <2>1. PICK y \in Due : q[j] = <<y, request_map[y]>>
    BY <1>7
  <2>2. PICK z \in Due : q[k] = <<z, request_map[z]>>
    BY <1>7
  <2>3. q[j] = q[k]
    BY <2>1, <2>2
  <2> QED BY <1>5, <2>3
<1>11. \A r \in Segments : Sent(r)' <=> r \in Due
  <2>1. ASSUME NEW r \in Segments, Sent(r)' PROVE r \in Due
    <3>1. PICK k \in 1..Len(q) : q[k][1] = r
      BY <1>6, <2>1 DEF Sent
    <3>2. PICK y \in Due : q[k] = <<y, request_map[y]>>
      BY <1>7
    <3>3. r = y
      BY <3>1, <3>2
    <3> QED BY <3>3
  <2>2. ASSUME NEW r \in Due PROVE Sent(r)'
    <3>1. PICK k \in 1..Len(q) : q[k] = <<r, request_map[r]>>
      BY <1>5
    <3>2. q[k][1] = r
      BY <3>1
    <3> QED BY <1>6, <3>2 DEF Sent
  <2> QED BY <2>1, <2>2
<1>12. work_resp' = << >> /\ Len(work_resp') = 0 /\ work_resp' \in Seq(Message)
  <2>1. Len(work_resp) = 1 /\ work_resp' \in Seq(Message) /\ Len(work_resp') = Len(work_resp) - 1
    BY <1>1, <1>3, Reading DEF BeforeStart
  <2> QED BY <2>1, EmptySeq
<1>13. \A r \in Segments : ~Finished(r)' /\ ~Runs(r)'
  BY <1>1, <1>3, <1>12 DEF Finished, Runs, BeforeStart
<1>14. \A r \in Segments : request_map'[r] = IF request_map[r] = -1 THEN -1 ELSE 0
  BY <1>1
<1> HIDE DEF S, Due
<1>15. WorkTyped'
  BY <1>1, <1>9, <1>12, <1>14 DEF WorkTyped
<1>16. WorkOnce'
  BY <1>10, <1>12 DEF WorkOnce
<1>17. \A r \in Segments : Apart(r)' /\ Mapped(r)'
  BY <1>8, <1>11, <1>13, <1>14 DEF Apart, Mapped
<1>18. started'
  BY <1>1, Zenon
<1>19. WorkWhere'
  BY <1>12, <1>17, <1>18 DEF WorkWhere
<1> QED BY <1>15, <1>16, <1>19

LEMMA ReceiveDoneKeeps ==
    ASSUME WorkIInv, NEW s \in Segments, ReceiveDone(s)
    PROVE  WorkIInv'
<1> USE DEF WorkIInv
<1>1. /\ work_resp # << >> /\ Head(work_resp) = <<"d", s>> /\ work_resp' = Tail(work_resp)
      /\ UNCHANGED <<started, work_inflight, invoked>>
  BY DEF ReceiveDone
<1>2. /\ work_resp' \in Seq(Message) /\ Len(work_resp) \in Nat \ {0}
      /\ Head(work_resp) = work_resp[1]
      /\ \A j, k \in 1..Len(work_resp') : work_resp'[j] = work_resp'[k] => j = k
      /\ \A m \in Message : (\E k \in 1..Len(work_resp') : work_resp'[k] = m)
            <=> m # Head(work_resp) /\ \E k \in 1..Len(work_resp) : work_resp[k] = m
  BY <1>1, Reading
<1>3. Finished(s)
  BY <1>1, <1>2 DEF Finished
<1>4. started
  <2>1. ASSUME ~started PROVE FALSE
    <3>1. work_resp[1] = <<"s">>
      BY <2>1 DEF WorkWhere, BeforeStart
    <3> QED BY <1>1, <1>2, <3>1, MessagesDiffer
  <2> QED BY <2>1
<1>5. request_map[s] # -1 /\ ~Sent(s) /\ ~Runs(s)
  BY <1>3, <1>4 DEF WorkWhere, Apart, Mapped
<1>6. \A r \in Segments : Finished(r)' <=> r # s /\ Finished(r)
  <2> SUFFICES ASSUME NEW r \in Segments PROVE Finished(r)' <=> r # s /\ Finished(r)
    OBVIOUS
  <2>1. <<"d", r>> \in Message /\ (<<"d", r>> # <<"d", s>> <=> r # s)
    BY MessagesDiffer DEF Message
  <2> DEFINE m == <<"d", r>>
  <2>2. m \in Message /\ (m # Head(work_resp) <=> r # s)
    BY <1>1, <2>1
  <2> HIDE DEF m
  <2>3. (\E k \in 1..Len(work_resp') : work_resp'[k] = m)
           <=> m # Head(work_resp) /\ \E k \in 1..Len(work_resp) : work_resp[k] = m
    BY <1>2, <2>2, Zenon
  <2> QED BY <2>2, <2>3 DEF Finished, m
<1>7. \A k \in 1..Len(work_resp') : work_resp'[k] # <<"s">>
  <2>1. <<"s">> \in Message
    BY DEF Message
  <2> QED BY <1>2, <1>4, <2>1 DEF WorkWhere
<1>8. \A r \in Segments : Runs(r)' = Runs(r)
  BY <1>1 DEF Runs
<1>9. CASE request_map[s] > 0
  <2>1. request_map' = [request_map EXCEPT ![s] = 0] /\ work_req' = Append(work_req, <<s, request_map[s]>>)
    BY <1>9 DEF ReceiveDone, SendWork
  <2>2. request_map[s] \in Int
    BY DEF WorkTyped
  <2>3. /\ work_req' \in Seq(Segments \X Int)
        /\ \A j, k \in 1..Len(work_req') : work_req'[j][1] = work_req'[k][1] => j = k
        /\ \A r \in Segments : Sent(r)' <=> r = s \/ Sent(r)
    BY <1>5, <2>1, <2>2, Sending
  <2>4. \A r \in Segments : request_map'[r] = IF r = s THEN 0 ELSE request_map[r]
    BY <2>1 DEF WorkTyped
  <2>5. WorkTyped'
    BY <1>1, <1>2, <2>1, <2>3, <2>4 DEF WorkTyped
  <2>6. WorkOnce'
    BY <1>2, <2>3 DEF WorkOnce
  <2>7. \A r \in Segments : Apart(r)' /\ Mapped(r)'
    BY <1>4, <1>5, <1>6, <1>8, <2>3, <2>4 DEF WorkWhere, Apart, Mapped
  <2> QED BY <1>1, <1>4, <1>7, <2>5, <2>6, <2>7 DEF WorkWhere
<1>10. CASE ~(request_map[s] > 0)
  <2>1. request_map' = [request_map EXCEPT ![s] = -1] /\ work_req' = work_req
    BY <1>10 DEF ReceiveDone
  <2>2. \A r \in Segments : Sent(r)' = Sent(r)
    BY <2>1 DEF Sent
  <2>3. \A r \in Segments : request_map'[r] = IF r = s THEN -1 ELSE request_map[r]
    BY <2>1 DEF WorkTyped
  <2>4. WorkTyped'
    BY <1>1, <1>2, <2>1, <2>3 DEF WorkTyped
  <2>5. WorkOnce'
    BY <1>2, <2>1 DEF WorkOnce
  <2>6. \A r \in Segments : Apart(r)' /\ Mapped(r)'
    BY <1>4, <1>5, <1>6, <1>8, <2>2, <2>3 DEF WorkWhere, Apart, Mapped
  <2> QED BY <1>1, <1>4, <1>7, <2>4, <2>5, <2>6 DEF WorkWhere
<1> QED BY <1>9, <1>10

\* What the worker tells at the end of a step: nothing, or that s is done.
LEMMA TellFacts ==
    ASSUME WorkIInv, NEW s \in Segments, ~Finished(s), started, NEW done \in BOOLEAN, Tell(s, done)
    PROVE  /\ work_resp' \in Seq(Message)
           /\ \A j, k \in 1..Len(work_resp') : work_resp'[j] = work_resp'[k] => j = k
           /\ \A r \in Segments : Finished(r)' <=> (r = s /\ done) \/ Finished(r)
           /\ \A k \in 1..Len(work_resp') : work_resp'[k] # <<"s">>
<1> USE DEF WorkIInv
<1>1. \A k \in 1..Len(work_resp) : work_resp[k] # <<"s">>
  BY DEF WorkWhere
<1>2. CASE done
  <2>1. work_resp' = Append(work_resp, <<"d", s>>)
    BY <1>2 DEF Tell
  <2> QED BY <1>1, <1>2, <2>1, Telling
<1>3. CASE ~done
  <2>1. work_resp' = work_resp
    BY <1>3 DEF Tell
  <2> QED BY <1>1, <1>3, <2>1 DEF WorkTyped, WorkOnce, Finished
<1> QED BY <1>2, <1>3

LEMMA EvaluateKeeps ==
    ASSUME WorkIInv, NEW n \in 0..MaxAsync, Evaluate(n)
    PROVE  WorkIInv'
<1> USE DEF WorkIInv
<1> DEFINE s == Head(work_req)[1]
<1>1. /\ work_req # << >> /\ work_req' = Tail(work_req)
      /\ work_inflight' = [work_inflight EXCEPT ![s] = @ + n] /\ Tell(s, work_inflight'[s] = 0)
      /\ UNCHANGED <<started, request_map, invoked>>
  BY DEF Evaluate
<1>2. /\ work_req' \in Seq(Segments \X Int)
      /\ \A j, k \in 1..Len(work_req') : work_req'[j][1] = work_req'[k][1] => j = k
      /\ s \in Segments /\ Sent(s)
      /\ \A r \in Segments : Sent(r)' <=> r # s /\ Sent(r)
  BY <1>1, Taking
<1> HIDE DEF s
<1>3. PICK z \in Segments : z = s
  BY <1>2
<1>4. started
  BY <1>1 DEF WorkWhere, BeforeStart
<1>5. ~Finished(z) /\ ~Runs(z) /\ request_map[z] # -1
  BY <1>2, <1>3, <1>4 DEF WorkWhere, Apart, Mapped
<1>6. n \in Nat
  BY WorkerAssumption
<1>7. /\ work_inflight' \in [Segments -> Nat] /\ work_inflight'[z] = n
      /\ \A r \in Segments : r # z => work_inflight'[r] = work_inflight[r]
  BY <1>1, <1>3, <1>5, <1>6, SMTT(20) DEF WorkTyped, Runs
<1>8. Tell(z, n = 0)
  BY <1>1, <1>3, <1>7
<1>9. (n = 0) \in BOOLEAN
  OBVIOUS
<1>10. /\ work_resp' \in Seq(Message)
       /\ \A j, k \in 1..Len(work_resp') : work_resp'[j] = work_resp'[k] => j = k
       /\ \A r \in Segments : Finished(r)' <=> (r = z /\ n = 0) \/ Finished(r)
       /\ \A k \in 1..Len(work_resp') : work_resp'[k] # <<"s">>
  BY <1>4, <1>5, <1>8, <1>9, TellFacts
<1>11. \A r \in Segments : Runs(r)' <=> (r = z /\ n > 0) \/ (r # z /\ Runs(r))
  BY <1>6, <1>7 DEF Runs
<1>12. WorkTyped'
  BY <1>1, <1>2, <1>7, <1>10 DEF WorkTyped
<1>13. WorkOnce'
  BY <1>2, <1>10 DEF WorkOnce
<1>14. \A r \in Segments : Apart(r)' /\ Mapped(r)'
  BY <1>1, <1>2, <1>3, <1>4, <1>5, <1>6, <1>10, <1>11 DEF WorkWhere, Apart, Mapped
<1> QED BY <1>1, <1>4, <1>10, <1>12, <1>13, <1>14 DEF WorkWhere

LEMMA AsyncEndsKeeps ==
    ASSUME WorkIInv, NEW s \in Segments, NEW n \in 0..1, AsyncEnds(s, n)
    PROVE  WorkIInv'
<1> USE DEF WorkIInv
<1> DEFINE m == work_inflight[s] + n - 1
<1>1. /\ work_inflight[s] > 0 /\ work_inflight' = [work_inflight EXCEPT ![s] = @ + n - 1]
      /\ Tell(s, IsLast(work_inflight'[s]))
      /\ UNCHANGED <<started, request_map, work_req, invoked>>
  BY DEF AsyncEnds
<1>2. /\ m \in Nat /\ work_inflight' \in [Segments -> Nat] /\ work_inflight'[s] = m
      /\ \A r \in Segments : r # s => work_inflight'[r] = work_inflight[r]
  BY <1>1 DEF WorkTyped
<1>3. Runs(s)
  BY <1>1 DEF Runs
<1>4. started
  BY <1>3 DEF WorkWhere, BeforeStart
<1>5. ~Finished(s) /\ ~Sent(s) /\ request_map[s] # -1
  BY <1>3, <1>4 DEF WorkWhere, Apart, Mapped
<1> HIDE DEF m
<1>6. Tell(s, m = 0) /\ (m = 0) \in BOOLEAN
  BY <1>1, <1>2 DEF IsLast
<1>7. /\ work_resp' \in Seq(Message)
      /\ \A j, k \in 1..Len(work_resp') : work_resp'[j] = work_resp'[k] => j = k
      /\ \A r \in Segments : Finished(r)' <=> (r = s /\ m = 0) \/ Finished(r)
      /\ \A k \in 1..Len(work_resp') : work_resp'[k] # <<"s">>
  BY <1>4, <1>5, <1>6, TellFacts
<1>8. \A r \in Segments : Runs(r)' <=> (r = s /\ m > 0) \/ (r # s /\ Runs(r))
  BY <1>2 DEF Runs
<1>9. \A r \in Segments : Sent(r)' = Sent(r)
  BY <1>1 DEF Sent
<1>10. WorkTyped'
  BY <1>1, <1>2, <1>7 DEF WorkTyped
<1>11. WorkOnce'
  BY <1>1, <1>7 DEF WorkOnce
<1>12. \A r \in Segments : Apart(r)' /\ Mapped(r)'
  BY <1>1, <1>2, <1>3, <1>4, <1>5, <1>7, <1>8, <1>9 DEF WorkWhere, Apart, Mapped
<1> QED BY <1>1, <1>4, <1>7, <1>10, <1>11, <1>12 DEF WorkWhere

LEMMA WorkStutters ==
    ASSUME WorkIInv, UNCHANGED workVars
    PROVE  WorkIInv'
<1> USE DEF WorkIInv
<1>1. UNCHANGED <<started, request_map, work_req, work_resp, work_inflight, invoked>>
  BY DEF workVars
<1>2. \A r \in Segments : Apart(r)' = Apart(r) /\ Mapped(r)' = Mapped(r)
  BY <1>1 DEF Apart, Mapped, Sent, Finished, Runs
<1>3. BeforeStart' = BeforeStart
  BY <1>1 DEF BeforeStart, Runs
<1>4. WorkTyped' /\ WorkOnce'
  BY <1>1 DEF WorkTyped, WorkOnce
<1> QED BY <1>1, <1>2, <1>3, <1>4 DEF WorkWhere

(* The inductive invariant of the worker: a segment is with the worker in  *)
(* one place at most, and the map knows.                                   *)
THEOREM WorkInvariant == WorkSpec => []WorkIInv
<1>1. WorkIInv /\ [WorkNext]_workVars => WorkIInv'
  BY InvokeKeeps, ReceiveStartKeeps, ReceiveDoneKeeps, EvaluateKeeps, AsyncEndsKeeps, WorkStutters
     DEF WorkNext, WorkProgress
<1> QED BY WorkInitHolds, <1>1, PTL DEF WorkSpec

LEMMA CountOnce ==
    ASSUME NEW K, \A j, k \in K : j = k
    PROVE  Cardinality(K) = IF K = {} THEN 0 ELSE 1
<1>1. CASE K = {}
  BY <1>1, FS_EmptySet
<1>2. CASE K # {}
  <2>1. PICK k \in K : K = {k}
    BY <1>2
  <2> QED BY <1>2, <2>1, FS_Singleton
<1> QED BY <1>1, <1>2

LEMMA WorkIInvOne == WorkIInv => OneAtATime
<1> SUFFICES ASSUME WorkIInv, started, NEW s \in Segments
             PROVE  Cardinality({k \in 1..Len(work_req) : work_req[k][1] = s})
                    + Cardinality({k \in 1..Len(work_resp) : work_resp[k] = <<"d", s>>})
                    + (IF work_inflight[s] > 0 THEN 1 ELSE 0)
                    = IF request_map[s] = -1 THEN 0 ELSE 1
  BY DEF OneAtATime
<1> DEFINE A == {k \in 1..Len(work_req) : work_req[k][1] = s}
           B == {k \in 1..Len(work_resp) : work_resp[k] = <<"d", s>>}
<1>1. Cardinality(A) = IF Sent(s) THEN 1 ELSE 0
  <2>1. \A j, k \in A : j = k
    BY DEF WorkIInv, WorkOnce
  <2>2. Cardinality(A) = IF A = {} THEN 0 ELSE 1
    BY <2>1, CountOnce
  <2>3. A = {} <=> ~Sent(s)
    BY DEF Sent
  <2> QED BY <2>2, <2>3
<1>2. Cardinality(B) = IF Finished(s) THEN 1 ELSE 0
  <2>1. \A j, k \in B : j = k
    BY DEF WorkIInv, WorkOnce
  <2>2. Cardinality(B) = IF B = {} THEN 0 ELSE 1
    BY <2>1, CountOnce
  <2>3. B = {} <=> ~Finished(s)
    BY DEF Finished
  <2> QED BY <2>2, <2>3
<1>3. Apart(s) /\ Mapped(s)
  BY DEF WorkIInv, WorkWhere
<1> HIDE DEF A, B
<1>4. Cardinality(A) + Cardinality(B) + (IF work_inflight[s] > 0 THEN 1 ELSE 0)
      = IF request_map[s] = -1 THEN 0 ELSE 1
  BY <1>1, <1>2, <1>3 DEF Apart, Mapped, Runs
<1> QED BY <1>4 DEF A, B

(* There is never a second request of a segment with the worker, and the   *)
(* map of the shell has exactly the segments that have one, for any        *)
(* segments, requests and subprocesses.                                    *)
THEOREM AlwaysOneAtATime == WorkSpec => []OneAtATime
  BY WorkInvariant, WorkIInvOne, PTL

-----------------------------------------------------------------------------
\* The client.

Pieces == [id : Queries, end : BOOLEAN]
Even(n) == n % 2 = 0
Fates == {"unsent", "sent", "late", "lost", "returned", "called", "dropped", "wrong"}

\* What the shell has read of the answers and what is still in the pipe.
Stream == buf \o resp

ClientTyped ==
    /\ state \in {0, 2} /\ last \in 0..MaxQueries
    /\ busy \in 0..MaxQueries /\ req_id \in 0..MaxQueries
    /\ req \in Seq(Queries) /\ resp \in Seq(Pieces) /\ buf \in Seq(Pieces)
    /\ shell \in {"idle", "read", "rest", "answers"}
    /\ fate \in [Queries -> Fates]

\* The pieces come in pairs, of ascending queries, but for the beginning of the
\* answer the daemon is at; the shell reads up to the end of an answer.
Paired ==
    /\ \A k \in 1..Len(Stream) :
          /\ Even(k) => Stream[k] = Piece(Stream[k].id, TRUE)
          /\ ~Even(k) => Stream[k] = Piece(Stream[k].id, FALSE)
          /\ ~Even(k) /\ k < Len(Stream) => Stream[k + 1].id = Stream[k].id
    /\ \A j, k \in 1..Len(Stream) : j < k /\ Even(j) => Stream[j].id < Stream[k].id
    /\ begun <=> ~Even(Len(Stream))
    /\ shell \in {"idle", "read"} => buf = << >>
    /\ shell = "rest" => ~Even(Len(buf))
    /\ shell = "answers" => Even(Len(buf))

\* What the daemon is at comes behind them, and the requests behind that.
InOrder ==
    /\ \A k \in 1..Len(Stream) : Stream[k].id \in Waiting
    /\ busy # 0 => busy \in Waiting /\ \A k \in 1..Len(Stream) : Even(k) => Stream[k].id < busy
    /\ begun => busy # 0 /\ Stream[Len(Stream)].id = busy
    /\ \A i \in 1..Len(req) :
          /\ req[i] \in Waiting /\ busy < req[i]
          /\ \A k \in 1..Len(Stream) : Stream[k].id < req[i]
    /\ \A i, j \in 1..Len(req) : i < j => req[i] < req[j]
    /\ \A q \in Waiting : q <= last

\* An answer that is waited for will come, unless its daemon is gone.
Held ==
    /\ \A q \in Waiting :
          /\ state = 2
          /\ alive => \/ q = busy \/ \E i \in 1..Len(req) : req[i] = q
                      \/ \E k \in 1..Len(Stream) : Stream[k] = Piece(q, TRUE)
    /\ inflight = Cardinality(Waiting)
    /\ state = 0 => ~alive /\ busy = 0 /\ req = << >> /\ resp = << >> /\ buf = << >> /\ shell = "idle"

\* The query that reads is the last one, and all others have timed out.
OwnPending ==
    /\ fate[req_id] = "sent" /\ result \in {"none", "async"}
    /\ shell = "answers" /\ buf = << >> => result = "async"
OwnReturned == fate[req_id] = "returned" /\ result = "sync" /\ shell = "answers" /\ buf = << >>
Fated ==
    /\ \A q \in Queries : fate[q] # "wrong"
    /\ \A q \in Queries : fate[q] = "sent" => shell # "idle" /\ caller = "query" /\ q = req_id
    /\ shell # "idle" /\ caller = "query" => req_id \in Queries /\ req_id = last /\ (OwnPending \/ OwnReturned)
    /\ shell # "idle" /\ caller # "query" => req_id = 0

ClientIInv == ClientTyped /\ Paired /\ InOrder /\ Held /\ Fated

LEMMA EvenFacts ==
    /\ Even(0)
    /\ \A n \in Nat : (Even(n + 1) <=> ~Even(n)) /\ (Even(n + 2) <=> Even(n))
  BY Z3 DEF Even

LEMMA PieceFacts ==
    ASSUME NEW q \in Queries
    PROVE  /\ Piece(q, TRUE) \in Pieces /\ Piece(q, FALSE) \in Pieces
           /\ Piece(q, TRUE).id = q /\ Piece(q, FALSE).id = q
           /\ Piece(q, TRUE).end /\ ~Piece(q, FALSE).end
<1>1. Piece(q, TRUE) \in Pieces /\ Piece(q, FALSE) \in Pieces
  BY DEF Piece, Pieces
<1>2. Piece(q, TRUE).id = q /\ Piece(q, FALSE).id = q
  BY DEF Piece
<1>3. Piece(q, TRUE).end /\ ~Piece(q, FALSE).end
  BY Zenon DEF Piece
<1> QED BY <1>1, <1>2, <1>3

LEMMA QueriesFacts == MaxQueries \in Nat /\ \A q \in Queries : q \in Nat /\ q > 0 /\ q <= MaxQueries
  BY ClientAssumption DEF Queries

LEMMA StreamFacts ==
    ASSUME ClientTyped
    PROVE  /\ Stream \in Seq(Pieces) /\ Len(Stream) \in Nat
           /\ Len(buf) \in Nat /\ Len(resp) \in Nat /\ Len(Stream) = Len(buf) + Len(resp)
           /\ \A k \in 1..Len(buf) : Stream[k] = buf[k]
           /\ \A k \in 1..Len(resp) : Stream[Len(buf) + k] = resp[k]
           /\ \A k \in 1..Len(Stream) : Stream[k] \in Pieces /\ Stream[k].id \in Queries
<1>1. buf \in Seq(Pieces) /\ resp \in Seq(Pieces) /\ Len(buf) \in Nat /\ Len(resp) \in Nat
  BY LenProperties DEF ClientTyped
<1>2. /\ buf \o resp \in Seq(Pieces) /\ Len(buf \o resp) = Len(buf) + Len(resp)
      /\ \A k \in 1..(Len(buf) + Len(resp)) :
            (buf \o resp)[k] = IF k <= Len(buf) THEN buf[k] ELSE resp[k - Len(buf)]
  BY <1>1, ConcatProperties
<1>3. /\ Stream \in Seq(Pieces) /\ Len(Stream) = Len(buf) + Len(resp)
      /\ \A k \in 1..(Len(buf) + Len(resp)) :
            Stream[k] = IF k <= Len(buf) THEN buf[k] ELSE resp[k - Len(buf)]
  BY <1>2 DEF Stream
<1>4. \A k \in 1..Len(Stream) : Stream[k] \in Pieces
  BY <1>3, ElementOfSeq
<1>5. \A p \in Pieces : p.id \in Queries
  BY DEF Pieces
<1>6. \A k \in 1..Len(buf) : Stream[k] = buf[k]
  BY <1>1, <1>3
<1>7. \A k \in 1..Len(resp) : Stream[Len(buf) + k] = resp[k]
  <2> SUFFICES ASSUME NEW k \in 1..Len(resp) PROVE Stream[Len(buf) + k] = resp[k]
    OBVIOUS
  <2>1. Len(buf) + k \in 1..(Len(buf) + Len(resp)) /\ ~(Len(buf) + k <= Len(buf))
        /\ (Len(buf) + k) - Len(buf) = k
    BY <1>1
  <2> QED BY <1>3, <2>1
<1> QED BY <1>1, <1>3, <1>4, <1>5, <1>6, <1>7

LEMMA WaitingFacts ==
    /\ Waiting \subseteq Queries /\ IsFiniteSet(Waiting)
    /\ \A q \in Queries : q \in Waiting <=> fate[q] \in {"sent", "late"}
<1>1. Waiting \subseteq Queries /\ \A q \in Queries : q \in Waiting <=> fate[q] \in {"sent", "late"}
  BY DEF Waiting
<1>2. IsFiniteSet(Queries)
  BY ClientAssumption, FS_Interval DEF Queries
<1>3. IsFiniteSet(Waiting)
  BY <1>1, <1>2, FS_Subset
<1> QED BY <1>1, <1>3

LEMMA ClientInitHolds == ClientInit => ClientIInv
<1> SUFFICES ASSUME ClientInit PROVE ClientIInv
  OBVIOUS
<1>1. /\ state = 0 /\ inflight = 0 /\ req = << >> /\ resp = << >> /\ busy = 0
      /\ shell = "idle" /\ caller = "query" /\ req_id = 0 /\ buf = << >> /\ last = 0
      /\ fate = [q \in Queries |-> "unsent"]
  BY DEF ClientInit
<1>2. ~begun /\ ~alive
  BY Zenon DEF ClientInit
<1>3. ClientTyped
  BY <1>1, QueriesFacts, EmptySeq DEF ClientTyped, Fates
<1>4. Len(Stream) = 0 /\ Len(req) = 0
  BY <1>1, <1>3, StreamFacts, EmptySeq
<1>5. Waiting = {}
  BY <1>1 DEF Waiting
<1>6. Paired
  BY <1>1, <1>2, <1>4, EvenFacts DEF Paired
<1>7. InOrder
  BY <1>1, <1>2, <1>4, <1>5 DEF InOrder
<1>8. Held
  BY <1>1, <1>2, <1>5, FS_EmptySet DEF Held
<1>9. Fated
  BY <1>1 DEF Fated
<1> QED BY <1>3, <1>6, <1>7, <1>8, <1>9 DEF ClientIInv

\* A step that leaves the answers and the requests where they are.
LEMMA PipesStay ==
    ASSUME ClientIInv, UNCHANGED <<state, inflight, req, resp, busy, begun, last, buf>>,
           Waiting' = Waiting, alive' => alive, state = 0 => shell' = "idle",
           shell' = shell \/ (buf = << >> /\ shell' \in {"idle", "read"})
    PROVE  Paired' /\ InOrder' /\ Held'
<1> USE DEF ClientIInv
<1>1. Stream' = Stream
  BY DEF Stream
<1>2. Paired'
  BY <1>1 DEF Paired
<1>3. InOrder'
  BY <1>1 DEF InOrder
<1>4. Held'
  BY <1>1 DEF Held
<1> QED BY <1>2, <1>3, <1>4

\* A step of the daemon changes nothing of what the shell knows.
LEMMA ShellStays ==
    ASSUME ClientIInv, UNCHANGED <<shell, caller, req_id, buf, result, last, fate>>
    PROVE  Fated' /\ Waiting' = Waiting
<1>1. OwnPending' = OwnPending /\ OwnReturned' = OwnReturned
  BY DEF OwnPending, OwnReturned
<1>2. Fated'
  BY <1>1 DEF ClientIInv, Fated
<1>3. Waiting' = Waiting
  BY DEF Waiting
<1> QED BY <1>2, <1>3

LEMMA TakeRequestKeeps ==
    ASSUME ClientIInv, TakeRequest
    PROVE  ClientIInv'
<1> USE DEF ClientIInv
<1>1. /\ busy = 0 /\ req # << >> /\ busy' = Head(req) /\ req' = Tail(req)
      /\ UNCHANGED <<state, inflight, resp, alive, begun, shell, caller, req_id, buf, result, last, fate>>
  BY DEF TakeRequest, call
<1>2. Fated' /\ Waiting' = Waiting
  BY <1>1, ShellStays
<1>3. Stream' = Stream
  BY <1>1 DEF Stream
<1>4. /\ req' \in Seq(Queries) /\ Len(req) \in Nat \ {0} /\ Len(req') = Len(req) - 1
      /\ busy' = req[1] /\ busy' \in Queries /\ \A i \in 1..Len(req') : req'[i] = req[i + 1]
  BY <1>1, HeadTailProperties, EmptySeq, LenProperties DEF ClientTyped
<1>5. 1 \in 1..Len(req) /\ \A i \in 1..Len(req') : i + 1 \in 1..Len(req)
  BY <1>4
<1>6. ClientTyped'
  BY <1>1, <1>4, QueriesFacts DEF ClientTyped
<1>7. Paired'
  BY <1>1, <1>3 DEF Paired
<1>8. ~begun'
  BY <1>1 DEF InOrder
<1>9. InOrder'
  <2>1. busy' \in Waiting /\ \A k \in 1..Len(Stream) : Stream[k].id < busy'
    BY <1>4, <1>5 DEF InOrder
  <2>2. ASSUME NEW i \in 1..Len(req')
        PROVE  /\ req'[i] \in Waiting /\ busy' < req'[i]
               /\ \A k \in 1..Len(Stream) : Stream[k].id < req'[i]
    <3>1. req'[i] = req[i + 1] /\ i + 1 \in 1..Len(req) /\ 1 < i + 1
      BY <1>4, <1>5
    <3> QED BY <1>4, <1>5, <3>1 DEF InOrder
  <2>3. ASSUME NEW i \in 1..Len(req'), NEW j \in 1..Len(req'), i < j
        PROVE  req'[i] < req'[j]
    <3>1. /\ req'[i] = req[i + 1] /\ i + 1 \in 1..Len(req)
          /\ req'[j] = req[j + 1] /\ j + 1 \in 1..Len(req) /\ i + 1 < j + 1
      BY <1>4, <1>5, <2>3
    <3> QED BY <3>1 DEF InOrder
  <2>4. \A q \in Waiting : q <= last
    BY DEF InOrder
  <2> QED BY <1>1, <1>2, <1>3, <1>8, <2>1, <2>2, <2>3, <2>4 DEF InOrder
<1>10. Held'
  <2>1. ASSUME NEW q \in Waiting, alive
        PROVE  \/ q = busy' \/ \E i \in 1..Len(req') : req'[i] = q
               \/ \E k \in 1..Len(Stream) : Stream[k] = Piece(q, TRUE)
    <3>1. CASE \E k \in 1..Len(Stream) : Stream[k] = Piece(q, TRUE)
      BY <3>1
    <3>2. CASE q = busy
      BY <1>1, <3>2, WaitingFacts, QueriesFacts
    <3>3. ASSUME NEW i \in 1..Len(req), req[i] = q
          PROVE  q = busy' \/ \E j \in 1..Len(req') : req'[j] = q
      <4>1. CASE i = 1
        BY <1>4, <3>3, <4>1
      <4>2. CASE i # 1
        <5>1. i - 1 \in 1..Len(req') /\ (i - 1) + 1 = i
          BY <1>4, <4>2
        <5>2. req'[i - 1] = q
          BY <1>4, <3>3, <5>1
        <5> QED BY <5>1, <5>2
      <4> QED BY <4>1, <4>2
    <3> QED BY <2>1, <3>1, <3>2, <3>3 DEF Held
  <2>2. state # 0
    BY <1>1 DEF Held
  <2> QED BY <1>1, <1>2, <1>3, <2>1, <2>2 DEF Held
<1> QED BY <1>2, <1>6, <1>7, <1>9, <1>10

\* A piece is added to the stream.
LEMMA Grown ==
    ASSUME ClientTyped, NEW p \in Pieces, resp' = Append(resp, p), buf' = buf
    PROVE  /\ resp' \in Seq(Pieces) /\ Len(Stream) \in Nat /\ Len(Stream') = Len(Stream) + 1
           /\ \A k \in 1..Len(Stream) : Stream'[k] = Stream[k]
           /\ Stream'[Len(Stream) + 1] = p
           /\ \A k \in 1..Len(Stream') : k \in 1..Len(Stream) \/ k = Len(Stream) + 1
<1>1. /\ resp' \in Seq(Pieces) /\ Len(resp') = Len(resp) + 1
      /\ \A k \in 1..Len(resp) : resp'[k] = resp[k]
      /\ resp'[Len(resp) + 1] = p
  BY AppendProperties DEF ClientTyped
<1>2. /\ Len(Stream) \in Nat /\ Len(buf) \in Nat /\ Len(resp) \in Nat /\ Len(Stream) = Len(buf) + Len(resp)
      /\ Stream \in Seq(Pieces)
  BY StreamFacts
<1>3. Stream' = Append(Stream, p)
  <2>1. Append(resp, p) = resp \o <<p>>
    BY AppendIsConcat DEF ClientTyped
  <2>2. Append(Stream, p) = Stream \o <<p>>
    BY <1>2, AppendIsConcat
  <2>3. (buf \o resp) \o <<p>> = buf \o (resp \o <<p>>)
    <3>1. <<p>> \in Seq(Pieces) /\ buf \in Seq(Pieces) /\ resp \in Seq(Pieces)
      BY DEF ClientTyped
    <3> QED BY <3>1, ConcatAssociative
  <2>4. Stream' = buf \o Append(resp, p)
    BY DEF Stream
  <2> QED BY <2>1, <2>2, <2>3, <2>4 DEF Stream
<1>4. /\ Len(Append(Stream, p)) = Len(Stream) + 1
      /\ \A k \in 1..Len(Stream) : Append(Stream, p)[k] = Stream[k]
      /\ Append(Stream, p)[Len(Stream) + 1] = p
  BY <1>2, AppendProperties
<1>5. Len(Stream') = Len(Stream) + 1
  BY <1>3, <1>4
<1> QED BY <1>1, <1>2, <1>3, <1>4, <1>5

LEMMA WriteBeginKeeps ==
    ASSUME ClientIInv, WriteBegin
    PROVE  ClientIInv'
<1> USE DEF ClientIInv
<1> DEFINE L == Len(Stream)
           p == Piece(busy, FALSE)
<1>1. /\ alive /\ busy # 0 /\ ~begun /\ resp' = Append(resp, p)
      /\ UNCHANGED <<state, inflight, req, alive, busy, shell, caller, req_id, buf, result, last, fate>>
  BY DEF WriteBegin, call
<1>2. begun'
  BY Zenon DEF WriteBegin
<1>3. Fated' /\ Waiting' = Waiting
  BY <1>1, ShellStays
<1>4. busy \in Queries /\ busy \in Waiting
  BY <1>1, WaitingFacts DEF InOrder
<1>5. p \in Pieces /\ p.id = busy
  BY <1>4, PieceFacts
<1> HIDE DEF p
<1>6. /\ resp' \in Seq(Pieces) /\ L \in Nat /\ Len(Stream') = L + 1
      /\ \A k \in 1..L : Stream'[k] = Stream[k]
      /\ Stream'[L + 1] = p
      /\ \A k \in 1..(L + 1) : k \in 1..L \/ k = L + 1
  BY <1>1, <1>5, Grown
<1>7. Even(L) /\ ~Even(L + 1)
  BY <1>1, <1>6, EvenFacts DEF Paired
<1> HIDE DEF L
<1>8. ClientTyped'
  BY <1>1, <1>6 DEF ClientTyped
<1>9. Paired'
  <2>1. ASSUME NEW k \in 1..(L + 1)
        PROVE  /\ Even(k) => Stream'[k] = Piece(Stream'[k].id, TRUE)
               /\ ~Even(k) => Stream'[k] = Piece(Stream'[k].id, FALSE)
               /\ ~Even(k) /\ k < L + 1 => Stream'[k + 1].id = Stream'[k].id
    <3>1. CASE k \in 1..L
      <4>1. /\ Even(k) => Stream'[k] = Piece(Stream'[k].id, TRUE)
            /\ ~Even(k) => Stream'[k] = Piece(Stream'[k].id, FALSE)
        BY <1>6, <3>1 DEF Paired, L
      <4>2. ASSUME ~Even(k) PROVE Stream'[k + 1].id = Stream'[k].id
        <5>1. k < L /\ k + 1 \in 1..L
          BY <1>6, <1>7, <3>1, <4>2
        <5> QED BY <1>6, <3>1, <4>2, <5>1 DEF Paired, L
      <4> QED BY <4>1, <4>2
    <3>2. CASE k = L + 1
      <4>1. Stream'[k].id = busy /\ Stream'[k] = Piece(busy, FALSE)
        BY <1>5, <1>6, <3>2 DEF p
      <4>2. ~Even(k) /\ ~(k < L + 1)
        BY <1>6, <1>7, <3>2
      <4> QED BY <4>1, <4>2
    <3> QED BY <1>6, <3>1, <3>2
  <2>2. ASSUME NEW j \in 1..(L + 1), NEW k \in 1..(L + 1), j < k, Even(j)
        PROVE  Stream'[j].id < Stream'[k].id
    <3>1. j \in 1..L /\ Stream'[j] = Stream[j]
      BY <1>6, <2>2
    <3>2. CASE k \in 1..L
      BY <1>6, <2>2, <3>1, <3>2 DEF Paired, L
    <3>3. CASE k = L + 1
      BY <1>1, <1>5, <1>6, <2>2, <3>1, <3>3 DEF InOrder, L
    <3> QED BY <1>6, <3>2, <3>3
  <2> QED BY <1>1, <1>2, <1>6, <1>7, <2>1, <2>2 DEF Paired
<1>10. InOrder'
  <2>1. \A k \in 1..(L + 1) : Stream'[k].id \in Waiting
    BY <1>4, <1>5, <1>6 DEF InOrder, L
  <2>2. \A k \in 1..(L + 1) : Even(k) => Stream'[k].id < busy
    BY <1>1, <1>6, <1>7 DEF InOrder, L
  <2>3. Stream'[L + 1].id = busy
    BY <1>5, <1>6
  <2>4. ASSUME NEW i \in 1..Len(req)
        PROVE  \A k \in 1..(L + 1) : Stream'[k].id < req[i]
    BY <1>6, <2>3 DEF InOrder, L
  <2> QED BY <1>1, <1>3, <1>4, <1>6, <2>1, <2>2, <2>3, <2>4 DEF InOrder
<1>11. Held'
  <2>1. ASSUME NEW e, NEW k \in 1..L, Stream[k] = e
        PROVE  \E j \in 1..(L + 1) : Stream'[j] = e
    <3>1. k \in 1..(L + 1) /\ Stream'[k] = e
      BY <1>6, <2>1
    <3> QED BY <3>1
  <2>2. state # 0
    BY <1>1 DEF Held
  <2>3. \A q \in Waiting : state = 2 /\ (alive =>
           \/ q = busy \/ \E i \in 1..Len(req) : req[i] = q
           \/ \E k \in 1..(L + 1) : Stream'[k] = Piece(q, TRUE))
    BY <2>1 DEF Held, L
  <2> QED BY <1>1, <1>3, <1>6, <2>2, <2>3 DEF Held
<1> QED BY <1>3, <1>8, <1>9, <1>10, <1>11

LEMMA WriteEndKeeps ==
    ASSUME ClientIInv, WriteEnd
    PROVE  ClientIInv'
<1> USE DEF ClientIInv
<1> DEFINE L == Len(Stream)
           p == Piece(busy, TRUE)
<1>1. /\ alive /\ begun /\ resp' = Append(resp, p) /\ busy' = 0
      /\ UNCHANGED <<state, inflight, req, alive, shell, caller, req_id, buf, result, last, fate>>
  BY DEF WriteEnd, call
<1>2. ~begun'
  BY Zenon DEF WriteEnd
<1>3. Fated' /\ Waiting' = Waiting
  BY <1>1, ShellStays
<1>4. busy # 0 /\ busy \in Queries /\ busy \in Waiting
  BY <1>1, WaitingFacts DEF InOrder
<1>5. p \in Pieces /\ p.id = busy
  BY <1>4, PieceFacts
<1> HIDE DEF p
<1>6. /\ resp' \in Seq(Pieces) /\ L \in Nat /\ Len(Stream') = L + 1
      /\ \A k \in 1..L : Stream'[k] = Stream[k]
      /\ Stream'[L + 1] = p
      /\ \A k \in 1..(L + 1) : k \in 1..L \/ k = L + 1
  BY <1>1, <1>5, Grown
<1>7. ~Even(L) /\ Even(L + 1)
  BY <1>1, <1>6, EvenFacts DEF Paired
<1>8. Stream[L].id = busy
  BY <1>1 DEF InOrder
<1> HIDE DEF L
<1>9. ClientTyped'
  BY <1>1, <1>6, QueriesFacts DEF ClientTyped
<1>10. Paired'
  <2>1. ASSUME NEW k \in 1..(L + 1)
        PROVE  /\ Even(k) => Stream'[k] = Piece(Stream'[k].id, TRUE)
               /\ ~Even(k) => Stream'[k] = Piece(Stream'[k].id, FALSE)
               /\ ~Even(k) /\ k < L + 1 => Stream'[k + 1].id = Stream'[k].id
    <3>1. CASE k \in 1..L
      <4>1. /\ Even(k) => Stream'[k] = Piece(Stream'[k].id, TRUE)
            /\ ~Even(k) => Stream'[k] = Piece(Stream'[k].id, FALSE)
        BY <1>6, <3>1 DEF Paired, L
      <4>2. ASSUME ~Even(k) PROVE Stream'[k + 1].id = Stream'[k].id
        <5>1. CASE k = L
          BY <1>5, <1>6, <1>8, <3>1, <5>1
        <5>2. CASE k # L
          <6>1. k < L /\ k + 1 \in 1..L
            BY <1>6, <3>1, <5>2
          <6> QED BY <1>6, <3>1, <4>2, <6>1 DEF Paired, L
        <5> QED BY <5>1, <5>2
      <4> QED BY <4>1, <4>2
    <3>2. CASE k = L + 1
      <4>1. Stream'[k].id = busy /\ Stream'[k] = Piece(busy, TRUE)
        BY <1>5, <1>6, <3>2 DEF p
      <4>2. Even(k) /\ ~(k < L + 1)
        BY <1>6, <1>7, <3>2
      <4> QED BY <4>1, <4>2
    <3> QED BY <1>6, <3>1, <3>2
  <2>2. ASSUME NEW j \in 1..(L + 1), NEW k \in 1..(L + 1), j < k, Even(j)
        PROVE  Stream'[j].id < Stream'[k].id
    <3>1. j \in 1..L /\ Stream'[j] = Stream[j]
      BY <1>6, <2>2
    <3>2. CASE k \in 1..L
      BY <1>6, <2>2, <3>1, <3>2 DEF Paired, L
    <3>3. CASE k = L + 1
      BY <1>4, <1>5, <1>6, <2>2, <3>1, <3>3 DEF InOrder, L
    <3> QED BY <1>6, <3>2, <3>3
  <2> QED BY <1>1, <1>2, <1>6, <1>7, <2>1, <2>2 DEF Paired
<1>11. InOrder'
  <2>1. \A k \in 1..(L + 1) : Stream'[k].id \in Waiting
    BY <1>4, <1>5, <1>6 DEF InOrder, L
  <2>2. ASSUME NEW i \in 1..Len(req)
        PROVE  req[i] \in Waiting /\ 0 < req[i] /\ \A k \in 1..(L + 1) : Stream'[k].id < req[i]
    <3>1. req[i] \in Waiting /\ busy < req[i] /\ \A k \in 1..L : Stream[k].id < req[i]
      BY DEF InOrder, L
    <3>2. 0 < req[i]
      BY <3>1, WaitingFacts, QueriesFacts
    <3> QED BY <1>5, <1>6, <3>1, <3>2
  <2>3. /\ \A i, j \in 1..Len(req) : i < j => req[i] < req[j]
        /\ \A q \in Waiting : q <= last
    BY DEF InOrder
  <2> QED BY <1>1, <1>2, <1>3, <1>6, <2>1, <2>2, <2>3 DEF InOrder
<1>12. Held'
  <2>1. ASSUME NEW e, NEW k \in 1..L, Stream[k] = e
        PROVE  \E j \in 1..(L + 1) : Stream'[j] = e
    <3>1. k \in 1..(L + 1) /\ Stream'[k] = e
      BY <1>6, <2>1
    <3> QED BY <3>1
  <2>2. L + 1 \in 1..(L + 1) /\ Stream'[L + 1] = Piece(busy, TRUE)
    BY <1>6 DEF p
  <2>3. state # 0
    BY <1>1 DEF Held
  <2>4. \A q \in Waiting : state = 2 /\ (alive =>
           \/ \E i \in 1..Len(req) : req[i] = q
           \/ \E k \in 1..(L + 1) : Stream'[k] = Piece(q, TRUE))
    BY <2>1, <2>2 DEF Held, L
  <2> QED BY <1>1, <1>3, <1>6, <2>3, <2>4 DEF Held
<1> QED BY <1>3, <1>9, <1>10, <1>11, <1>12

LEMMA KillKeeps ==
    ASSUME ClientIInv, Kill
    PROVE  ClientIInv'
<1>1. UNCHANGED <<state, inflight, req, resp, busy, begun, shell, caller, req_id, buf, result, last, fate>>
  BY DEF Kill, call
<1>2. ~alive'
  BY Zenon DEF Kill
<1>3. Fated' /\ Waiting' = Waiting
  BY <1>1, ShellStays
<1>4. state = 0 => shell' = "idle"
  BY <1>1 DEF ClientIInv, Held
<1>5. Paired' /\ InOrder' /\ Held'
  BY <1>1, <1>2, <1>3, <1>4, PipesStay
<1>6. ClientTyped'
  BY <1>1 DEF ClientIInv, ClientTyped
<1> QED BY <1>3, <1>5, <1>6 DEF ClientIInv

LEMMA StartKeeps ==
    ASSUME ClientIInv, gitstatus_start
    PROVE  ClientIInv'
<1> USE DEF ClientIInv
<1>1. /\ shell = "idle" /\ state = 0 /\ state' = 2
      /\ UNCHANGED <<inflight, req, resp, busy, begun, shell, caller, req_id, buf, result, last, fate>>
  BY DEF gitstatus_start, call
<1>2. Fated' /\ Waiting' = Waiting
  BY <1>1, ShellStays
<1>3. Waiting = {}
  BY <1>1 DEF Held
<1>4. Stream' = Stream
  BY <1>1 DEF Stream
<1>5. ClientTyped' /\ Paired' /\ InOrder'
  BY <1>1, <1>2, <1>4 DEF ClientTyped, Paired, InOrder
<1>6. Held'
  BY <1>1, <1>2, <1>3 DEF Held
<1> QED BY <1>2, <1>5, <1>6

\* The end of a daemon, for whatever reason.
LEMMA StopKeeps ==
    ASSUME ClientIInv, gitstatus_stop
    PROVE  ClientIInv'
<1> USE DEF ClientIInv
<1>1. /\ state' = 0 /\ inflight' = 0 /\ req' = << >> /\ resp' = << >> /\ busy' = 0
      /\ shell' = "idle" /\ buf' = << >>
      /\ fate' = [q \in Queries |-> IF q \in Waiting THEN "lost" ELSE fate[q]]
      /\ UNCHANGED <<req_id, last>>
  BY DEF gitstatus_stop, call
<1>2. ~begun' /\ ~alive'
  BY Zenon DEF gitstatus_stop
<1>3. \A q \in Queries : fate[q] \in Fates /\ fate'[q] \in Fates /\ fate'[q] \notin {"sent", "late", "wrong"}
  BY <1>1, WaitingFacts DEF ClientTyped, Fated, Fates
<1>4. ClientTyped'
  BY <1>1, <1>3, QueriesFacts, EmptySeq DEF ClientTyped
<1>5. Len(Stream') = 0 /\ Len(req') = 0
  <2>1. Stream' = << >> \o << >>
    BY <1>1 DEF Stream
  <2> QED BY <1>1, <2>1, EmptySeq
<1>6. Waiting' = {}
  BY <1>3 DEF Waiting, Queries
<1>7. Paired'
  BY <1>1, <1>2, <1>5, EvenFacts DEF Paired
<1>8. InOrder'
  BY <1>1, <1>2, <1>5, <1>6 DEF InOrder
<1>9. Held'
  BY <1>1, <1>2, <1>6, FS_EmptySet DEF Held
<1>10. Fated'
  <2>1. shell' = "idle" /\ \A q \in Queries : fate'[q] # "sent" /\ fate'[q] # "wrong"
    BY <1>1, <1>3
  <2>2. Queries' = Queries
    BY DEF Queries
  <2> QED BY <2>1, <2>2 DEF Fated
<1> QED BY <1>4, <1>7, <1>8, <1>9, <1>10

LEMMA QueryKeeps ==
    ASSUME ClientIInv, NEW callback \in BOOLEAN, NEW timeout \in {"zero", "finite", "infinite"},
           gitstatus_query(callback, timeout)
    PROVE  ClientIInv'
<1> USE DEF ClientIInv
<1> DEFINE n == last + 1
           new == IF timeout = "zero" THEN "late" ELSE "sent"
<1>1. /\ shell = "idle" /\ state = 2 /\ last < MaxQueries /\ last' = n
      /\ req' = Append(req, n) /\ inflight' = inflight + 1
      /\ fate' = [fate EXCEPT ![n] = new]
      /\ UNCHANGED <<state, resp, alive, busy, begun, buf>>
  BY DEF gitstatus_query, daemon
<1>2. \/ timeout = "zero" /\ shell' = "idle" /\ req_id' = req_id
      \/ timeout # "zero" /\ shell' = "read" /\ caller' = "query" /\ req_id' = n /\ result' = "none"
  BY <1>1 DEF gitstatus_query, ProcessResponse, call
<1>3. n \in Queries /\ n \in 0..MaxQueries /\ new \in {"late", "sent"}
  BY <1>1, ClientAssumption DEF ClientTyped, Queries
<1>4. /\ fate' \in [Queries -> Fates] /\ fate'[n] = new
      /\ \A q \in Queries : q # n => fate'[q] = fate[q]
  BY <1>1, <1>3 DEF ClientTyped, Fates
<1>5. \A q \in Waiting : q < n /\ q # n
  BY <1>3, WaitingFacts, QueriesFacts DEF InOrder, ClientTyped
<1> HIDE DEF n, new
<1>6. n \notin Waiting /\ Waiting' = Waiting \cup {n}
  <2>1. Queries' = Queries
    BY DEF Queries
  <2> QED BY <1>3, <1>4, <1>5, <2>1 DEF Waiting
<1>7. Stream' = Stream
  BY <1>1 DEF Stream
<1>8. /\ req' \in Seq(Queries) /\ Len(req) \in Nat /\ Len(req') = Len(req) + 1
      /\ \A i \in 1..Len(req) : req'[i] = req[i]
      /\ req'[Len(req) + 1] = n
  BY <1>1, <1>3, AppendProperties, LenProperties DEF ClientTyped
<1>9. \A i \in 1..Len(req') : i \in 1..Len(req) \/ i = Len(req) + 1
  BY <1>8
<1>10. ClientTyped'
  BY <1>1, <1>2, <1>3, <1>4, <1>8 DEF ClientTyped
<1>11. Paired'
  BY <1>1, <1>2, <1>7 DEF Paired
<1>12. busy < n /\ \A k \in 1..Len(Stream) : Stream[k].id < n
  <2>1. busy < n
    <3>1. CASE busy = 0
      BY <1>3, <3>1, QueriesFacts
    <3>2. CASE busy # 0
      BY <1>5, <3>2 DEF InOrder
    <3> QED BY <3>1, <3>2
  <2> QED BY <1>5, <2>1 DEF InOrder
<1>13. InOrder'
  <2>1. ASSUME NEW i \in 1..Len(req')
        PROVE  /\ req'[i] \in Waiting' /\ busy < req'[i]
               /\ \A k \in 1..Len(Stream) : Stream[k].id < req'[i]
    <3>1. CASE i \in 1..Len(req)
      BY <1>6, <1>8, <3>1 DEF InOrder
    <3>2. CASE i = Len(req) + 1
      BY <1>6, <1>8, <1>12, <3>2
    <3> QED BY <1>9, <3>1, <3>2
  <2>2. ASSUME NEW i \in 1..Len(req'), NEW j \in 1..Len(req'), i < j
        PROVE  req'[i] < req'[j]
    <3>1. i \in 1..Len(req) /\ req'[i] = req[i]
      BY <1>8, <2>2
    <3>2. CASE j \in 1..Len(req)
      BY <1>8, <2>2, <3>1, <3>2 DEF InOrder
    <3>3. CASE j = Len(req) + 1
      BY <1>5, <1>8, <3>1, <3>3 DEF InOrder
    <3> QED BY <1>9, <3>2, <3>3
  <2>3. \A k \in 1..Len(Stream) : Stream[k].id \in Waiting'
    BY <1>6 DEF InOrder
  <2>4. \A q \in Waiting' : q <= last'
    BY <1>1, <1>3, <1>5, <1>6, WaitingFacts, QueriesFacts
  <2>5. /\ busy # 0 => busy \in Waiting' /\ \A k \in 1..Len(Stream) : Even(k) => Stream[k].id < busy
        /\ begun => busy # 0 /\ Stream[Len(Stream)].id = busy
    BY <1>6 DEF InOrder
  <2> QED BY <1>1, <1>7, <2>1, <2>2, <2>3, <2>4, <2>5 DEF InOrder
<1>14. Held'
  <2>1. Cardinality(Waiting') = Cardinality(Waiting) + 1
    BY <1>6, WaitingFacts, FS_AddElement
  <2>2. Len(req) + 1 \in 1..Len(req')
    BY <1>8
  <2>3. ASSUME NEW q \in Waiting', alive
        PROVE  \/ q = busy \/ \E i \in 1..Len(req') : req'[i] = q
               \/ \E k \in 1..Len(Stream) : Stream[k] = Piece(q, TRUE)
    <3>1. CASE q = n
      BY <1>8, <2>2, <3>1
    <3>2. CASE q \in Waiting
      <4>1. ASSUME NEW i \in 1..Len(req), req[i] = q
            PROVE  \E j \in 1..Len(req') : req'[j] = q
        <5>1. i \in 1..Len(req') /\ req'[i] = q
          BY <1>8, <4>1
        <5> QED BY <5>1
      <4> QED BY <2>3, <3>2, <4>1 DEF Held
    <3> QED BY <1>6, <3>1, <3>2
  <2>4. inflight' = Cardinality(Waiting')
    BY <1>1, <2>1 DEF Held
  <2>5. \A q \in Waiting' : state' = 2
    BY <1>1
  <2>6. state' # 0
    BY <1>1
  <2> QED BY <1>1, <1>7, <2>3, <2>4, <2>5, <2>6 DEF Held
<1>15. Fated'
  <2>1. Queries' = Queries
    BY DEF Queries
  <2>2. \A q \in Queries : q # n => fate'[q] # "wrong" /\ fate'[q] # "sent"
    BY <1>1, <1>4 DEF Fated
  <2>3. CASE timeout = "zero"
    <3>1. fate'[n] = "late" /\ shell' = "idle"
      BY <1>2, <1>4, <2>3 DEF new
    <3> QED BY <2>1, <2>2, <3>1 DEF Fated
  <2>4. CASE timeout # "zero"
    <3>1. /\ fate'[n] = "sent" /\ shell' = "read" /\ caller' = "query" /\ req_id' = n
          /\ result' = "none" /\ last' = n
      BY <1>1, <1>2, <1>4, <2>4 DEF new
    <3>2. OwnPending'
      BY <3>1 DEF OwnPending
    <3> QED BY <1>3, <2>1, <2>2, <3>1, <3>2 DEF Fated
  <2> QED BY <2>3, <2>4
<1> QED BY <1>10, <1>11, <1>13, <1>14, <1>15

\* gitstatus_process_results, and zle when there is something to read.
LEMMA ReadKeeps ==
    ASSUME ClientIInv, shell = "idle", state = 2, NEW who \in {"results", "zle"}, NEW timed,
           ProcessResponse(who, 0, timed),
           UNCHANGED <<state, inflight, req, resp, alive, busy, begun, buf, result, last, fate>>
    PROVE  ClientIInv'
<1> USE DEF ClientIInv
<1>1. shell' = "read" /\ caller' # "query" /\ req_id' = 0
  BY DEF ProcessResponse
<1>2. Waiting' = Waiting
  BY DEF Waiting
<1>3. buf = << >>
  BY DEF Paired
<1>4. Paired' /\ InOrder' /\ Held'
  BY <1>1, <1>2, <1>3, PipesStay
<1>5. ClientTyped'
  BY <1>1, QueriesFacts DEF ClientTyped
<1>6. Fated'
  BY <1>1 DEF Fated
<1> QED BY <1>4, <1>5, <1>6

LEMMA TimeoutKeeps ==
    ASSUME ClientIInv, Timeout
    PROVE  ClientIInv'
<1> USE DEF ClientIInv
<1>1. /\ shell = "read" /\ shell' \in {"read", "idle"}
      /\ caller # "results" => shell' = "idle"
      /\ UNCHANGED <<state, inflight, req, resp, alive, busy, begun, caller, req_id, buf, last>>
  BY DEF Timeout, ReadsOn, daemon, call
<1>2. buf = << >> /\ state # 0
  BY <1>1 DEF Paired, Held
<1>3. \/ req_id # 0 /\ fate' = [fate EXCEPT ![req_id] = "late"]
      \/ req_id = 0 /\ fate' = fate
  BY DEF Timeout
<1>4. CASE req_id # 0
  <2>1. caller = "query" /\ shell' = "idle" /\ req_id \in Queries /\ fate[req_id] = "sent"
    BY <1>1, <1>4 DEF Fated, OwnPending, OwnReturned
  <2>2. /\ fate' \in [Queries -> Fates] /\ fate'[req_id] = "late"
        /\ \A q \in Queries : q # req_id => fate'[q] = fate[q]
    BY <1>3, <1>4, <2>1 DEF ClientTyped, Fates
  <2>3. Waiting' = Waiting
    <3>1. Queries' = Queries
      BY DEF Queries
    <3> QED BY <2>1, <2>2, <3>1 DEF Waiting
  <2>4. Paired' /\ InOrder' /\ Held'
    BY <1>1, <1>2, <2>3, PipesStay
  <2>5. ClientTyped'
    BY <1>1, <2>2 DEF ClientTyped
  <2>6. Fated'
    <3>1. \A q \in Queries : fate'[q] # "wrong" /\ fate'[q] # "sent"
      BY <2>2 DEF Fated
    <3>2. Queries' = Queries
      BY DEF Queries
    <3> QED BY <1>1, <3>1, <3>2 DEF Fated
  <2> QED BY <2>4, <2>5, <2>6
<1>5. CASE req_id = 0
  <2>1. fate' = fate /\ Waiting' = Waiting
    BY <1>3, <1>5 DEF Waiting
  <2>2. Paired' /\ InOrder' /\ Held'
    BY <1>1, <1>2, <2>1, PipesStay
  <2>3. ClientTyped'
    BY <1>1, <2>1 DEF ClientTyped
  <2>4. \A q \in Queries : fate[q] # "sent"
    BY <1>5, QueriesFacts DEF Fated
  <2>5. Fated'
    <3>1. Queries' = Queries
      BY DEF Queries
    <3> QED BY <1>1, <2>1, <2>4, <3>1 DEF Fated
  <2> QED BY <2>2, <2>3, <2>5
<1> QED BY <1>4, <1>5

LEMMA ProcessedKeeps ==
    ASSUME ClientIInv, Processed
    PROVE  ClientIInv'
<1> USE DEF ClientIInv
<1>1. /\ shell = "answers" /\ buf = << >> /\ shell' \in {"read", "idle"}
      /\ caller = "query" /\ result = "async" => shell' = "read"
      /\ UNCHANGED <<state, inflight, req, resp, alive, busy, begun, caller, req_id, buf, result, last, fate>>
  BY DEF Processed, ReadsOn, daemon, call
<1>2. Waiting' = Waiting
  BY <1>1 DEF Waiting
<1>3. state # 0
  BY <1>1 DEF Held
<1>4. Paired' /\ InOrder' /\ Held'
  BY <1>1, <1>2, <1>3, PipesStay
<1>5. ClientTyped'
  BY <1>1 DEF ClientTyped
<1>6. Fated'
  <2>1. CASE caller = "query" /\ result = "async"
    BY <1>1, <2>1 DEF Fated, OwnPending, OwnReturned
  <2>2. CASE caller = "query" /\ result # "async"
    <3>1. fate[req_id] = "returned" /\ result = "sync" /\ req_id \in Queries
      BY <1>1, <2>2 DEF Fated, OwnPending, OwnReturned
    <3>2. \A q \in Queries : fate[q] # "sent"
      BY <3>1 DEF Fated
    <3>3. CASE shell' = "idle"
      BY <1>1, <3>2, <3>3 DEF Fated
    <3>4. CASE shell' = "read"
      BY <1>1, <2>2, <3>1, <3>4 DEF Processed, ReadsOn
    <3> QED BY <1>1, <3>3, <3>4
  <2>3. CASE caller # "query"
    BY <1>1, <2>3 DEF Fated
  <2> QED BY <2>1, <2>2, <2>3
<1> QED BY <1>4, <1>5, <1>6

\* What a read takes from the pipe stays in the stream.
LEMMA SysreadKeeps ==
    ASSUME ClientIInv, NEW n \in 1..Len(resp), Sysread(n)
    PROVE  ClientIInv'
<1> USE DEF ClientIInv
<1> DEFINE B == Len(buf)
           R == Len(resp)
<1>1. /\ shell \in {"read", "rest"}
      /\ buf' = buf \o SubSeq(resp, 1, n) /\ resp' = SubSeq(resp, n + 1, R)
      /\ UNCHANGED <<state, inflight, req, alive, busy, begun, caller, req_id, result, last, fate>>
  BY DEF Sysread, daemon, call
<1>2. /\ buf \in Seq(Pieces) /\ resp \in Seq(Pieces) /\ B \in Nat /\ R \in Nat
      /\ \A k \in 1..R : resp[k] \in Pieces
  BY LenProperties, ElementOfSeq DEF ClientTyped
<1> HIDE DEF B, R
<1>3. n \in Nat /\ n >= 1 /\ n <= R
  BY <1>2 DEF R
<1>4. SubSeq(resp, 1, n) \in Seq(Pieces) /\ Len(SubSeq(resp, 1, n)) = n
  <2>1. \A k \in 1..n : resp[k] \in Pieces
    BY <1>2, <1>3
  <2>2. /\ SubSeq(resp, 1, n) \in Seq(Pieces)
        /\ Len(SubSeq(resp, 1, n)) = IF 1 <= n THEN n - 1 + 1 ELSE 0
    BY <1>3, <2>1, SubSeqProperties
  <2> QED BY <1>3, <2>2
<1>5. resp' \in Seq(Pieces)
  <2>1. \A k \in (n + 1)..R : resp[k] \in Pieces
    BY <1>2, <1>3
  <2> QED BY <1>1, <1>2, <1>3, <2>1, SubSeqProperties
<1>6. buf' \in Seq(Pieces) /\ Len(buf') = B + n /\ buf' # << >>
  <2>1. buf' \in Seq(Pieces) /\ Len(buf') = B + n
    BY <1>1, <1>2, <1>4, ConcatProperties DEF B
  <2> QED BY <1>2, <1>3, <2>1, EmptySeq
<1>7. Stream' = Stream
  <2>1. SubSeq(resp, 1, n) \o SubSeq(resp, n + 1, R) = SubSeq(resp, 1, R)
    <3>1. 1 \in 1..(Len(resp) + 1) /\ n \in (1 - 1)..Len(resp) /\ Len(resp) \in n..Len(resp)
      BY <1>2, <1>3 DEF R
    <3> QED BY <1>2, <3>1, ConcatAdjacentSubSeq DEF R
  <2>2. SubSeq(resp, 1, R) = resp
    BY <1>2, SubSeqFull DEF R
  <2>3. (buf \o SubSeq(resp, 1, n)) \o resp' = buf \o (SubSeq(resp, 1, n) \o resp')
    BY <1>2, <1>4, <1>5, ConcatAssociative
  <2> QED BY <1>1, <2>1, <2>2, <2>3 DEF Stream
<1>8. /\ B + n \in 1..Len(Stream) /\ Stream[B + n] = resp[n] /\ Stream[B + n].id \in Queries
      /\ Len(Stream) \in Nat
  BY <1>2, <1>3, StreamFacts DEF B, R
<1>9. shell' = IF resp[n].end THEN "answers" ELSE "rest"
  BY DEF Sysread
<1>10. \/ Even(B + n) /\ shell' = "answers"
       \/ ~Even(B + n) /\ shell' = "rest"
  <2> DEFINE q == Stream[B + n].id
  <2>1. q \in Queries
    BY <1>8
  <2>2. CASE Even(B + n)
    <3>1. resp[n] = Piece(q, TRUE)
      BY <1>8, <2>2 DEF Paired
    <3> HIDE DEF q
    <3>2. resp[n].end
      BY <2>1, <3>1, PieceFacts, Zenon
    <3> QED BY <1>9, <2>2, <3>2, Zenon
  <2>3. CASE ~Even(B + n)
    <3>1. resp[n] = Piece(q, FALSE)
      BY <1>8, <2>3 DEF Paired
    <3> HIDE DEF q
    <3>2. ~resp[n].end
      BY <2>1, <3>1, PieceFacts, Zenon
    <3> QED BY <1>9, <2>3, <3>2, Zenon
  <2> QED BY <2>2, <2>3
<1>11. Waiting' = Waiting
  BY <1>1 DEF Waiting
<1>12. ClientTyped'
  BY <1>1, <1>5, <1>6, <1>10 DEF ClientTyped
<1>13. Paired'
  <2>1. /\ shell' \notin {"idle", "read"}
        /\ shell' = "rest" => ~Even(Len(buf'))
        /\ shell' = "answers" => Even(Len(buf'))
    BY <1>6, <1>10
  <2>2. /\ \A k \in 1..Len(Stream) :
              /\ Even(k) => Stream[k] = Piece(Stream[k].id, TRUE)
              /\ ~Even(k) => Stream[k] = Piece(Stream[k].id, FALSE)
              /\ ~Even(k) /\ k < Len(Stream) => Stream[k + 1].id = Stream[k].id
        /\ \A j, k \in 1..Len(Stream) : j < k /\ Even(j) => Stream[j].id < Stream[k].id
        /\ begun' <=> ~Even(Len(Stream))
    BY <1>1 DEF Paired
  <2>3. /\ shell' \in {"idle", "read"} => buf' = << >>
        /\ shell' = "rest" => ~Even(Len(buf'))
        /\ shell' = "answers" => Even(Len(buf'))
    BY <1>6, <1>10
  <2> QED BY <1>7, <2>2, <2>3 DEF Paired
<1>14. InOrder'
  BY <1>1, <1>7, <1>11 DEF InOrder
<1>15. Held'
  <2>1. state # 0
    BY <1>1 DEF Held
  <2> QED BY <1>1, <1>7, <1>11, <2>1 DEF Held
<1>16. Fated'
  <2>1. shell # "idle" /\ shell # "answers" /\ shell' # "idle"
    BY <1>1, <1>10
  <2>2. caller = "query" => OwnPending'
    BY <1>1, <1>6, <2>1 DEF Fated, OwnPending, OwnReturned
  <2>3. Queries' = Queries
    BY DEF Queries
  <2> QED BY <1>1, <2>1, <2>2, <2>3 DEF Fated
<1> QED BY <1>12, <1>13, <1>14, <1>15, <1>16

\* The answer at the front is taken off the stream, and nothing else.
LEMMA AnswerKeeps ==
    ASSUME ClientIInv, Answer
    PROVE  ClientIInv'
<1> USE DEF ClientIInv
<1> DEFINE B == Len(buf)
           L == Len(Stream)
           id == Stream[1].id
<1>1. /\ shell = "answers" /\ buf # << >> /\ inflight' = inflight - 1 /\ buf' = SubSeq(buf, 3, B)
      /\ UNCHANGED <<state, req, resp, alive, busy, begun, shell, caller, req_id, last>>
  BY DEF Answer, daemon, call
<1>2. /\ buf \in Seq(Pieces) /\ resp \in Seq(Pieces) /\ B \in Nat /\ B >= 2
      /\ L \in Nat /\ L = B + Len(resp) /\ Len(resp) \in Nat /\ L >= 2
      /\ \A k \in 1..B : buf[k] \in Pieces
  <2>1. buf \in Seq(Pieces) /\ resp \in Seq(Pieces) /\ B \in Nat /\ B # 0 /\ Len(resp) \in Nat
    BY <1>1, LenProperties, EmptySeq DEF ClientTyped
  <2>2. Even(B) /\ ~Even(1)
    BY <1>1, EvenFacts DEF Paired
  <2>3. B # 1
    BY <2>2
  <2>4. L \in Nat /\ L = B + Len(resp)
    BY StreamFacts
  <2>5. \A k \in 1..B : buf[k] \in Pieces
    BY <2>1, ElementOfSeq
  <2> HIDE DEF B, L
  <2>6. B >= 2
    BY <2>1, <2>3
  <2>7. L >= 2
    BY <2>1, <2>4, <2>6
  <2> QED BY <2>1, <2>4, <2>5, <2>6, <2>7
<1>3. 1 \in 1..L /\ 2 \in 1..L /\ 1 \in 1..B
  BY <1>2
<1>4. Head(buf).id = id /\ id \in Queries /\ id \in Waiting
  <2>1. Head(buf) = buf[1] /\ Stream[1] = buf[1]
    BY <1>1, <1>2, <1>3, StreamFacts
  <2> QED BY <1>3, <2>1, StreamFacts DEF InOrder
<1>5. ~Even(1) /\ Even(2)
  BY EvenFacts
<1>6. Stream[1] = Piece(id, FALSE) /\ Stream[2].id = id
  <2>1. 1 < L /\ 1 + 1 = 2
    BY <1>2
  <2>2. Stream[1] = Piece(id, FALSE)
    BY <1>3, <1>5 DEF Paired
  <2>3. Stream[1 + 1].id = id
    BY <1>3, <1>5, <2>1 DEF Paired
  <2> QED BY <2>1, <2>2, <2>3
<1> HIDE DEF id, B
<1>7. /\ buf' \in Seq(Pieces) /\ Len(buf') = B - 2
      /\ \A k \in 1..(B - 2) : buf'[k] = buf[k + 2]
  <2>1. \A k \in 3..B : buf[k] \in Pieces
    BY <1>2
  <2>2. /\ SubSeq(buf, 3, B) \in Seq(Pieces)
        /\ Len(SubSeq(buf, 3, B)) = IF 3 <= B THEN B - 3 + 1 ELSE 0
        /\ \A k \in 1..(B - 3 + 1) : SubSeq(buf, 3, B)[k] = buf[3 + k - 1]
    BY <1>2, <2>1, SubSeqProperties
  <2>3. buf' \in Seq(Pieces) /\ Len(buf') = B - 2
    BY <1>1, <1>2, <2>2
  <2>4. ASSUME NEW k \in 1..(B - 2) PROVE buf'[k] = buf[k + 2]
    <3>1. k \in 1..(B - 3 + 1) /\ 3 + k - 1 = k + 2
      BY <1>2
    <3> QED BY <1>1, <2>2, <3>1
  <2> QED BY <2>3, <2>4
<1>9. /\ Len(Stream') = L - 2
      /\ \A k \in 1..(L - 2) : k + 2 \in 1..L /\ Stream'[k] = Stream[k + 2]
      /\ \A k \in 3..L : k - 2 \in 1..(L - 2) /\ Stream'[k - 2] = Stream[k]
  <2>1. /\ buf' \o resp \in Seq(Pieces) /\ Len(buf' \o resp) = Len(buf') + Len(resp)
        /\ \A k \in 1..(Len(buf') + Len(resp)) :
              (buf' \o resp)[k] = IF k <= Len(buf') THEN buf'[k] ELSE resp[k - Len(buf')]
    <3>1. buf' \in Seq(Pieces) /\ resp \in Seq(Pieces)
      BY <1>2, <1>7
    <3> QED BY <3>1, ConcatProperties
  <2>2. Stream' = buf' \o resp
    BY <1>1 DEF Stream
  <2>3. Len(Stream') = L - 2
    BY <1>2, <1>7, <2>1, <2>2
  <2>4. ASSUME NEW k \in 1..(L - 2) PROVE k + 2 \in 1..L /\ Stream'[k] = Stream[k + 2]
    <3>1. k + 2 \in 1..L /\ k \in 1..(Len(buf') + Len(resp))
      BY <1>2, <1>7
    <3>2. CASE k <= B - 2
      <4>1. k \in 1..(B - 2) /\ k + 2 \in 1..B
        BY <1>2, <3>2
      <4>2. Stream'[k] = buf'[k] /\ buf'[k] = buf[k + 2]
        BY <1>7, <2>1, <2>2, <3>1, <3>2, <4>1
      <4>3. Stream[k + 2] = buf[k + 2]
        BY <4>1, StreamFacts DEF B
      <4> QED BY <3>1, <4>2, <4>3
    <3>3. CASE ~(k <= B - 2)
      <4>1. k - (B - 2) \in 1..Len(resp) /\ B + (k - (B - 2)) = k + 2
        BY <1>2, <3>3
      <4>2. Stream'[k] = resp[k - (B - 2)]
        BY <1>7, <2>1, <2>2, <3>1, <3>3
      <4>3. Stream[B + (k - (B - 2))] = resp[k - (B - 2)]
        BY <4>1, StreamFacts DEF B
      <4> QED BY <3>1, <4>1, <4>2, <4>3
    <3> QED BY <3>2, <3>3
  <2>5. ASSUME NEW k \in 3..L PROVE k - 2 \in 1..(L - 2) /\ Stream'[k - 2] = Stream[k]
    <3>1. k - 2 \in 1..(L - 2) /\ (k - 2) + 2 = k
      BY <1>2
    <3> QED BY <2>4, <3>1
  <2> QED BY <2>3, <2>4, <2>5
<1> HIDE DEF L
<1>10. \A k \in 3..L : Stream[k].id # id /\ id < Stream[k].id
  <2> SUFFICES ASSUME NEW k \in 3..L PROVE Stream[k].id # id /\ id < Stream[k].id
    OBVIOUS
  <2>1. k \in 1..L /\ 2 < k
    BY <1>2
  <2>2. id < Stream[k].id
    BY <1>3, <1>5, <1>6, <2>1 DEF Paired, L
  <2>3. Stream[k].id \in Nat /\ id \in Nat
    BY <1>4, <2>1, StreamFacts, QueriesFacts DEF L
  <2> QED BY <2>2, <2>3
\* What becomes of the query.
<1>11. /\ IsOwn(id) => result' = "sync"
       /\ ~IsOwn(id) => result' = "async"
       /\ fate' = [fate EXCEPT ![id] =
             IF IsOwn(id) THEN IF fate[id] = "sent" THEN "returned" ELSE "wrong"
             ELSE IF fate[id] = "late" THEN IF id \in cb THEN "called" ELSE "dropped" ELSE "wrong"]
  BY <1>4 DEF Answer
<1>12. id # 0
  BY <1>4, QueriesFacts
<1>13. ASSUME IsOwn(id)
       PROVE  /\ caller = "query" /\ req_id = id /\ OwnReturned'
              /\ fate' = [fate EXCEPT ![id] = "returned"]
  <2>1. caller = "query" /\ req_id = id /\ id = last /\ fate[id] = "sent" /\ result' = "sync"
    BY <1>1, <1>11, <1>12, <1>13 DEF IsOwn, Fated, OwnPending, OwnReturned
  <2>2. fate' = [fate EXCEPT ![id] = "returned"]
    BY <1>11, <1>13, <2>1
  <2>3. buf' = << >>
    <3>1. 3 \notin 1..L
      <4>1. ASSUME 3 \in 1..L PROVE FALSE
        <5>1. 3 \in 3..L
          BY <1>2, <4>1 DEF L
        <5>2. id < Stream[3].id /\ Stream[3].id \in Waiting
          BY <1>10, <4>1, <5>1 DEF InOrder, L
        <5>3. Stream[3].id <= last /\ Stream[3].id \in Nat /\ id \in Nat
          BY <1>4, <5>2, WaitingFacts, QueriesFacts DEF InOrder
        <5> QED BY <2>1, <5>2, <5>3
      <4> QED BY <4>1
    <3>2. B = 2
      BY <1>2, <3>1 DEF L
    <3> QED BY <1>7, <3>2, EmptySeq
  <2>4. fate'[id] = "returned"
    BY <1>4, <2>2 DEF ClientTyped
  <2>5. OwnReturned'
    BY <1>1, <2>1, <2>3, <2>4 DEF OwnReturned
  <2> QED BY <2>1, <2>2, <2>5
<1>14. ASSUME ~IsOwn(id)
       PROVE  /\ id # req_id /\ result' = "async"
              /\ \E f \in {"called", "dropped"} : fate' = [fate EXCEPT ![id] = f]
  <2>1. fate[id] # "sent"
    BY <1>1, <1>4, <1>14 DEF IsOwn, Fated
  <2>2. fate[id] = "late"
    BY <1>4, <2>1, WaitingFacts
  <2>3. id # req_id /\ result' = "async"
    BY <1>11, <1>14 DEF IsOwn
  <2>4. CASE id \in cb
    <3>1. fate' = [fate EXCEPT ![id] = "called"]
      BY <1>11, <1>14, <2>2, <2>4
    <3> QED BY <2>3, <3>1
  <2>5. CASE id \notin cb
    <3>1. fate' = [fate EXCEPT ![id] = "dropped"]
      BY <1>11, <1>14, <2>2, <2>5
    <3> QED BY <2>3, <3>1
  <2> QED BY <2>4, <2>5
<1>15. PICK f \in {"returned", "called", "dropped"} : fate' = [fate EXCEPT ![id] = f]
  BY <1>13, <1>14
<1>16. /\ fate' \in [Queries -> Fates] /\ fate'[id] = f
       /\ \A q \in Queries : q # id => fate'[q] = fate[q]
  BY <1>4, <1>15 DEF ClientTyped, Fates
<1>17. Queries' = Queries
  BY DEF Queries
<1>18. Waiting' = Waiting \ {id}
  BY <1>4, <1>16, <1>17 DEF Waiting
<1>19. ClientTyped'
  BY <1>1, <1>7, <1>16 DEF ClientTyped
<1>20. Paired'
  <2>1. Even(Len(buf')) /\ (begun <=> ~Even(L - 2))
    <3>1. B - 2 \in Nat /\ (B - 2) + 2 = B /\ L - 2 \in Nat /\ (L - 2) + 2 = L
      BY <1>2
    <3>2. (Even(B) <=> Even(B - 2)) /\ (Even(L) <=> Even(L - 2))
      BY <3>1, EvenFacts
    <3>3. Even(B) /\ (begun <=> ~Even(L))
      BY <1>1 DEF Paired, B, L
    <3> QED BY <1>7, <3>2, <3>3
  <2>2. ASSUME NEW k \in 1..(L - 2)
        PROVE  /\ Even(k) => Stream'[k] = Piece(Stream'[k].id, TRUE)
               /\ ~Even(k) => Stream'[k] = Piece(Stream'[k].id, FALSE)
               /\ ~Even(k) /\ k < L - 2 => Stream'[k + 1].id = Stream'[k].id
    <3>1. k \in Nat /\ k + 2 \in 1..L /\ Stream'[k] = Stream[k + 2] /\ (Even(k + 2) <=> Even(k))
      BY <1>9, EvenFacts
    <3>2. /\ Even(k) => Stream'[k] = Piece(Stream'[k].id, TRUE)
          /\ ~Even(k) => Stream'[k] = Piece(Stream'[k].id, FALSE)
      BY <3>1 DEF Paired, L
    <3>3. ASSUME ~Even(k), k < L - 2
          PROVE  Stream'[k + 1].id = Stream'[k].id
      <4>1. k + 1 \in 1..(L - 2) /\ (k + 1) + 2 = (k + 2) + 1 /\ k + 2 < L
        BY <1>2, <3>1, <3>3
      <4>2. Stream'[k + 1] = Stream[(k + 2) + 1]
        BY <1>9, <4>1
      <4>3. Stream[(k + 2) + 1].id = Stream[k + 2].id
        BY <3>1, <3>3, <4>1 DEF Paired, L
      <4> QED BY <3>1, <4>2, <4>3
    <3> QED BY <3>2, <3>3
  <2>3. ASSUME NEW j \in 1..(L - 2), NEW k \in 1..(L - 2), j < k, Even(j)
        PROVE  Stream'[j].id < Stream'[k].id
    <3>1. /\ j + 2 \in 1..L /\ k + 2 \in 1..L /\ j + 2 < k + 2 /\ Even(j + 2)
          /\ Stream'[j] = Stream[j + 2] /\ Stream'[k] = Stream[k + 2]
      BY <1>9, <2>3, EvenFacts
    <3> QED BY <3>1 DEF Paired, L
  <2> QED BY <1>1, <1>9, <2>1, <2>2, <2>3 DEF Paired
<1>21. InOrder'
  <2>1. ASSUME NEW k \in 1..(L - 2) PROVE Stream'[k].id \in Waiting'
    <3>1. k + 2 \in 3..L /\ k + 2 \in 1..L /\ Stream'[k] = Stream[k + 2]
      BY <1>2, <1>9
    <3> QED BY <1>10, <1>18, <3>1 DEF InOrder, L
  <2>2. ASSUME busy # 0
        PROVE  busy \in Waiting' /\ \A k \in 1..(L - 2) : Even(k) => Stream'[k].id < busy
    <3>1. busy \in Waiting /\ id < busy /\ id \in Nat
      BY <1>3, <1>4, <1>5, <1>6, <2>2, QueriesFacts DEF InOrder, L
    <3>2. ASSUME NEW k \in 1..(L - 2), Even(k) PROVE Stream'[k].id < busy
      <4>1. k \in Nat /\ k + 2 \in 1..L /\ Stream'[k] = Stream[k + 2]
        BY <1>9
      <4>2. Even(k + 2)
        BY <3>2, <4>1, EvenFacts
      <4>3. \A i \in 1..Len(Stream) : Even(i) => Stream[i].id < busy
        BY <2>2 DEF InOrder
      <4> QED BY <4>1, <4>2, <4>3 DEF L
    <3> QED BY <1>18, <3>1, <3>2
  <2>3. ASSUME begun PROVE busy # 0 /\ Stream'[L - 2].id = busy
    <3>1. L # 2
      BY <1>5, <2>3 DEF Paired, L
    <3>2. L - 2 \in 1..(L - 2) /\ (L - 2) + 2 = L
      BY <1>2, <3>1
    <3>3. Stream'[L - 2] = Stream[L]
      BY <1>9, <3>2
    <3> QED BY <2>3, <3>3 DEF InOrder, L
  <2>4. ASSUME NEW i \in 1..Len(req)
        PROVE  /\ req[i] \in Waiting' /\ busy < req[i]
               /\ \A k \in 1..(L - 2) : Stream'[k].id < req[i]
    <3>1. /\ req[i] \in Waiting /\ busy < req[i] /\ \A k \in 1..L : Stream[k].id < req[i]
      BY DEF InOrder, L
    <3>2. id < req[i] /\ id \in Nat
      BY <1>3, <1>4, <1>6, <3>1, QueriesFacts
    <3>3. \A k \in 1..(L - 2) : Stream'[k].id < req[i]
      BY <1>9, <3>1
    <3> QED BY <1>18, <3>1, <3>2, <3>3
  <2>5. /\ \A i, j \in 1..Len(req) : i < j => req[i] < req[j]
        /\ \A q \in Waiting' : q <= last
    BY <1>18 DEF InOrder
  <2> QED BY <1>1, <1>9, <2>1, <2>2, <2>3, <2>4, <2>5 DEF InOrder
<1>22. Held'
  <2>1. inflight' = Cardinality(Waiting')
    BY <1>1, <1>4, <1>18, WaitingFacts, FS_RemoveElement DEF Held
  <2>2. ASSUME NEW q \in Waiting', alive
        PROVE  \/ q = busy \/ \E i \in 1..Len(req) : req[i] = q
               \/ \E k \in 1..(L - 2) : Stream'[k] = Piece(q, TRUE)
    <3>1. q \in Waiting /\ q # id /\ q \in Queries
      BY <1>18, WaitingFacts
    <3>2. ASSUME NEW k \in 1..L, Stream[k] = Piece(q, TRUE)
          PROVE  \E j \in 1..(L - 2) : Stream'[j] = Piece(q, TRUE)
      <4>1. Stream[k].id = q
        BY <3>1, <3>2, PieceFacts
      <4>2. Stream[1].id = id /\ Stream[2].id = id
        BY <1>6 DEF id
      <4>3. k # 1 /\ k # 2
        BY <3>1, <4>1, <4>2
      <4>4. k \in 3..L
        BY <1>2, <4>3
      <4>5. k - 2 \in 1..(L - 2) /\ Stream'[k - 2] = Stream[k]
        BY <1>9, <4>4
      <4> QED BY <3>2, <4>5
    <3> QED BY <2>2, <3>1, <3>2 DEF Held, L
  <2>3. \A q \in Waiting' : state = 2
    BY <1>18 DEF Held
  <2>4. state # 0
    BY <1>1 DEF Held
  <2> QED BY <1>1, <1>9, <2>1, <2>2, <2>3, <2>4 DEF Held
<1>23. Fated'
  <2>1. \A q \in Queries : fate'[q] # "wrong" /\ (fate'[q] = "sent" => q # id /\ fate[q] = "sent")
    BY <1>16 DEF Fated
  <2>2. caller = "query" => req_id \in Queries /\ req_id = last
    BY <1>1 DEF Fated
  <2>3. CASE IsOwn(id)
    BY <1>1, <1>13, <1>17, <2>1, <2>2, <2>3 DEF Fated
  <2>4. CASE ~IsOwn(id)
    <3>1. caller = "query" => OwnPending'
      <4>1. SUFFICES ASSUME caller = "query" PROVE OwnPending'
        OBVIOUS
      <4>2. fate[req_id] = "sent"
        BY <1>1, <4>1 DEF Fated, OwnPending, OwnReturned
      <4>3. fate'[req_id] = "sent" /\ result' = "async"
        BY <1>14, <1>16, <2>2, <2>4, <4>1, <4>2
      <4> QED BY <1>1, <4>3 DEF OwnPending
    <3> QED BY <1>1, <1>17, <2>1, <2>2, <3>1 DEF Fated
  <2> QED BY <2>3, <2>4
<1> QED BY <1>19, <1>20, <1>21, <1>22, <1>23

LEMMA ClientStutters ==
    ASSUME ClientIInv, UNCHANGED clientVars
    PROVE  ClientIInv'
<1>1. UNCHANGED <<state, inflight, req, resp, alive, busy, begun, shell, caller, req_id, buf, result, last, fate>>
  BY DEF clientVars
<1>2. Fated' /\ Waiting' = Waiting
  BY <1>1, ShellStays
<1>3. state = 0 => shell' = "idle"
  BY <1>1 DEF ClientIInv, Held
<1>4. Paired' /\ InOrder' /\ Held'
  BY <1>1, <1>2, <1>3, PipesStay
<1>5. ClientTyped'
  BY <1>1 DEF ClientIInv, ClientTyped
<1> QED BY <1>2, <1>4, <1>5 DEF ClientIInv

LEMMA ClientStepKeeps ==
  ASSUME ClientIInv, [ClientNext]_clientVars
  PROVE  ClientIInv'
<1>1. CASE TakeRequest \/ WriteBegin \/ WriteEnd \/ Kill \/ gitstatus_start
  BY <1>1, TakeRequestKeeps, WriteBeginKeeps, WriteEndKeeps, KillKeeps, StartKeeps
<1>2. CASE Stop \/ HangUp \/ EndOfFile
  BY <1>2, StopKeeps DEF Stop, HangUp, EndOfFile
<1>3. CASE \E callback \in BOOLEAN, timeout \in {"zero", "finite", "infinite"} :
              gitstatus_query(callback, timeout)
  BY <1>3, QueryKeeps
<1>4. ASSUME NEW timed \in BOOLEAN, gitstatus_process_results(timed)
      PROVE  ClientIInv'
  BY <1>4, ReadKeeps DEF gitstatus_process_results, daemon
<1>5. CASE Ready
  BY <1>5, ReadKeeps DEF Ready, daemon
<1>6. CASE Timeout \/ Answer \/ Processed
  BY <1>6, TimeoutKeeps, AnswerKeeps, ProcessedKeeps
<1>7. CASE \E n \in 1..Len(resp) : Sysread(n)
  BY <1>7, SysreadKeeps
<1>8. CASE UNCHANGED clientVars
  BY <1>8, ClientStutters
<1> QED BY <1>1, <1>2, <1>3, <1>4, <1>5, <1>6, <1>7, <1>8 DEF ClientNext, Reads

(* The inductive invariant of the client: the answers come in pairs of     *)
(* pieces and in the order of their queries, and what the shell believes   *)
(* of each query fits where its answer is.                                 *)
THEOREM ClientInvariant == ClientSpec => []ClientIInv
BY ClientInitHolds, ClientStepKeeps, PTL DEF ClientSpec

LEMMA ClientIInvRight == ClientIInv => AnswersRight
<1> SUFFICES ASSUME ClientIInv PROVE AnswersRight
  OBVIOUS
<1>1. inflight = Cardinality(Waiting) /\ \A q \in Queries : fate[q] # "wrong"
  BY DEF ClientIInv, Held, Fated
<1>2. shell = "idle" => \A q \in Queries : fate[q] # "sent"
  BY DEF ClientIInv, Fated
<1>3. ASSUME NEW q \in Waiting
      PROVE  /\ state = 2
             /\ alive => q = busy \/ (\E k \in 1..Len(req) : req[k] = q)
                         \/ (\E k \in 1..Len(resp) : resp[k] = Piece(q, TRUE))
                         \/ (\E k \in 1..Len(buf) : buf[k] = Piece(q, TRUE))
  <2>1. ASSUME NEW k \in 1..Len(Stream), Stream[k] = Piece(q, TRUE)
        PROVE  \/ \E j \in 1..Len(resp) : resp[j] = Piece(q, TRUE)
               \/ \E j \in 1..Len(buf) : buf[j] = Piece(q, TRUE)
    <3>1. Len(buf) \in Nat /\ Len(resp) \in Nat /\ Len(Stream) = Len(buf) + Len(resp)
      BY StreamFacts DEF ClientIInv
    <3>2. CASE k <= Len(buf)
      <4>1. k \in 1..Len(buf) /\ buf[k] = Stream[k]
        BY <3>1, <3>2, StreamFacts DEF ClientIInv
      <4> QED BY <2>1, <4>1
    <3>3. CASE ~(k <= Len(buf))
      <4>1. k - Len(buf) \in 1..Len(resp) /\ Len(buf) + (k - Len(buf)) = k
        BY <3>1, <3>3
      <4>2. Stream[Len(buf) + (k - Len(buf))] = resp[k - Len(buf)]
        BY <4>1, StreamFacts DEF ClientIInv
      <4> QED BY <2>1, <4>1, <4>2
    <3> QED BY <3>2, <3>3
  <2>2. state = 2 /\ (alive => \/ q = busy \/ \E i \in 1..Len(req) : req[i] = q
                               \/ \E k \in 1..Len(Stream) : Stream[k] = Piece(q, TRUE))
    BY DEF ClientIInv, Held
  <2> QED BY <2>1, <2>2
<1> QED BY <1>1, <1>2, <1>3 DEF AnswersRight

(* No answer goes astray and _GITSTATUS_NUM_INFLIGHT counts the answers to *)
(* come, for any number of queries and of daemons killed.                  *)
THEOREM AnswersAlwaysRight == ClientSpec => []AnswersRight
  BY ClientInvariant, ClientIInvRight, PTL

-----------------------------------------------------------------------------
\* Messages.  A text is cut into parts by a separator, and the numbers e say
\* where: what SplitAt counts, the proofs follow from cut to cut.

\* The characters there are, and the texts of them.
Char == Control \cup {kUnreadable, Colon, Zero, One} \cup UNION {Range(m) : m \in ShellMessages \cup FieldValues}
Text == Seq(Char)

\* c is not in s.
Free(s, c) == \A k \in 1..Len(s) : s[k] # c

\* e has the ends of the n parts of s, and 0.
Cuts(e, n, s, c) ==
    /\ n \in Nat \ {0} /\ e \in [0..n -> Nat] /\ e[0] = 0 /\ e[n] = Len(s) + 1
    /\ \A i, j \in 0..n : i < j => e[i] < e[j]
    /\ \A i \in 1..(n - 1) : s[e[i]] = c
    /\ \A k \in 1..Len(s) : s[k] = c => \E i \in 1..(n - 1) : e[i] = k

\* p is the piece of s that follows its first a characters.
At(p, s, a) == a + Len(p) <= Len(s) /\ \A k \in 1..Len(p) : p[k] = s[a + k]

\* t has the parts of s between its separators.
Parts(s, c, t) ==
    /\ t \in Seq(Text)
    /\ \E e \in [0..Len(t) -> Nat] :
          /\ Cuts(e, Len(t), s, c)
          /\ \A i \in 1..Len(t) : e[i - 1] + Len(t[i]) + 1 = e[i] /\ At(t[i], s, e[i - 1])

\* The ends SplitAt sees, and how many of them are below k.
Ends(s, c) == {0, Len(s) + 1} \cup {k \in DOMAIN s : s[k] = c}
Below(s, c, k) == Cardinality({x \in Ends(s, c) : x < k})

\* A set of numbers has a least one: what stands in for an induction.
LEMMA SmallestNat ==
    ASSUME NEW T, T \subseteq Nat, T # {}
    PROVE  \E x \in T : \A y \in T : x <= y
<1>1. PICK x \in T : \A y \in T : ~(<<y, x>> \in OpToRel(<, Nat))
  BY NatLessThanWellFounded, WFMin
<1>2. \A y \in T : y < x => <<y, x>> \in OpToRel(<, Nat)
  BY DEF OpToRel
<1>3. \A y \in T : ~(y < x)
  BY <1>1, <1>2, Zenon
<1> QED BY <1>3

\* The cuts of a text are the ends SplitAt counts, in their order.
LEMMA CutsCount ==
  ASSUME NEW s \in Text, NEW c, NEW n, NEW e, Cuts(e, n, s, c)
  PROVE  /\ Ends(s, c) = {e[i] : i \in 0..n} /\ Cardinality(Ends(s, c)) = n + 1
         /\ \A i \in 0..n : Below(s, c, e[i]) = i
<1>1. Len(s) \in Nat /\ DOMAIN s = 1..Len(s) /\ n \in Nat \ {0}
  BY LenProperties DEF Text, Cuts
<1>2. \A i \in 1..(n - 1) : e[i] \in 1..Len(s)
  BY <1>1 DEF Cuts
<1>3. Ends(s, c) = {e[i] : i \in 0..n}
  <2>1. ASSUME NEW x \in Ends(s, c) PROVE \E i \in 0..n : x = e[i]
    BY <1>1, <2>1 DEF Cuts, Ends
  <2>2. ASSUME NEW i \in 0..n PROVE e[i] \in Ends(s, c)
    BY <1>1, <1>2, <2>2 DEF Cuts, Ends
  <2>3. QED
    BY <2>1, <2>2
<1>4. ASSUME NEW i \in 0..(n + 1), NEW T, T = {e[j] : j \in 0..(i - 1)} PROVE Cardinality(T) = i
  <2> DEFINE b == [j \in 0..(i - 1) |-> e[j]]
  <2>1. b \in Bijection(0..(i - 1), T)
    <3>1. b \in [0..(i - 1) -> T] /\ \A x, y \in 0..(i - 1) : b[x] = b[y] => x = y
      BY <1>1, <1>4 DEF Cuts
    <3>2. \A y \in T : \E x \in 0..(i - 1) : b[x] = y
      BY <1>4
    <3>3. QED
      BY <3>1, <3>2 DEF Bijection, Injection, Surjection, IsInjective
  <2>2. IsFiniteSet(0..(i - 1)) /\ Cardinality(0..(i - 1)) = i
    <3>1. PICK k \in Int : k = i - 1 /\ (IF 0 > k THEN 0 ELSE k - 0 + 1) = i
      BY <1>1
    <3>2. QED
      BY <3>1, FS_Interval
  <2>3. QED
    BY <2>1, <2>2, FS_Bijection DEF ExistsBijection
<1>5. ASSUME NEW i \in 0..n PROVE {x \in Ends(s, c) : x < e[i]} = {e[j] : j \in 0..(i - 1)}
  <2>1. ASSUME NEW j \in 0..n PROVE e[j] < e[i] <=> j \in 0..(i - 1)
    <3>1. e[j] \in Nat /\ e[i] \in Nat /\ (j < i => e[j] < e[i]) /\ (i < j => e[i] < e[j])
      BY <1>1 DEF Cuts
    <3>2. QED
      BY <1>1, <3>1
  <2>2. QED
    BY <1>1, <1>3, <2>1
<1>6. Cardinality(Ends(s, c)) = n + 1
  <2>1. PICK i \in 0..(n + 1) : i = n + 1 /\ 0..n = 0..(i - 1)
    BY <1>1
  <2>2. PICK T : T = {e[j] : j \in 0..(i - 1)}
    OBVIOUS
  <2>3. Cardinality(T) = i
    BY <1>4, <2>2
  <2>4. QED
    BY <1>3, <2>1, <2>2, <2>3
<1>7. ASSUME NEW i \in 0..n PROVE Below(s, c, e[i]) = i
  BY <1>1, <1>4, <1>5 DEF Below
<1> QED BY <1>3, <1>6, <1>7

\* A piece of a text is the SubSeq from where it is.
LEMMA PieceIs ==
  ASSUME NEW s \in Text, NEW p \in Text, NEW a \in Nat, At(p, s, a)
  PROVE  p = SubSeq(s, a + 1, a + Len(p))
<1>1. Len(s) \in Nat /\ Len(p) \in Nat /\ p = [k \in 1..Len(p) |-> p[k]]
  BY LenProperties DEF Text
<1>2. SubSeq(s, a + 1, a + Len(p)) = [k \in 1..(a + Len(p) - (a + 1) + 1) |-> s[a + 1 + k - 1]]
  <2>1. PICK i \in Nat, j \in Nat : i = a + 1 /\ j = a + Len(p)
    BY <1>1
  <2>2. SubSeq(s, i, j) = [k \in 1..(j - i + 1) |-> s[i + k - 1]]
    OBVIOUS
  <2>3. QED
    BY <2>1, <2>2
<1>3. a + Len(p) - (a + 1) + 1 = Len(p) /\ \A k \in 1..Len(p) : a + 1 + k - 1 = a + k
  BY <1>1
<1> QED BY <1>1, <1>2, <1>3 DEF At

\* The parts of a text are what SplitAt finds.
LEMMA SplitIs ==
  ASSUME NEW s \in Text, NEW c, NEW t, Parts(s, c, t)
  PROVE  SplitAt(s, c) = t
<1> DEFINE n == Len(t)
           at_(i) == CHOOSE k \in Ends(s, c) : Below(s, c, k) = i
<1>1. PICK e \in [0..n -> Nat] : /\ Cuts(e, n, s, c)
                                 /\ \A i \in 1..n : e[i - 1] + Len(t[i]) + 1 = e[i] /\ At(t[i], s, e[i - 1])
  BY DEF Parts
<1>2. /\ Ends(s, c) = {e[i] : i \in 0..n} /\ Cardinality(Ends(s, c)) = n + 1
      /\ \A i \in 0..n : Below(s, c, e[i]) = i
  BY <1>1, CutsCount
<1>3. n \in Nat \ {0}
  BY <1>1 DEF Cuts
<1>4. ASSUME NEW i \in 0..n PROVE at_(i) = e[i]
  <2>1. e[i] \in Ends(s, c) /\ Below(s, c, e[i]) = i
    BY <1>2
  <2>2. ASSUME NEW k \in Ends(s, c), Below(s, c, k) = i PROVE k = e[i]
    <3>1. PICK j \in 0..n : k = e[j]
      BY <1>2
    <3>2. j = i
      BY <1>2, <2>2, <3>1
    <3>3. QED
      BY <3>1, <3>2
  <2>3. QED
    BY <2>1, <2>2
<1>5. SplitAt(s, c) = [i \in 1..(Cardinality(Ends(s, c)) - 1) |-> SubSeq(s, at_(i - 1) + 1, at_(i) - 1)]
  BY DEF SplitAt, Ends, Below
<1>6. Cardinality(Ends(s, c)) - 1 = n
  BY <1>2, <1>3
<1>7. ASSUME NEW i \in 1..n PROVE SubSeq(s, at_(i - 1) + 1, at_(i) - 1) = t[i]
  <2>1. at_(i - 1) = e[i - 1] /\ at_(i) = e[i]
    BY <1>3, <1>4
  <2>2. t[i] \in Text /\ Len(t[i]) \in Nat
    BY <1>3, ElementOfSeq, LenProperties DEF Parts, Text
  <2>3. i - 1 \in 0..n /\ e[i - 1] \in Nat
    BY <1>3
  <2>4. t[i] = SubSeq(s, e[i - 1] + 1, e[i - 1] + Len(t[i]))
    BY <1>1, <2>2, <2>3, PieceIs
  <2>5. e[i] - 1 = e[i - 1] + Len(t[i])
    BY <1>1, <2>2, <2>3
  <2>6. QED
    BY <2>1, <2>4, <2>5
<1>8. t = [i \in 1..n |-> t[i]]
  BY LenProperties DEF Parts
<1> HIDE DEF at_, n
<1> QED BY <1>5, <1>6, <1>7, <1>8

\* A text without a separator is one part.
LEMMA OnePart ==
  ASSUME NEW s \in Text, NEW c, Free(s, c)
  PROVE  Parts(s, c, <<s>>)
<1> DEFINE e == [i \in 0..1 |-> IF i = 0 THEN 0 ELSE Len(s) + 1]
<1>1. Len(s) \in Nat
  BY LenProperties DEF Text
<1>2. Cuts(e, 1, s, c)
  BY <1>1 DEF Cuts, Free
<1>4. <<s>> \in Seq(Text) /\ Len(<<s>>) = 1 /\ e \in [0..1 -> Nat]
  BY <1>1
<1>5. \A i \in 1..1 : e[i - 1] + Len(<<s>>[i]) + 1 = e[i] /\ At(<<s>>[i], s, e[i - 1])
  BY <1>1 DEF At
<1> QED BY <1>2, <1>4, <1>5 DEF Parts

\* The characters of two texts together.
LEMMA ConcatText ==
  ASSUME NEW s \in Text, NEW u \in Text
  PROVE  /\ s \o u \in Text /\ Len(s) \in Nat /\ Len(u) \in Nat /\ Len(s \o u) = Len(s) + Len(u)
         /\ \A k \in 1..Len(s) : (s \o u)[k] = s[k]
         /\ \A k \in 1..Len(u) : (s \o u)[Len(s) + k] = u[k]
         /\ \A k \in 1..(Len(s) + Len(u)) : k > Len(s) => (s \o u)[k] = u[k - Len(s)]
BY ConcatProperties, LenProperties DEF Text

\* What the cuts of s are among.
LEMMA CutsIn ==
  ASSUME NEW s \in Text, NEW c, NEW n, NEW e, Cuts(e, n, s, c)
  PROVE  /\ Len(s) \in Nat
         /\ \A i \in 0..n : e[i] \in Nat /\ (i < n => e[i] <= Len(s)) /\ (0 < i => e[i] > 0)
BY LenProperties DEF Cuts, Text

\* Text without a separator, written after parts, goes to the last of them.
LEMMA ExtendLast ==
  ASSUME NEW s \in Text, NEW c, NEW t, Parts(s, c, t), NEW u \in Text, Free(u, c)
  PROVE  Parts(s \o u, c, [t EXCEPT ![Len(t)] = @ \o u])
<1> DEFINE n == Len(t)
           w == s \o u
           r == [t EXCEPT ![Len(t)] = @ \o u]
<1>1. PICK e \in [0..n -> Nat] : /\ Cuts(e, n, s, c)
                                 /\ \A i \in 1..n : e[i - 1] + Len(t[i]) + 1 = e[i] /\ At(t[i], s, e[i - 1])
  BY DEF Parts
<1>2. n \in Nat \ {0} /\ t \in Seq(Text) /\ \A i \in 1..n : t[i] \in Text
  BY <1>1, ElementOfSeq DEF Cuts, Parts
<1>3. /\ w \in Text /\ Len(s) \in Nat /\ Len(u) \in Nat /\ Len(w) = Len(s) + Len(u)
      /\ \A k \in 1..Len(s) : w[k] = s[k]
      /\ \A k \in 1..Len(u) : w[Len(s) + k] = u[k]
      /\ \A k \in 1..(Len(s) + Len(u)) : k > Len(s) => w[k] = u[k - Len(s)]
  BY ConcatText
<1>4. r \in Seq(Text) /\ Len(r) = n /\ r[n] = t[n] \o u /\ \A i \in 1..(n - 1) : r[i] = t[i]
  <2>1. t[n] \o u \in Text
    BY <1>2, ConcatText
  <2>2. QED
    BY <1>2, <2>1, ExceptSeq
<1> DEFINE f == [i \in 0..n |-> IF i = n THEN Len(w) + 1 ELSE e[i]]
<1>5. \A i \in 0..n : e[i] \in Nat /\ (i < n => e[i] <= Len(s)) /\ (0 < i => e[i] > 0)
  BY <1>1, CutsIn
<1>6. Cuts(f, n, w, c)
  <2>1. f \in [0..n -> Nat] /\ f[0] = 0 /\ f[n] = Len(w) + 1
    BY <1>1, <1>2, <1>3 DEF Cuts
  <2>2. \A i, j \in 0..n : i < j => f[i] < f[j]
    BY <1>1, <1>2, <1>3, <1>5 DEF Cuts
  <2>3. \A i \in 1..(n - 1) : w[f[i]] = c
    <3>1. SUFFICES ASSUME NEW i \in 1..(n - 1) PROVE w[f[i]] = c
      OBVIOUS
    <3>2. f[i] = e[i] /\ e[i] \in 1..Len(s)
      BY <1>2, <1>3, <1>5
    <3>3. QED
      BY <1>1, <1>3, <3>2 DEF Cuts
  <2>4. ASSUME NEW k \in 1..Len(w), w[k] = c PROVE \E i \in 1..(n - 1) : f[i] = k
    <3>1. k \in 1..Len(s)
      <4>1. CASE k > Len(s)
        <5>1. k - Len(s) \in 1..Len(u) /\ w[k] = u[k - Len(s)]
          BY <1>3, <4>1
        <5>2. QED
          BY <2>4, <5>1 DEF Free
      <4>2. QED
        BY <1>3, <4>1
    <3>2. PICK i \in 1..(n - 1) : e[i] = k
      BY <1>1, <1>3, <2>4, <3>1 DEF Cuts
    <3>3. f[i] = k
      BY <1>2, <3>2
    <3>4. QED
      BY <3>3
  <2>5. QED
    BY <1>2, <2>1, <2>2, <2>3, <2>4 DEF Cuts
<1> HIDE DEF w, r
<1>7. ASSUME NEW i \in 1..n PROVE f[i - 1] + Len(r[i]) + 1 = f[i] /\ At(r[i], w, f[i - 1])
  <2>1. PICK a \in Nat : a = e[i - 1] /\ a = f[i - 1] /\ a <= Len(s)
    <3>1. i - 1 \in 0..n /\ i - 1 < n
      BY <1>2
    <3>2. QED
      BY <1>5, <3>1
  <2>2. PICK p \in Text, d \in Nat : p = t[i] /\ d = e[i] /\ f[i] = (IF i = n THEN Len(w) + 1 ELSE d)
    <3>1. i \in 0..n /\ t[i] \in Text
      BY <1>2
    <3>2. e[i] \in Nat /\ f[i] = (IF i = n THEN Len(w) + 1 ELSE e[i])
      BY <1>5, <3>1
    <3>3. QED
      BY <3>1, <3>2
  <2>3. a + Len(p) + 1 = d /\ At(p, s, a)
    BY <1>1, <2>1, <2>2
  <2>4. Len(p) \in Nat /\ a + Len(p) <= Len(s) /\ \A k \in 1..Len(p) : p[k] = s[a + k]
    BY <2>3, ConcatText DEF At
  <2>5. \A k \in 1..Len(p) : p[k] = w[a + k]
    <3>1. SUFFICES ASSUME NEW k \in 1..Len(p) PROVE p[k] = w[a + k]
      OBVIOUS
    <3>2. a + k \in 1..Len(s)
      BY <1>3, <2>4
    <3>3. QED
      BY <1>3, <2>4, <3>2
  <2>6. CASE i < n
    <3>1. r[i] = p /\ f[i] = d
      BY <1>2, <1>4, <2>2, <2>6
    <3>2. a + Len(p) <= Len(w)
      BY <1>3, <2>4
    <3>3. At(p, w, a)
      BY <2>5, <3>2 DEF At
    <3>4. QED
      BY <2>1, <2>3, <3>1, <3>3
  <2>7. CASE i = n
    <3>1. f[i] = Len(w) + 1 /\ a + Len(p) = Len(s)
      <4>1. d = Len(s) + 1
        BY <1>1, <2>2, <2>7 DEF Cuts
      <4>2. QED
        BY <1>3, <2>2, <2>3, <2>4, <2>7, <4>1
    <3>2. PICK q \in Text : q = r[i] /\ q = p \o u
      BY <1>4, <2>2, <2>7, ConcatText
    <3>3. /\ Len(q) = Len(p) + Len(u) /\ \A k \in 1..Len(p) : q[k] = p[k]
          /\ \A k \in 1..(Len(p) + Len(u)) : k > Len(p) => q[k] = u[k - Len(p)]
      BY <3>2, ConcatText
    <3>4. ASSUME NEW k \in 1..Len(q) PROVE q[k] = w[a + k]
      <4>1. CASE k <= Len(p)
        <5>1. k \in 1..Len(p)
          BY <2>4, <4>1
        <5>2. QED
          BY <2>5, <3>3, <5>1
      <4>2. CASE k > Len(p)
        <5>1. /\ Len(s) \in Nat /\ Len(p) \in Nat /\ Len(u) \in Nat /\ a + Len(p) = Len(s)
              /\ Len(q) = Len(p) + Len(u) /\ k \in 1..Len(q)
          BY <1>3, <2>4, <3>1, <3>3
        <5>4. a + k \in 1..(Len(s) + Len(u)) /\ a + k > Len(s) /\ a + k - Len(s) = k - Len(p)
          BY <4>2, <5>1
        <5>2. w[a + k] = u[k - Len(p)] /\ q[k] = u[k - Len(p)]
          <6>1. w[a + k] = u[a + k - Len(s)]
            BY <1>3, <5>4
          <6>2. q[k] = u[k - Len(p)]
            BY <3>3, <4>2, <5>1
          <6>3. QED
            BY <5>4, <6>1, <6>2
        <5>3. QED
          BY <5>2
      <4>3. QED
        BY <2>4, <4>1, <4>2
    <3>5. a + Len(q) = Len(w)
      <4>1. Len(s) \in Nat /\ Len(p) \in Nat /\ Len(u) \in Nat /\ Len(w) = Len(s) + Len(u)
        BY <1>3, <2>4
      <4>2. a + Len(p) = Len(s) /\ Len(q) = Len(p) + Len(u)
        BY <3>1, <3>3
      <4>3. a + (Len(p) + Len(u)) = a + Len(p) + Len(u)
        BY <4>1
      <4>4. QED
        BY <4>1, <4>2, <4>3
    <3>6. At(q, w, a)
      BY <1>3, <3>4, <3>5 DEF At
    <3>7. QED
      BY <2>1, <3>1, <3>2, <3>5, <3>6
  <2>8. QED
    BY <1>2, <2>6, <2>7
<1>8. \E g \in [0..n -> Nat] :
         Cuts(g, n, w, c) /\ \A i \in 1..n : g[i - 1] + Len(r[i]) + 1 = g[i] /\ At(r[i], w, g[i - 1])
  <2>1. f \in [0..n -> Nat]
    BY <1>6 DEF Cuts
  <2> HIDE DEF f
  <2>2. QED
    BY <1>6, <1>7, <2>1
<1>9. Parts(w, c, r)
  BY <1>4, <1>8 DEF Parts
<1> QED BY <1>9 DEF w, r

\* A separator and text without one are a part more.
LEMMA MoreParts ==
  ASSUME NEW s \in Text, NEW c \in Char, NEW t, Parts(s, c, t), NEW u \in Text, Free(u, c)
  PROVE  Parts(s \o <<c>> \o u, c, Append(t, u))
<1> DEFINE n == Len(t)
           w == s \o <<c>> \o u
           r == Append(t, u)
<1>1. PICK e \in [0..n -> Nat] : /\ Cuts(e, n, s, c)
                                 /\ \A i \in 1..n : e[i - 1] + Len(t[i]) + 1 = e[i] /\ At(t[i], s, e[i - 1])
  BY DEF Parts
<1>2. n \in Nat \ {0} /\ t \in Seq(Text) /\ \A i \in 1..n : t[i] \in Text
  BY <1>1, ElementOfSeq DEF Cuts, Parts
<1>3. /\ w \in Text /\ Len(s) \in Nat /\ Len(u) \in Nat /\ Len(w) = Len(s) + 1 + Len(u)
      /\ \A k \in 1..Len(s) : w[k] = s[k]
      /\ w[Len(s) + 1] = c
      /\ \A k \in 1..Len(w) : k > Len(s) + 1 => w[k] = u[k - (Len(s) + 1)]
  <2>1. <<c>> \in Text /\ Len(<<c>>) = 1 /\ <<c>>[1] = c
    BY DEF Text
  <2>2. /\ s \o <<c>> \in Text /\ Len(s) \in Nat /\ Len(s \o <<c>>) = Len(s) + 1
        /\ \A k \in 1..Len(s) : (s \o <<c>>)[k] = s[k]
        /\ (s \o <<c>>)[Len(s) + 1] = c
    BY <2>1, ConcatText
  <2>3. PICK v \in Text : v = s \o <<c>>
    BY <2>2
  <2>4. w = v \o u /\ Len(v) = Len(s) + 1
    BY <2>2, <2>3
  <2> HIDE DEF w
  <2>5. /\ w \in Text /\ Len(u) \in Nat /\ Len(w) = Len(v) + Len(u)
        /\ \A k \in 1..Len(v) : w[k] = v[k]
        /\ \A k \in 1..(Len(v) + Len(u)) : k > Len(v) => w[k] = u[k - Len(v)]
    BY <2>4, ConcatText
  <2>6. QED
    BY <2>2, <2>3, <2>4, <2>5
<1>4. r \in Seq(Text) /\ Len(r) = n + 1 /\ r[n + 1] = u /\ \A i \in 1..n : r[i] = t[i]
  BY <1>2, AppendProperties
<1> HIDE DEF w, r
<1> DEFINE f == [i \in 0..(n + 1) |-> IF i = n + 1 THEN Len(w) + 1 ELSE e[i]]
<1>5. \A i \in 0..n : e[i] \in Nat /\ e[i] <= Len(s) + 1 /\ (i < n => e[i] <= Len(s)) /\ (0 < i => e[i] > 0)
  <2>1. e[n] = Len(s) + 1
    BY <1>1 DEF Cuts
  <2>2. QED
    BY <1>1, <1>2, <2>1, CutsIn
<1>6. Cuts(f, n + 1, w, c)
  <2>1. f \in [0..(n + 1) -> Nat] /\ f[0] = 0 /\ f[n + 1] = Len(w) + 1 /\ n + 1 \in Nat \ {0}
    BY <1>1, <1>2, <1>3 DEF Cuts
  <2>2. ASSUME NEW i \in 0..(n + 1), NEW j \in 0..(n + 1), i < j PROVE f[i] < f[j]
    <3>1. f[i] = e[i] /\ i \in 0..n /\ e[i] \in Nat /\ e[i] <= Len(s) + 1
      BY <1>2, <1>5, <2>2
    <3>2. CASE j <= n
      BY <1>1, <1>2, <2>2, <3>1, <3>2 DEF Cuts
    <3>3. CASE j = n + 1
      BY <1>3, <3>1, <3>3
    <3>4. QED
      BY <1>2, <3>2, <3>3
  <2>3. ASSUME NEW i \in 1..n PROVE w[f[i]] = c
    <3>1. f[i] = e[i]
      BY <1>2
    <3>2. CASE i = n
      BY <1>1, <1>3, <3>1, <3>2 DEF Cuts
    <3>3. CASE i < n
      <4>1. e[i] \in 1..Len(s) /\ i \in 1..(n - 1)
        BY <1>2, <1>3, <1>5, <3>3
      <4>2. QED
        BY <1>1, <1>3, <3>1, <4>1 DEF Cuts
    <3>4. QED
      BY <1>2, <3>2, <3>3
  <2>4. ASSUME NEW k \in 1..Len(w), w[k] = c PROVE \E i \in 1..n : f[i] = k
    <3>1. CASE k > Len(s) + 1
      <4>1. k - (Len(s) + 1) \in 1..Len(u) /\ w[k] = u[k - (Len(s) + 1)]
        BY <1>3, <3>1
      <4>2. QED
        BY <2>4, <4>1 DEF Free
    <3>2. CASE k = Len(s) + 1
      <4>1. f[n] = k /\ n \in 1..n
        BY <1>1, <1>2, <3>2 DEF Cuts
      <4>2. QED
        BY <4>1
    <3>3. CASE k <= Len(s)
      <4>1. k \in 1..Len(s)
        BY <1>3, <3>3
      <4>2. PICK i \in 1..(n - 1) : e[i] = k
        BY <1>1, <1>3, <2>4, <4>1 DEF Cuts
      <4>3. f[i] = k /\ i \in 1..n
        BY <1>2, <4>2
      <4>4. QED
        BY <4>3
    <3>4. k > Len(s) + 1 \/ k = Len(s) + 1 \/ k <= Len(s)
      BY <1>3
    <3>5. QED
      BY <3>1, <3>2, <3>3, <3>4
  <2>5. (n + 1) - 1 = n
    BY <1>2
  <2>6. QED
    BY <2>1, <2>2, <2>3, <2>4, <2>5 DEF Cuts
<1>7. ASSUME NEW i \in 1..(n + 1) PROVE f[i - 1] + Len(r[i]) + 1 = f[i] /\ At(r[i], w, f[i - 1])
  <2>1. i - 1 \in 0..n /\ f[i - 1] = e[i - 1]
    BY <1>2
  <2>2. CASE i <= n
    <3>1. PICK a \in Nat, d \in Nat, p \in Text : a = e[i - 1] /\ d = e[i] /\ p = t[i]
      <4>1. i \in 1..n /\ i \in 0..n
        BY <1>2, <2>2
      <4>2. t[i] \in Text /\ e[i] \in Nat /\ e[i - 1] \in Nat
        BY <1>2, <1>5, <2>1, <4>1
      <4>3. QED
        BY <4>2
    <3>2. a + Len(p) + 1 = d /\ At(p, s, a)
      BY <1>1, <1>2, <2>2, <3>1
    <3>3. r[i] = p /\ f[i] = d /\ f[i - 1] = a
      BY <1>2, <1>4, <2>1, <2>2, <3>1
    <3>4. Len(p) \in Nat /\ a + Len(p) <= Len(s) /\ \A k \in 1..Len(p) : p[k] = s[a + k]
      BY <3>2, ConcatText DEF At
    <3>5. ASSUME NEW k \in 1..Len(p) PROVE p[k] = w[a + k]
      <4>1. a + k \in 1..Len(s)
        BY <1>3, <3>4
      <4>2. QED
        BY <1>3, <3>4, <4>1
    <3>6. a + Len(p) <= Len(w)
      BY <1>3, <3>4
    <3>7. At(p, w, a)
      BY <3>5, <3>6 DEF At
    <3>8. QED
      BY <3>2, <3>3, <3>7
  <2>3. CASE i = n + 1
    <3>1. r[i] = u /\ f[i] = Len(w) + 1 /\ f[i - 1] = Len(s) + 1
      BY <1>1, <1>2, <1>4, <2>1, <2>3 DEF Cuts
    <3>2. ASSUME NEW k \in 1..Len(u) PROVE u[k] = w[Len(s) + 1 + k]
      <4>1. Len(s) + 1 + k \in 1..Len(w) /\ Len(s) + 1 + k > Len(s) + 1 /\ Len(s) + 1 + k - (Len(s) + 1) = k
        BY <1>3
      <4>2. QED
        BY <1>3, <4>1
    <3>3. At(u, w, Len(s) + 1)
      BY <1>3, <3>2 DEF At
    <3>4. QED
      BY <1>3, <3>1, <3>3
  <2>4. QED
    BY <1>2, <2>2, <2>3
<1>8. \E g \in [0..(n + 1) -> Nat] :
         /\ Cuts(g, n + 1, w, c)
         /\ \A i \in 1..(n + 1) : g[i - 1] + Len(r[i]) + 1 = g[i] /\ At(r[i], w, g[i - 1])
  <2>1. f \in [0..(n + 1) -> Nat]
    BY <1>6 DEF Cuts
  <2> HIDE DEF f
  <2>2. QED
    BY <1>6, <1>7, <2>1
<1>9. Parts(w, c, r)
  BY <1>4, <1>8 DEF Parts
<1> QED BY <1>9 DEF w, r

\* The characters of a suffix.
LEMMA SuffixFacts ==
  ASSUME NEW s \in Text, NEW m \in 1..(Len(s) + 1)
  PROVE  /\ Suffix(s, m) \in Text /\ Len(Suffix(s, m)) = Len(s) - m + 1
         /\ \A k \in 1..(Len(s) - m + 1) : Suffix(s, m)[k] = s[m - 1 + k]
<1>1. Len(s) \in Nat /\ \A k \in 1..Len(s) : s[k] \in Char
  BY LenProperties, ElementOfSeq DEF Text
<1>2. PICK n \in Nat : n = Len(s) - m + 1
  BY <1>1
<1>3. Suffix(s, m) = [k \in 1..n |-> s[m + k - 1]]
  BY <1>1, <1>2 DEF Suffix
<1>4. \A k \in 1..n : m + k - 1 = m - 1 + k /\ s[m + k - 1] \in Char
  <2>1. SUFFICES ASSUME NEW k \in 1..n PROVE m + k - 1 = m - 1 + k /\ m + k - 1 \in 1..Len(s)
    BY <1>1
  <2>2. QED
    BY <1>1, <1>2
<1>5. [k \in 1..n |-> s[m + k - 1]] \in Text /\ Len([k \in 1..n |-> s[m + k - 1]]) = n
  BY <1>4, IsASeq DEF Text
<1> QED BY <1>2, <1>3, <1>4, <1>5

\* The characters of a prefix.
LEMMA FrontFacts ==
  ASSUME NEW s \in Text, NEW m \in 0..Len(s)
  PROVE  /\ SubSeq(s, 1, m) \in Text /\ Len(SubSeq(s, 1, m)) = m
         /\ \A k \in 1..m : SubSeq(s, 1, m)[k] = s[k]
BY SubSeqProperties, LenProperties DEF Text

\* What is before the first separator is the first part, and what follows it
\* has the others.
LEMMA FirstPart ==
  ASSUME NEW s \in Text, NEW c \in Char, NEW t, Parts(s, c, t),
         NEW k \in 1..Len(s), s[k] = c, \A j \in 1..(k - 1) : s[j] # c
  PROVE  /\ Len(t) > 1 /\ t[1] = SubSeq(s, 1, k - 1)
         /\ Parts(Suffix(s, k + 1), c, Tail(t))
<1> DEFINE n == Len(t)
           v == Suffix(s, k + 1)
           r == Tail(t)
<1>1. PICK e \in [0..n -> Nat] : /\ Cuts(e, n, s, c)
                                 /\ \A i \in 1..n : e[i - 1] + Len(t[i]) + 1 = e[i] /\ At(t[i], s, e[i - 1])
  BY DEF Parts
<1>2. n \in Nat \ {0} /\ t \in Seq(Text) /\ \A i \in 1..n : t[i] \in Text
  BY <1>1, ElementOfSeq DEF Cuts, Parts
<1>3. Len(s) \in Nat /\ \A i \in 0..n : e[i] \in Nat /\ (i < n => e[i] <= Len(s)) /\ (0 < i => e[i] > 0)
  BY <1>1, CutsIn
<1>4. n > 1 /\ e[1] = k
  <2>1. PICK i \in 1..(n - 1) : e[i] = k
    BY <1>1 DEF Cuts
  <2>2. n > 1
    BY <1>2
  <2>3. CASE i = 1
    BY <2>1, <2>2, <2>3
  <2>4. CASE i > 1
    <3>1. e[1] < e[i] /\ 1 \in 1..(n - 1) /\ s[e[1]] = c
      BY <1>1, <1>2, <2>2, <2>4 DEF Cuts
    <3>2. e[1] \in 1..(k - 1)
      BY <1>2, <1>3, <2>1, <3>1
    <3>3. QED
      BY <3>1, <3>2
  <2>5. QED
    BY <2>2, <2>3, <2>4
<1>5. t[1] = SubSeq(s, 1, k - 1)
  <2>1. 1 \in 1..n /\ e[0] = 0 /\ 1 - 1 = 0
    BY <1>1, <1>2 DEF Cuts
  <2>2. PICK p \in Text : p = t[1] /\ 0 + Len(p) + 1 = k /\ At(p, s, 0)
    BY <1>1, <1>2, <1>4, <2>1
  <2>3. p = SubSeq(s, 0 + 1, 0 + Len(p)) /\ Len(p) \in Nat
    BY <2>2, PieceIs, LenProperties DEF Text
  <2>4. 0 + Len(p) = k - 1 /\ 0 + 1 = 1
    BY <2>2, <2>3
  <2>5. QED
    BY <2>2, <2>3, <2>4
<1>6. v \in Text /\ Len(v) = Len(s) - k /\ \A j \in 1..(Len(s) - k) : v[j] = s[k + j]
  <2>1. k + 1 \in 1..(Len(s) + 1) /\ Len(s) - (k + 1) + 1 = Len(s) - k /\ k + 1 - 1 = k
    BY <1>3
  <2>2. PICK m \in 1..(Len(s) + 1) : m = k + 1 /\ Len(s) - m + 1 = Len(s) - k /\ m - 1 = k
    BY <2>1
  <2>3. v = Suffix(s, m)
    BY <2>2
  <2> HIDE DEF v
  <2>4. /\ v \in Text /\ Len(v) = Len(s) - m + 1
        /\ \A j \in 1..(Len(s) - m + 1) : v[j] = s[m - 1 + j]
    BY <2>3, SuffixFacts
  <2>5. QED
    BY <2>2, <2>4
<1>7. r \in Seq(Text) /\ Len(r) = n - 1 /\ \A i \in 1..(n - 1) : r[i] = t[i + 1]
  <2>1. t # << >>
    BY <1>2, EmptySeq
  <2>2. QED
    BY <1>2, <2>1, HeadTailProperties
<1> HIDE DEF v, r
<1>8. PICK m \in Nat \ {0} : m = n - 1
  BY <1>2, <1>4
<1> DEFINE f == [i \in 0..m |-> e[i + 1] - k]
<1>9. \A i \in 0..m : /\ i + 1 \in 1..n /\ e[i + 1] \in Nat /\ e[i + 1] >= k /\ f[i] \in Nat /\ f[i] = e[i + 1] - k
                      /\ (i > 0 => e[i + 1] > k)
  <2>1. SUFFICES ASSUME NEW i \in 0..m
                 PROVE  /\ i + 1 \in 1..n /\ e[i + 1] \in Nat /\ e[i + 1] >= k /\ f[i] \in Nat /\ f[i] = e[i + 1] - k
                        /\ (i > 0 => e[i + 1] > k)
    OBVIOUS
  <2>2. i + 1 \in 1..n /\ f[i] = e[i + 1] - k /\ e[i + 1] \in Nat
    BY <1>2, <1>3, <1>8
  <2>3. ASSUME i > 0 PROVE e[1] < e[i + 1]
    <3>1. 1 \in 0..n /\ i + 1 \in 0..n /\ 1 < i + 1
      BY <1>2, <1>4, <1>8, <2>3
    <3>2. QED
      BY <1>1, <3>1 DEF Cuts
  <2>4. i = 0 => i + 1 = 1
    OBVIOUS
  <2>5. QED
    BY <1>4, <2>2, <2>3, <2>4
<1>10. Cuts(f, m, v, c)
  <2>1. f \in [0..m -> Nat]
    BY <1>9
  <2>2. f[0] = 0 /\ f[m] = Len(v) + 1
    <3>1. f[0] = e[1] - k /\ f[m] = e[n] - k
      BY <1>8, <1>9
    <3>2. e[n] = Len(s) + 1
      BY <1>1 DEF Cuts
    <3>3. QED
      BY <1>3, <1>4, <1>6, <3>1, <3>2
  <2>3. ASSUME NEW i \in 0..m, NEW j \in 0..m, i < j PROVE f[i] < f[j]
    <3>1. i + 1 \in 0..n /\ j + 1 \in 0..n /\ i + 1 < j + 1
      BY <1>8, <2>3
    <3>2. e[i + 1] < e[j + 1]
      BY <1>1, <3>1 DEF Cuts
    <3>3. QED
      BY <1>9, <3>2
  <2>4. ASSUME NEW i \in 1..(m - 1) PROVE v[f[i]] = c
    <3>1. i + 1 \in 1..(n - 1) /\ i \in 0..m /\ i > 0
      BY <1>8
    <3>2. s[e[i + 1]] = c /\ e[i + 1] <= Len(s) /\ e[i + 1] > k /\ f[i] = e[i + 1] - k /\ e[i + 1] \in Nat
      BY <1>1, <1>2, <1>3, <1>9, <3>1 DEF Cuts
    <3>5. PICK d \in Nat, x \in Nat : d = e[i + 1] /\ x = f[i] /\ d <= Len(s) /\ d > k /\ x = d - k
      BY <1>9, <3>1, <3>2
    <3>7. PICK z \in Nat : z = Len(s) /\ k \in 1..z /\ d <= z
      BY <1>3, <3>5
    <3>8. x \in 1..(z - k) /\ k + x = d
      <4>1. d \in Nat /\ x = d - k /\ x > 0 /\ k \in Nat /\ z \in Nat /\ d <= z
        BY <3>5, <3>7
      <4>2. QED
        BY <4>1
    <3>6. x \in 1..(Len(s) - k) /\ k + x = d
      BY <3>7, <3>8
    <3>3. f[i] \in 1..(Len(s) - k) /\ k + f[i] = e[i + 1]
      BY <3>5, <3>6
    <3>4. QED
      BY <1>6, <3>2, <3>3
  <2>5. ASSUME NEW j \in 1..Len(v), v[j] = c PROVE \E i \in 1..(m - 1) : f[i] = j
    <3>1. k + j \in 1..Len(s) /\ s[k + j] = c
      BY <1>3, <1>6, <2>5
    <3>2. PICK i \in 1..(n - 1) : e[i] = k + j
      BY <1>1, <3>1 DEF Cuts
    <3>3. i # 1
      BY <1>4, <3>2
    <3>4. PICK h \in 1..(m - 1) : h + 1 = i
      <4>1. i - 1 \in 1..(m - 1) /\ (i - 1) + 1 = i
        BY <1>2, <1>8, <3>3
      <4>2. QED
        BY <4>1
    <3>5. f[h] = j
      BY <1>9, <3>2, <3>4
    <3>6. QED
      BY <3>5
  <2> HIDE DEF f
  <2>6. QED
    BY <1>8, <2>1, <2>2, <2>3, <2>4, <2>5 DEF Cuts
<1>11. ASSUME NEW i \in 1..m PROVE f[i - 1] + Len(r[i]) + 1 = f[i] /\ At(r[i], v, f[i - 1])
  <2>1. i + 1 \in 1..n /\ i \in 1..(n - 1) /\ i - 1 \in 0..m /\ i \in 0..m /\ i + 1 - 1 = i /\ i - 1 + 1 = i
    BY <1>8
  <2>2. PICK p \in Text, a \in Nat, d \in Nat : p = t[i + 1] /\ a = e[i] /\ d = e[i + 1]
    BY <1>2, <1>9, <2>1
  <2>3. r[i] = p /\ f[i - 1] = a - k /\ f[i] = d - k /\ a >= k /\ d >= k
    BY <1>7, <1>9, <2>1, <2>2
  <2>4. a + Len(p) + 1 = d /\ At(p, s, a)
    BY <1>1, <2>1, <2>2
  <2>5. Len(p) \in Nat /\ a + Len(p) <= Len(s) /\ \A j \in 1..Len(p) : p[j] = s[a + j]
    BY <2>4, LenProperties DEF At, Text
  <2>6. PICK b \in Nat : b = a - k
    BY <2>3
  <2>7. b + Len(p) <= Len(v) /\ b + Len(p) + 1 = d - k
    BY <1>3, <1>6, <2>4, <2>5, <2>6
  <2>8. ASSUME NEW j \in 1..Len(p) PROVE p[j] = v[b + j]
    <3>1. b + j \in 1..(Len(s) - k) /\ k + (b + j) = a + j
      BY <1>3, <1>6, <2>5, <2>6, <2>7
    <3>2. QED
      BY <1>6, <2>5, <3>1
  <2>9. At(p, v, b)
    BY <2>7, <2>8 DEF At
  <2>10. QED
    BY <2>3, <2>6, <2>7, <2>9
<1>12. \E g \in [0..m -> Nat] :
         Cuts(g, m, v, c) /\ \A i \in 1..m : g[i - 1] + Len(r[i]) + 1 = g[i] /\ At(r[i], v, g[i - 1])
  <2>1. f \in [0..m -> Nat]
    BY <1>10 DEF Cuts
  <2> HIDE DEF f
  <2>2. QED
    BY <1>10, <1>11, <2>1
<1>13. Parts(v, c, r)
  BY <1>7, <1>8, <1>12 DEF Parts
<1> QED BY <1>4, <1>5, <1>13 DEF v, r

\* A text without a separator has no other parts.
LEMMA NoCut ==
  ASSUME NEW s \in Text, NEW c, NEW t, Parts(s, c, t), Free(s, c)
  PROVE  t = <<s>>
<1> DEFINE n == Len(t)
<1>1. PICK e \in [0..n -> Nat] : /\ Cuts(e, n, s, c)
                                 /\ \A i \in 1..n : e[i - 1] + Len(t[i]) + 1 = e[i] /\ At(t[i], s, e[i - 1])
  BY DEF Parts
<1>2. n \in Nat \ {0} /\ t \in Seq(Text) /\ \A i \in 1..n : t[i] \in Text
  BY <1>1, ElementOfSeq DEF Cuts, Parts
<1>3. Len(s) \in Nat /\ \A i \in 0..n : e[i] \in Nat /\ (i < n => e[i] <= Len(s)) /\ (0 < i => e[i] > 0)
  BY <1>1, CutsIn
<1>4. n = 1
  <2>1. CASE n > 1
    <3>1. s[e[1]] = c /\ e[1] \in 1..Len(s)
      BY <1>1, <1>2, <1>3, <2>1 DEF Cuts
    <3>2. QED
      BY <3>1 DEF Free
  <2>2. QED
    BY <1>2, <2>1
<1>5. PICK p \in Text : p = t[1] /\ 0 + Len(p) + 1 = Len(s) + 1 /\ At(p, s, 0)
  <2>1. 1 \in 1..n /\ e[0] = 0 /\ e[1] = Len(s) + 1 /\ 1 - 1 = 0
    BY <1>1, <1>4 DEF Cuts
  <2>2. QED
    BY <1>1, <1>2, <2>1
<1>6. p = SubSeq(s, 0 + 1, 0 + Len(p)) /\ Len(p) \in Nat
  BY <1>5, PieceIs, LenProperties DEF Text
<1>7. 0 + Len(p) = Len(s) /\ 0 + 1 = 1
  BY <1>3, <1>5, <1>6
<1>8. t[1] = s
  BY <1>5, <1>6, <1>7, SubSeqFull DEF Text
<1> QED BY <1>2, <1>4, <1>8

\* What std::find returns.
LEMMA FindFacts ==
  ASSUME NEW s \in Text, NEW c
  PROVE  /\ Find(s, c) \in 1..(Len(s) + 1) /\ (Find(s, c) <= Len(s) => s[Find(s, c)] = c)
         /\ \A j \in 1..(Find(s, c) - 1) : s[j] # c
         /\ Find(s, c) <= Len(s) <=> ~Free(s, c)
         /\ Contains(s, c) <=> ~Free(s, c)
<1> DEFINE I == {i \in 1..Len(s) : s[i] = c}
<1>1. Len(s) \in Nat
  BY LenProperties DEF Text
<1>2. Contains(s, c) <=> ~Free(s, c)
  BY DEF Contains, Free
<1>3. CASE Free(s, c)
  <2>1. Find(s, c) = Len(s) + 1
    BY <1>2, <1>3 DEF Find
  <2>2. \A j \in 1..Len(s) : s[j] # c
    BY <1>3 DEF Free
  <2>3. QED
    BY <1>1, <1>2, <1>3, <2>1, <2>2
<1>4. CASE ~Free(s, c)
  <2>1. I \subseteq Nat /\ I # {}
    BY <1>1, <1>4 DEF Free
  <2>2. PICK k \in I : \A j \in I : k <= j
    BY <2>1, SmallestNat
  <2>3. Find(s, c) = Min(I)
    BY <1>2, <1>4, <2>1 DEF Find, SelectInSeq
  <2>4. Min(I) = k
    BY <2>1, <2>2 DEF Min
  <2>5. k \in 1..Len(s) /\ s[k] = c /\ Find(s, c) = k
    BY <2>2, <2>3, <2>4
  <2>6. ASSUME NEW j \in 1..(k - 1) PROVE s[j] # c
    <3>1. j \in 1..Len(s) /\ ~(k <= j)
      BY <1>1, <2>5
    <3>2. QED
      BY <2>2, <3>1
  <2> HIDE DEF I
  <2>7. QED
    BY <1>1, <1>2, <1>4, <2>5, <2>6
<1> QED BY <1>3, <1>4

\* The characters the code names.
LEMMA KnownChars ==
  /\ kFieldSep \in Char /\ kMsgSep \in Char /\ kFieldSep # kMsgSep /\ kUnreadable \in Char
  /\ One \in Char /\ Zero \in Char /\ Colon # kFieldSep /\ Zero # kFieldSep /\ One # kFieldSep
  /\ kUnreadable \notin Control /\ kFieldSep \in Control /\ kMsgSep \in Control
  /\ Zero \notin Control /\ One \notin Control
BY MessagesAssumption DEF Char

\* Every text has parts.
LEMMA PartsExist ==
  ASSUME NEW s \in Text, NEW c \in Char
  PROVE  \E t : Parts(s, c, t)
<1> DEFINE Bad(n) == \E u \in Text : Len(u) = n /\ \A t : ~Parts(u, c, t)
           T == {n \in Nat : Bad(n)}
<1>1. SUFFICES ASSUME T # {} PROVE FALSE
  <2>1. Len(s) \in Nat
    BY LenProperties DEF Text
  <2>2. (\A t : ~Parts(s, c, t)) => Bad(Len(s))
    OBVIOUS
  <2> HIDE DEF Bad
  <2>3. QED
    BY <1>1, <2>1, <2>2
<1>2. PICK n \in T : \A m \in T : n <= m
  BY <1>1, SmallestNat
<1>3. PICK u \in Text : Len(u) = n /\ \A t : ~Parts(u, c, t)
  BY <1>2
<1>4. CASE n = 0
  <2>1. u = << >>
    BY <1>3, <1>4, EmptySeq DEF Text
  <2>2. Free(u, c)
    BY <2>1 DEF Free
  <2>3. QED
    BY <1>3, <2>2, OnePart
<1>5. CASE n > 0
  <2>1. n \in Nat /\ n - 1 \in Nat /\ n \in 1..Len(u) /\ n - 1 \in 0..Len(u)
    BY <1>2, <1>3, <1>5
  <2>2. PICK v \in Text : v = SubSeq(u, 1, n - 1) /\ Len(v) = n - 1
    BY <2>1, FrontFacts
  <2>3. PICK x \in Char : x = u[n]
    BY <2>1, ElementOfSeq DEF Text
  <2>4. <<x>> \in Text /\ << >> \in Text /\ Free(<< >>, c)
    BY DEF Text, Free
  <2>5. u = v \o <<x>>
    <3>1. u = SubSeq(u, 1, n)
      BY <1>3, SubSeqFull DEF Text
    <3>2. 1 \in 1..Len(u) /\ n \in 1..Len(u)
      BY <2>1
    <3>3. SubSeq(u, 1, n) = SubSeq(u, 1, n - 1) \o <<u[n]>>
      BY <3>2, SubSeqRecursiveSecond DEF Text
    <3>4. QED
      BY <2>2, <2>3, <3>1, <3>3
  <2>6. PICK t : Parts(v, c, t)
    <3>1. n - 1 \notin T
      BY <1>2, <2>1
    <3>2. ~Bad(n - 1)
      BY <2>1, <3>1
    <3>3. QED
      BY <2>2, <3>2
  <2>7. CASE x = c
    <3>1. Parts(v \o <<c>> \o << >>, c, Append(t, << >>))
      BY <2>4, <2>6, MoreParts
    <3>2. v \o <<c>> \o << >> = u
      BY <2>5, <2>7, ConcatEmptySeq DEF Text
    <3>3. QED
      BY <1>3, <3>1, <3>2
  <2>8. CASE x # c
    <3>1. Free(<<x>>, c)
      BY <2>8 DEF Free
    <3>2. Parts(v \o <<x>>, c, [t EXCEPT ![Len(t)] = @ \o <<x>>])
      BY <2>4, <2>6, <3>1, ExtendLast
    <3>3. QED
      BY <1>3, <2>5, <3>2
  <2>9. QED
    BY <2>7, <2>8
<1>6. n \in Nat
  BY <1>2
<1> QED BY <1>4, <1>5, <1>6

\* What is known of the place std::find returns is enough to know it.
LEMMA FindIs ==
  ASSUME NEW s \in Text, NEW c, NEW k \in 1..(Len(s) + 1), k <= Len(s) => s[k] = c,
         \A j \in 1..(k - 1) : s[j] # c
  PROVE  Find(s, c) = k
<1>1. PICK f \in 1..(Len(s) + 1) : /\ f = Find(s, c) /\ (f <= Len(s) => s[f] = c)
                                   /\ \A j \in 1..(f - 1) : s[j] # c
  BY FindFacts
<1>2. Len(s) \in Nat
  BY LenProperties DEF Text
<1>3. ~(f < k)
  <2>1. SUFFICES ASSUME f < k PROVE FALSE
    OBVIOUS
  <2>2. f \in 1..(k - 1) /\ f <= Len(s)
    BY <1>2, <2>1
  <2>3. QED
    BY <1>1, <2>2
<1>4. ~(k < f)
  <2>1. SUFFICES ASSUME k < f PROVE FALSE
    OBVIOUS
  <2>2. k \in 1..(f - 1) /\ k <= Len(s)
    BY <1>2, <2>1
  <2>3. QED
    BY <1>1, <2>2
<1> QED BY <1>1, <1>2, <1>3, <1>4

\* The characters of a tail.
LEMMA TailText ==
  ASSUME NEW s \in Text, s # << >>
  PROVE  /\ Tail(s) \in Text /\ Len(Tail(s)) = Len(s) - 1 /\ Len(s) > 0
         /\ \A j \in 1..(Len(s) - 1) : Tail(s)[j] = s[j + 1]
BY HeadTailProperties, LenProperties, EmptySeq DEF Text

\* The second field of a message, with the colon in front of it.
LEMMA DirField ==
  ASSUME NEW m \in Text, NEW sep \in 1..Len(m), NEW f \in Text, Free(f, kFieldSep), At(f, m, sep),
         sep + Len(f) + 1 <= Len(m) => m[sep + Len(f) + 1] = kFieldSep
  PROVE  LET colon == sep < Len(m) /\ m[sep + 1] = Colon
             begin == IF colon THEN sep + 2 ELSE sep + 1
             end == begin + Find(Suffix(m, begin), kFieldSep) - 1
         IN  /\ colon <=> f # << >> /\ f[1] = Colon
             /\ end = sep + Len(f) + 1
             /\ SubSeq(m, begin, end - 1) = IF colon THEN Tail(f) ELSE f
<1> DEFINE colon == sep < Len(m) /\ m[sep + 1] = Colon
           begin == IF colon THEN sep + 2 ELSE sep + 1
           end == begin + Find(Suffix(m, begin), kFieldSep) - 1
<1>1. PICK l \in Nat, z \in Nat : l = Len(f) /\ z = Len(m)
  BY LenProperties DEF Text
<1>2. sep \in 1..z /\ sep + l <= z /\ \A j \in 1..l : f[j] = m[sep + j] /\ f[j] # kFieldSep
  BY <1>1 DEF At, Free
<1>3. sep + l + 1 <= z => m[sep + l + 1] = kFieldSep
  BY <1>1
<1>4. colon <=> f # << >> /\ f[1] = Colon
  <2>1. ASSUME colon PROVE l > 0
    <3>1. sep + 1 <= z /\ m[sep + 1] # kFieldSep
      BY <1>1, <1>2, <2>1, KnownChars
    <3>2. l # 0
      BY <1>2, <1>3, <3>1
    <3>3. QED
      BY <3>2
  <2>2. ASSUME l > 0 PROVE f # << >> /\ f[1] = m[sep + 1] /\ sep < z
    <3>1. 1 \in 1..l
      BY <2>2
    <3>2. QED
      BY <1>1, <1>2, <2>2, <3>1
  <2>3. f # << >> => l > 0
    BY <1>1, EmptySeq DEF Text
  <2>4. QED
    BY <1>1, <2>1, <2>2, <2>3
<1>5. PICK o \in {0, 1} : begin = sep + 1 + o /\ o <= l /\ (o = 1 <=> colon)
  <2>1. f # << >> => l > 0
    BY <1>1, EmptySeq DEF Text
  <2>2. QED
    BY <1>4, <2>1
<1>6. PICK b \in 1..(Len(m) + 1) : b = begin /\ b = sep + 1 + o
  BY <1>1, <1>2, <1>5
<1> HIDE DEF colon, begin
<1>7. PICK v \in Text : /\ v = Suffix(m, begin) /\ Len(v) = z - b + 1
                        /\ \A k \in 1..(z - b + 1) : v[k] = m[b - 1 + k]
  BY <1>1, <1>6, SuffixFacts
<1>8. Find(v, kFieldSep) = l - o + 1
  <2>1. l - o + 1 \in 1..(Len(v) + 1)
    BY <1>2, <1>5, <1>6, <1>7
  <2>2. ASSUME l - o + 1 <= Len(v) PROVE v[l - o + 1] = kFieldSep
    <3>1. l - o + 1 \in 1..(z - b + 1) /\ b - 1 + (l - o + 1) = sep + l + 1 /\ sep + l + 1 <= z
      BY <1>2, <1>5, <1>6, <1>7, <2>1, <2>2
    <3>2. QED
      BY <1>3, <1>7, <3>1
  <2>3. ASSUME NEW j \in 1..(l - o + 1 - 1) PROVE v[j] # kFieldSep
    <3>1. j \in 1..(z - b + 1) /\ o + j \in 1..l /\ b - 1 + j = sep + (o + j)
      BY <1>2, <1>5, <1>6, <1>7
    <3>2. v[j] = m[sep + (o + j)] /\ m[sep + (o + j)] = f[o + j] /\ f[o + j] # kFieldSep
      BY <1>2, <1>7, <3>1
    <3>3. QED
      BY <3>2
  <2>4. QED
    BY <2>1, <2>2, <2>3, FindIs
<1>9. end = sep + l + 1
  <2>1. end = b + (l - o + 1) - 1
    BY <1>6, <1>7, <1>8
  <2>2. QED
    BY <1>5, <1>6, <2>1
<1> HIDE DEF end
<1>10. SubSeq(m, begin, end - 1) = [i \in 1..(l - o) |-> m[b + i - 1]]
  <2>1. end - 1 - b + 1 = l - o
    BY <1>5, <1>6, <1>9
  <2>2. SubSeq(m, b, end - 1) = [i \in 1..(end - 1 - b + 1) |-> m[b + i - 1]]
    BY <1>9
  <2>3. QED
    BY <1>6, <2>1, <2>2
<1>11. \A i \in 1..(l - o) : m[b + i - 1] = f[o + i]
  <2>1. SUFFICES ASSUME NEW i \in 1..(l - o) PROVE m[b + i - 1] = f[o + i]
    OBVIOUS
  <2>2. o + i \in 1..l /\ b + i - 1 = sep + (o + i)
    BY <1>5, <1>6
  <2>3. QED
    BY <1>2, <2>2
<1>12. CASE o = 0
  <2>1. f = [i \in 1..l |-> f[i]]
    BY <1>1, LenProperties DEF Text
  <2>2. \A i \in 1..l : o + i = i
    BY <1>12
  <2>3. l - o = l
    BY <1>12
  <2>4. SubSeq(m, begin, end - 1) = f
    BY <1>10, <1>11, <2>1, <2>2, <2>3
  <2>5. ~colon
    BY <1>5, <1>12
  <2>6. QED
    BY <1>1, <1>4, <1>9, <2>4, <2>5 DEF end, begin, colon
<1>13. CASE o = 1
  <2>1. Tail(f) \in Text /\ Len(Tail(f)) = l - 1 /\ \A j \in 1..(l - 1) : Tail(f)[j] = f[j + 1]
    BY <1>1, <1>4, <1>5, <1>13, TailText
  <2>2. Tail(f) = [i \in 1..(l - 1) |-> Tail(f)[i]]
    BY <2>1, LenProperties DEF Text
  <2>3. \A i \in 1..(l - 1) : Tail(f)[i] = f[o + i]
    BY <1>13, <2>1
  <2>7. l - o = l - 1 /\ \A i \in 1..(l - 1) : m[b + i - 1] = Tail(f)[i]
    BY <1>11, <1>13, <2>3
  <2>4. SubSeq(m, begin, end - 1) = Tail(f)
    BY <1>10, <2>2, <2>7
  <2>5. colon
    BY <1>5, <1>13
  <2>6. QED
    BY <1>1, <1>4, <1>9, <2>4, <2>5 DEF end, begin, colon
<1> QED BY <1>12, <1>13

\* A request with these fields.
Request(a, f, dotgit, diff) ==
    [id |-> a, dir |-> IF dotgit THEN Tail(f) ELSE f, from_dotgit |-> dotgit, diff |-> diff, ok |-> TRUE]
HasColon(f) == f # << >> /\ f[1] = Colon
Flags == {<<Zero>>, <<One>>}

\* The first piece of a text, and the pieces of what follows it.
FirstOf(s, c, t, k, a, r, u) ==
    /\ s[k] = c /\ Find(s, c) = k
    /\ a = SubSeq(s, 1, k - 1) /\ Len(a) = k - 1 /\ Free(a, c) /\ \A j \in 1..(k - 1) : a[j] = s[j]
    /\ r = Suffix(s, k + 1) /\ Len(r) = Len(s) - k /\ \A j \in 1..(Len(s) - k) : r[j] = s[k + j]
    /\ Parts(r, c, u) /\ Len(u) \in Nat \ {0}
    /\ Len(t) = Len(u) + 1 /\ t[1] = a /\ \A j \in 1..Len(u) : t[j + 1] = u[j]

\* A text is one part, or a first part and the parts of what follows it.
LEMMA HeadPart ==
  ASSUME NEW s \in Text, NEW c \in Char, NEW t, Parts(s, c, t)
  PROVE  \/ Free(s, c) /\ Len(t) = 1 /\ t[1] = s
         \/ ~Free(s, c) /\ \E k \in 1..Len(s), a \in Text, r \in Text, u \in Seq(Text) : FirstOf(s, c, t, k, a, r, u)
<1>1. CASE Free(s, c)
  BY <1>1, NoCut
<1>2. CASE ~Free(s, c)
  <2>1. PICK z \in Nat, k \in Nat : z = Len(s) /\ k \in 1..z /\ k = Find(s, c) /\ s[k] = c /\ \A j \in 1..(k - 1) : s[j] # c
    BY <1>2, FindFacts, LenProperties DEF Text
  <2>2. PICK x \in 1..(z + 1) : x = k + 1 /\ z - x + 1 = z - k /\ x - 1 = k
    BY <2>1
  <2>3. PICK r \in Text : r = Suffix(s, x) /\ Len(r) = z - x + 1 /\ \A j \in 1..(z - x + 1) : r[j] = s[x - 1 + j]
    BY <2>1, SuffixFacts
  <2>4. r = Suffix(s, k + 1) /\ Len(r) = z - k /\ \A j \in 1..(z - k) : r[j] = s[k + j]
    BY <2>2, <2>3
  <2>5. k - 1 \in 0..z
    BY <2>1
  <2>6. PICK a \in Text : a = SubSeq(s, 1, k - 1) /\ Len(a) = k - 1 /\ \A j \in 1..(k - 1) : a[j] = s[j]
    BY <2>1, <2>5, FrontFacts
  <2>7. Free(a, c)
    BY <2>1, <2>6 DEF Free
  <2>8. Len(t) > 1 /\ t[1] = a /\ Parts(r, c, Tail(t))
    <3>1. k \in 1..Len(s)
      BY <2>1
    <3>4. s[k] = c /\ \A j \in 1..(k - 1) : s[j] # c
      BY <2>1
    <3>2. Len(t) > 1 /\ t[1] = SubSeq(s, 1, k - 1) /\ Parts(Suffix(s, k + 1), c, Tail(t))
      BY <3>1, <3>4, FirstPart
    <3>3. QED
      BY <2>4, <2>6, <3>2
  <2>9. t \in Seq(Text) /\ Len(t) \in Nat
    BY LenProperties DEF Parts
  <2>10. PICK u \in Seq(Text) : u = Tail(t) /\ Len(u) = Len(t) - 1 /\ \A j \in 1..(Len(t) - 1) : u[j] = t[j + 1]
    <3>1. t # << >>
      BY <2>8, <2>9, EmptySeq
    <3>2. Tail(t) \in Seq(Text) /\ Len(Tail(t)) = Len(t) - 1 /\ \A j \in 1..(Len(t) - 1) : Tail(t)[j] = t[j + 1]
      BY <2>9, <3>1, HeadTailProperties
    <3>3. QED
      BY <3>2
  <2>11. Len(u) \in Nat \ {0} /\ Len(t) = Len(u) + 1 /\ \A j \in 1..Len(u) : t[j + 1] = u[j]
    BY <2>8, <2>9, <2>10
  <2>12. FirstOf(s, c, t, k, a, r, u)
    BY <2>1, <2>4, <2>6, <2>7, <2>8, <2>10, <2>11 DEF FirstOf
  <2>13. QED
    BY <1>2, <2>1, <2>12
<1> QED BY <1>1, <1>2

\* What a message means, from the number of its parts.
LEMMA MeantIs ==
  ASSUME NEW m \in Text, NEW t, Parts(m, kFieldSep, t)
  PROVE  /\ Len(t) \notin 2..3 => Meant(m) = NoRequest
         /\ Len(t) = 2 => Meant(m) = Request(t[1], t[2], HasColon(t[2]), TRUE)
         /\ Len(t) = 3 /\ t[3] \in Flags => Meant(m) = Request(t[1], t[2], HasColon(t[2]), t[3] = <<Zero>>)
         /\ Len(t) = 3 /\ t[3] \notin Flags => Meant(m) = NoRequest
<1> DEFINE dotgit == Len(t) > 1 /\ HasColon(t[2])
           plain == [id |-> t[1], dir |-> IF dotgit THEN Tail(t[2]) ELSE t[2], from_dotgit |-> dotgit,
                     diff |-> Len(t) = 2 \/ t[3] = <<Zero>>, ok |-> TRUE]
<1>1. SplitAt(m, kFieldSep) = t
  BY SplitIs
<1>2. Meant(m) = IF Len(t) \in 2..3 /\ (Len(t) = 3 => t[3] \in Flags) THEN plain ELSE NoRequest
  BY <1>1 DEF Meant, HasColon, Flags
<1>3. Len(t) = 2 => plain = Request(t[1], t[2], HasColon(t[2]), TRUE)
  <2>1. Len(t) = 2 => dotgit = HasColon(t[2]) /\ (Len(t) = 2 \/ t[3] = <<Zero>>) = TRUE
    BY DEF HasColon
  <2>2. QED
    BY <2>1 DEF Request
<1>4. Len(t) = 3 => plain = Request(t[1], t[2], HasColon(t[2]), t[3] = <<Zero>>)
  <2>1. Len(t) = 3 => dotgit = HasColon(t[2])
    BY DEF HasColon
  <2>2. Len(t) = 3 => (Len(t) = 2 \/ t[3] = <<Zero>>) = (t[3] = <<Zero>>)
    OBVIOUS
  <2>3. QED
    BY <2>1, <2>2 DEF Request
<1>5. (Len(t) = 2 => Len(t) \in 2..3 /\ Len(t) # 3) /\ (Len(t) = 3 => Len(t) \in 2..3)
  OBVIOUS
<1> HIDE DEF plain
<1> QED BY <1>2, <1>3, <1>4, <1>5

\* What a message is read for, with a field g from k + 1 to the separator at y.
ParsedAs(m, k, g, y) ==
    /\ y > Len(m) => ParseRequest(m) = Request(SubSeq(m, 1, k - 1), g, HasColon(g), TRUE)
    /\ y + 1 = Len(m) /\ m[y + 1] \in {Zero, One} =>
          ParseRequest(m) = Request(SubSeq(m, 1, k - 1), g, HasColon(g), m[y + 1] = Zero)
    /\ y <= Len(m) /\ ~(y + 1 = Len(m) /\ m[y + 1] \in {Zero, One}) => ParseRequest(m) = NoRequest

\* What ParseRequest reads, from where its second field ends.
LEMMA ParseIs ==
  ASSUME NEW m \in Text, NEW k \in 1..Len(m), Find(m, kFieldSep) = k,
         NEW g \in Text, Free(g, kFieldSep), At(g, m, k),
         NEW y \in Nat, y = k + Len(g) + 1, y <= Len(m) => m[y] = kFieldSep
  PROVE  ParsedAs(m, k, g, y)
<1> DEFINE colon == k < Len(m) /\ m[k + 1] = Colon
           begin == IF colon THEN k + 2 ELSE k + 1
           end == begin + Find(Suffix(m, begin), kFieldSep) - 1
           said(diff) == [id |-> SubSeq(m, 1, k - 1), dir |-> SubSeq(m, begin, end - 1),
                         from_dotgit |-> colon, diff |-> diff, ok |-> TRUE]
<1>1. PICK z \in Nat : z = Len(m) /\ k <= z
  BY LenProperties DEF Text
<1>2. ParseRequest(m) = IF k > Len(m) THEN NoRequest
                        ELSE IF end > Len(m) THEN said(TRUE)
                        ELSE IF end + 1 = Len(m) /\ m[end + 1] \in {Zero, One} THEN said(m[end + 1] = Zero)
                        ELSE NoRequest
  BY DEF ParseRequest
<1>3. /\ colon <=> HasColon(g)
      /\ end = y
      /\ SubSeq(m, begin, end - 1) = IF colon THEN Tail(g) ELSE g
  BY DirField DEF HasColon
<1>4. colon = HasColon(g)
  BY <1>3 DEF HasColon
<1> HIDE DEF colon, begin, end
<1>5. \A d : said(d) = Request(SubSeq(m, 1, k - 1), g, HasColon(g), d)
  BY <1>3, <1>4 DEF Request
<1>6. ParseRequest(m) = IF y > z THEN said(TRUE)
                        ELSE IF y + 1 = z /\ m[y + 1] \in {Zero, One} THEN said(m[y + 1] = Zero)
                        ELSE NoRequest
  BY <1>1, <1>2, <1>3
<1> HIDE DEF said
<1>10. (y + 1 = z => ~(y > z)) /\ (y <= z => ~(y > z))
  BY <1>1
<1>7. y > z => ParseRequest(m) = said(TRUE)
  BY <1>1, <1>6
<1>8. y + 1 = z /\ m[y + 1] \in {Zero, One} => ParseRequest(m) = said(m[y + 1] = Zero)
  BY <1>6, <1>10
<1>9. y <= z /\ ~(y + 1 = z /\ m[y + 1] \in {Zero, One}) => ParseRequest(m) = NoRequest
  BY <1>6, <1>10
<1>11. ASSUME y > z PROVE ParseRequest(m) = Request(SubSeq(m, 1, k - 1), g, HasColon(g), TRUE)
  BY <1>5, <1>7, <1>11
<1>12. ASSUME y + 1 = z, m[y + 1] \in {Zero, One}
       PROVE  ParseRequest(m) = Request(SubSeq(m, 1, k - 1), g, HasColon(g), m[y + 1] = Zero)
  BY <1>5, <1>8, <1>12
<1> QED BY <1>1, <1>9, <1>11, <1>12 DEF ParsedAs

\* A text that is one of the flags.
LEMMA OneChar ==
  ASSUME NEW q \in Text
  PROVE  q \in Flags <=> Len(q) = 1 /\ q[1] \in {Zero, One}
<1>1. \A x : Len(q) = 1 /\ q[1] = x => q = <<x>>
  BY LenProperties DEF Text
<1> QED BY <1>1 DEF Flags

\* A message is read for what it says.
LEMMA ParseRight ==
  ASSUME NEW m \in Text
  PROVE  ParseRequest(m) = Meant(m) /\ (Meant(m).ok => Meant(m).id \in Text)
<1>1. kFieldSep \in Char /\ Zero # kFieldSep /\ One # kFieldSep
  BY KnownChars
<1>2. PICK t : Parts(m, kFieldSep, t)
  BY <1>1, PartsExist
<1>3. CASE Free(m, kFieldSep) /\ Len(t) = 1
  <2>1. Meant(m) = NoRequest
    <3>1. Len(t) \notin 2..3
      BY <1>3
    <3>2. QED
      BY <1>2, <3>1, MeantIs
  <2>2. Find(m, kFieldSep) > Len(m)
    BY <1>3, FindFacts, LenProperties DEF Text
  <2>3. ParseRequest(m) = NoRequest
    BY <1>1, <2>2 DEF ParseRequest
  <2>4. QED
    BY <2>1, <2>3 DEF NoRequest
<1>4. CASE \E k \in 1..Len(m), a \in Text, r \in Text, u \in Seq(Text) : FirstOf(m, kFieldSep, t, k, a, r, u)
  <2>1. PICK k \in 1..Len(m), a \in Text, r \in Text, u \in Seq(Text) : FirstOf(m, kFieldSep, t, k, a, r, u)
    BY <1>4
  <2>2. /\ Find(m, kFieldSep) = k /\ a = SubSeq(m, 1, k - 1)
        /\ Len(r) = Len(m) - k /\ \A j \in 1..(Len(m) - k) : r[j] = m[k + j]
        /\ Parts(r, kFieldSep, u) /\ Len(u) \in Nat \ {0}
        /\ Len(t) = Len(u) + 1 /\ t[1] = a /\ \A j \in 1..Len(u) : t[j + 1] = u[j]
    BY <2>1 DEF FirstOf
  <2>3. PICK z \in Nat : z = Len(m) /\ k <= z /\ k > 0
    BY LenProperties DEF Text
  <2>4. CASE Free(r, kFieldSep) /\ Len(u) = 1 /\ u[1] = r
    <3>1. Len(t) = 2 /\ t[2] = r
      BY <2>2, <2>4
    <3>2. PICK y \in Nat : y = k + Len(r) + 1 /\ y > z
      BY <2>2, <2>3
    <3>3. At(r, m, k) /\ (y <= Len(m) => m[y] = kFieldSep)
      BY <2>2, <2>3, <3>2 DEF At
    <3>4. ParseRequest(m) = Request(a, r, HasColon(r), TRUE)
      <4>1. y > Len(m) => ParseRequest(m) = Request(SubSeq(m, 1, k - 1), r, HasColon(r), TRUE)
        <5>1. y \in Nat /\ y = k + Len(r) + 1 /\ (y <= Len(m) => m[y] = kFieldSep)
          BY <3>2, <3>3
        <5>2. Find(m, kFieldSep) = k /\ Free(r, kFieldSep) /\ At(r, m, k) /\ r \in Text /\ k \in 1..Len(m)
          BY <2>2, <2>4, <3>3
        <5>3. QED
          BY <5>1, <5>2, ParseIs DEF ParsedAs
      <4>2. QED
        BY <2>2, <2>3, <3>2, <4>1
    <3>5. Meant(m) = Request(a, r, HasColon(r), TRUE)
      <4>1. Meant(m) = Request(t[1], t[2], HasColon(t[2]), TRUE)
        BY <1>2, <3>1, MeantIs
      <4>2. QED
        BY <2>2, <3>1, <4>1
    <3>6. QED
      BY <3>4, <3>5 DEF Request
  <2>5. CASE \E h \in 1..Len(r), g \in Text, q \in Text, v \in Seq(Text) : FirstOf(r, kFieldSep, u, h, g, q, v)
    <3>1. PICK h \in 1..Len(r), g \in Text, q \in Text, v \in Seq(Text) : FirstOf(r, kFieldSep, u, h, g, q, v)
      BY <2>5
    <3>2. /\ r[h] = kFieldSep /\ Len(g) = h - 1 /\ Free(g, kFieldSep) /\ \A j \in 1..(h - 1) : g[j] = r[j]
          /\ Len(q) = Len(r) - h /\ \A j \in 1..(Len(r) - h) : q[j] = r[h + j]
          /\ Parts(q, kFieldSep, v) /\ Len(v) \in Nat \ {0}
          /\ Len(u) = Len(v) + 1 /\ u[1] = g /\ \A j \in 1..Len(v) : u[j + 1] = v[j]
      BY <3>1 DEF FirstOf
    <3>3. Len(r) = z - k /\ h \in 1..(z - k) /\ \A j \in 1..(z - k) : r[j] = m[k + j]
      BY <2>2, <2>3
    <3>4. Len(q) = z - k - h /\ \A j \in 1..(z - k - h) : q[j] = r[h + j] /\ h + j \in 1..(z - k) /\ k + (h + j) = k + h + j
      BY <2>3, <3>2, <3>3
    <3>5. \A j \in 1..(z - k - h) : q[j] = m[k + h + j]
      BY <3>3, <3>4
    <3>6. PICK y \in Nat : y = k + h /\ y = k + Len(g) + 1 /\ y <= z
      BY <2>3, <3>2, <3>3
    <3>7. m[y] = kFieldSep
      BY <1>1, <3>2, <3>3, <3>6
    <3>8. At(g, m, k)
      <4>1. k + Len(g) <= z /\ 1..Len(g) = 1..(h - 1) /\ \A j \in 1..(h - 1) : j \in 1..(z - k)
        BY <2>3, <3>2, <3>3
      <4>2. QED
        BY <2>3, <3>2, <3>3, <4>1 DEF At
    <3>9. Len(t) = Len(v) + 2 /\ t[2] = g /\ \A j \in 1..Len(v) : t[j + 2] = v[j]
      <4>1. Len(t) = Len(v) + 2 /\ 1 \in 1..Len(u) /\ 1 + 1 = 2
        BY <2>2, <3>2
      <4>4. t[2] = g
        BY <2>2, <3>2, <4>1
      <4>2. \A j \in 1..Len(v) : j + 1 \in 1..Len(u) /\ (j + 1) + 1 = j + 2
        BY <3>2
      <4>5. \A j \in 1..Len(v) : t[j + 2] = v[j]
        <5>1. SUFFICES ASSUME NEW j \in 1..Len(v) PROVE t[j + 2] = v[j]
          OBVIOUS
        <5>2. PICK i \in 1..Len(u) : i = j + 1 /\ i + 1 = j + 2
          BY <4>2
        <5>3. t[i + 1] = u[i] /\ u[j + 1] = v[j]
          BY <2>2, <3>2
        <5>4. QED
          BY <5>2, <5>3
      <4>3. QED
        BY <4>1, <4>4, <4>5
    <3>14. ParsedAs(m, k, g, y)
      <4>1. y \in Nat /\ y = k + Len(g) + 1 /\ (y <= Len(m) => m[y] = kFieldSep)
        BY <3>6, <3>7
      <4>2. Find(m, kFieldSep) = k /\ Free(g, kFieldSep) /\ At(g, m, k) /\ g \in Text /\ k \in 1..Len(m)
        BY <2>2, <3>2, <3>8
      <4>3. QED
        BY <4>1, <4>2, ParseIs
    <3>10. /\ y + 1 = Len(m) /\ m[y + 1] \in {Zero, One} <=> q \in Flags
           /\ y + 1 = Len(m) => q[1] = m[y + 1]
      <4>1. y + 1 = z <=> Len(q) = 1
        BY <2>3, <3>3, <3>4, <3>6
      <4>2. y + 1 = z => q[1] = m[y + 1]
        <5>1. y + 1 = z => 1 \in 1..(z - k - h) /\ k + h + 1 = y + 1
          BY <2>3, <3>3, <3>6
        <5>2. QED
          BY <3>5, <5>1
      <4>3. QED
        BY <2>3, <4>1, <4>2, OneChar
    <3>11. CASE q \in Flags
      <4>1. Free(q, kFieldSep)
        <5>1. Len(q) = 1 /\ q[1] # kFieldSep
          BY <1>1, <3>11, OneChar, KnownChars
        <5>2. QED
          BY <5>1 DEF Free
      <4>2. Len(v) = 1 /\ v[1] = q
        BY <1>1, <3>2, <4>1, HeadPart
      <4>3. Len(t) = 3 /\ t[3] = q
        BY <3>9, <4>2
      <4>8. Meant(m) = Request(t[1], t[2], HasColon(t[2]), t[3] = <<Zero>>)
        BY <1>2, <3>11, <4>3, MeantIs
      <4>4. Meant(m) = Request(a, g, HasColon(g), q = <<Zero>>)
        BY <2>2, <3>9, <3>11, <4>3, <4>8
      <4>5. ParseRequest(m) = Request(a, g, HasColon(g), m[y + 1] = Zero)
        BY <2>2, <3>10, <3>11, <3>14 DEF ParsedAs
      <4>6. (m[y + 1] = Zero) = (q = <<Zero>>)
        BY <3>10, <3>11 DEF Flags
      <4>7. ParseRequest(m) = Meant(m)
        BY <4>4, <4>5, <4>6
      <4>9. Meant(m).id = a
        BY <4>4 DEF Request
      <4>10. QED
        BY <4>7, <4>9
    <3>12. CASE q \notin Flags
      <4>1. ParseRequest(m) = NoRequest
        BY <2>3, <3>6, <3>10, <3>12, <3>14 DEF ParsedAs
      <4>2. Len(v) = 1 => v[1] = q
        <5>1. Free(q, kFieldSep) => v[1] = q
          BY <1>1, <3>2, HeadPart
        <5>2. ASSUME NEW i \in 1..Len(q), NEW b \in Text, NEW p \in Text, NEW w \in Seq(Text), FirstOf(q, kFieldSep, v, i, b, p, w)
              PROVE  Len(v) # 1
          BY <5>2 DEF FirstOf
        <5>3. QED
          BY <1>1, <3>2, <5>1, <5>2, HeadPart
      <4>3. Meant(m) = NoRequest
        <5>1. Len(t) \notin 2..3 \/ (Len(t) = 3 /\ t[3] = q)
          <6>1. CASE Len(v) = 1
            <7>1. Len(t) = 3 /\ 1 \in 1..Len(v) /\ 1 + 2 = 3
              BY <3>9, <6>1
            <7>2. t[1 + 2] = v[1]
              BY <3>9, <7>1
            <7>3. QED
              BY <4>2, <6>1, <7>1, <7>2
          <6>2. CASE Len(v) # 1
            <7>1. PICK w \in Nat \ {0} : w = Len(v) /\ w # 1 /\ Len(t) = w + 2
              BY <3>2, <3>9, <6>2
            <7>2. w + 2 \notin 2..3
              BY <7>1
            <7>3. QED
              BY <7>1, <7>2
          <6>3. QED
            BY <6>1, <6>2
        <5>2. QED
          BY <1>2, <3>12, <5>1, MeantIs
      <4>4. QED
        BY <4>1, <4>3 DEF NoRequest
    <3>13. QED
      BY <3>11, <3>12
  <2>6. QED
    BY <2>2, <2>4, <2>5, <1>1, HeadPart
<1>5. QED
  BY <1>1, <1>2, <1>3, <1>4, HeadPart

\* The elements of a sequence with one more.
LEMMA AppendIs ==
  ASSUME NEW S, NEW u \in Seq(S), NEW x \in S
  PROVE  /\ Append(u, x) \in Seq(S) /\ Len(u) \in Nat /\ Len(Append(u, x)) = Len(u) + 1
         /\ Append(u, x)[Len(u) + 1] = x /\ \A j \in 1..Len(u) : Append(u, x)[j] = u[j]
BY AppendProperties, LenProperties

\* Text with no separator goes to the last part, whose number stays.
LEMMA ExtendTo ==
  ASSUME NEW s \in Text, NEW c, NEW v \in Seq(Text), NEW p \in Text, NEW u \in Text,
         Parts(s, c, Append(v, p)), Free(u, c)
  PROVE  Parts(s \o u, c, Append(v, p \o u))
<1>1. PICK t : t = Append(v, p)
  OBVIOUS
<1>2. t \in Seq(Text) /\ Len(v) \in Nat /\ Len(t) = Len(v) + 1 /\ t[Len(v) + 1] = p /\ \A j \in 1..Len(v) : t[j] = v[j]
  BY <1>1, AppendIs
<1>3. PICK w \in Text : w = p \o u
  BY ConcatText
<1>4. PICK r : r = Append(v, w)
  OBVIOUS
<1>5. r \in Seq(Text) /\ Len(r) = Len(v) + 1 /\ r[Len(v) + 1] = w /\ \A j \in 1..Len(v) : r[j] = v[j]
  BY <1>4, AppendIs
<1>6. [t EXCEPT ![Len(t)] = @ \o u] = r
  <2>1. t = [j \in 1..Len(t) |-> t[j]] /\ r = [j \in 1..Len(r) |-> r[j]]
    BY <1>2, <1>5, LenProperties
  <2>2. PICK n \in Nat : n = Len(v) + 1 /\ Len(t) = n /\ Len(r) = n /\ t[n] = p /\ r[n] = w
    BY <1>2, <1>5
  <2>3. DOMAIN t = 1..n /\ DOMAIN r = 1..n
    BY <1>2, <1>5, <2>2, LenProperties
  <2>4. \A j \in 1..n : j # n => r[j] = t[j]
    <3>1. \A j \in 1..n : j # n => j \in 1..Len(v)
      BY <1>2, <2>2
    <3>2. QED
      BY <1>2, <1>5, <3>1
  <2>5. [t EXCEPT ![n] = @ \o u] = [j \in 1..n |-> IF j = n THEN w ELSE t[j]]
    BY <1>3, <2>2, <2>3
  <2>6. r = [j \in 1..n |-> IF j = n THEN w ELSE t[j]]
    BY <2>1, <2>2, <2>4
  <2>7. QED
    BY <2>2, <2>5, <2>6
<1>7. Parts(s \o u, c, [t EXCEPT ![Len(t)] = @ \o u])
  BY <1>1, ExtendLast
<1> QED BY <1>3, <1>4, <1>6, <1>7

\* The empty text, and those of one character.
LEMMA EmptyText ==
  /\ << >> \in Text /\ Len(<< >>) = 0
  /\ \A s \in Text : s \o << >> = s /\ << >> \o s = s
  /\ \A c : Free(<< >>, c)
  /\ \A x \in Char : <<x>> \in Text /\ Len(<<x>>) = 1 /\ <<x>>[1] = x
BY EmptySeq DEF Text, Free

\* A separator ends the last part.
LEMMA EndPart ==
  ASSUME NEW s \in Text, NEW c \in Char, NEW v \in Seq(Text), NEW u \in Text,
         Parts(s, c, Append(v, << >>)), Free(u, c)
  PROVE  Parts(s \o u \o <<c>>, c, Append(Append(v, u), << >>))
<1>1. << >> \o u = u /\ << >> \in Text
  BY EmptyText
<1>2. Parts(s \o u, c, Append(v, u))
  BY <1>1, ExtendTo
<1>3. PICK w \in Text : w = s \o u
  BY ConcatText
<1>4. Parts(w, c, Append(v, u))
  BY <1>2, <1>3
<1>5. Free(<< >>, c)
  BY EmptyText
<1>6. Parts(w \o <<c>> \o << >>, c, Append(Append(v, u), << >>))
  BY <1>1, <1>4, <1>5, MoreParts
<1>7. w \o <<c>> \in Text
  BY EmptyText, ConcatText
<1>8. w \o <<c>> \o << >> = w \o <<c>>
  BY <1>7, EmptyText
<1> QED BY <1>3, <1>6, <1>8

\* Texts can be joined in either order.
LEMMA Assoc ==
  ASSUME NEW s \in Text, NEW u \in Text, NEW w \in Text
  PROVE  s \o (u \o w) = (s \o u) \o w
<1>1. s \in Seq(Char) /\ u \in Seq(Char) /\ w \in Seq(Char)
  BY DEF Text
<1> QED BY <1>1, ConcatAssociative

\* Messages and fields are texts, and a message has no separator of messages.
LEMMA ShellText ==
  /\ \A m \in ShellMessages : m \in Text /\ Free(m, kMsgSep)
  /\ \A m \in FieldValues : m \in Text
<1>1. ASSUME NEW m \in ShellMessages \cup FieldValues PROVE m \in Text
  <2>1. m \in Seq(Range(m))
    BY MessagesAssumption
  <2>2. Range(m) \subseteq Char
    BY DEF Char
  <2>3. QED
    BY <2>1, <2>2 DEF Text
<1>2. ASSUME NEW m \in ShellMessages PROVE Free(m, kMsgSep)
  BY <1>1, FindFacts, MessagesAssumption
<1> QED BY <1>1, <1>2

\* SafePrint leaves no separator.
LEMMA PrintFacts ==
  ASSUME NEW s \in Text
  PROVE  /\ SafePrint(s) \in Text /\ Free(SafePrint(s), kFieldSep) /\ Free(SafePrint(s), kMsgSep)
<1>1. s \in [1..Len(s) -> Char] /\ Len(s) \in Nat /\ DOMAIN s = 1..Len(s)
  BY LenProperties DEF Text
<1>2. SafePrint(s) \in [1..Len(s) -> Char]
  BY <1>1, KnownChars DEF SafePrint
<1>3. SafePrint(s) \in Text /\ Len(SafePrint(s)) = Len(s)
  BY <1>1, <1>2 DEF Text
<1>4. \A k \in 1..Len(s) : SafePrint(s)[k] \notin Control
  BY <1>1, KnownChars DEF SafePrint
<1> QED BY <1>3, <1>4, KnownChars DEF Free

\* SafePrint leaves a flag as it is.
LEMMA PrintFlag ==
  ASSUME NEW x \in {Zero, One}
  PROVE  SafePrint(<<x>>) = <<x>> /\ <<x>> \in Text
<1>1. x \in Char /\ x \notin Control
  BY KnownChars
<1> QED BY <1>1, EmptyText DEF SafePrint


\* ConcatText, with names for its terms.
LEMMA Joined ==
  ASSUME NEW s \in Text, NEW u \in Text
  PROVE  \E w \in Text, l \in Nat, z \in Nat :
            /\ w = s \o u /\ l = Len(s) /\ z = Len(u) /\ Len(w) = l + z
            /\ \A k \in 1..l : w[k] = s[k]
            /\ \A k \in 1..z : w[l + k] = u[k]
<1>1. /\ s \o u \in Text /\ Len(s) \in Nat /\ Len(u) \in Nat /\ Len(s \o u) = Len(s) + Len(u)
      /\ \A k \in 1..Len(s) : (s \o u)[k] = s[k]
      /\ \A k \in 1..Len(u) : (s \o u)[Len(s) + k] = u[k]
  BY ConcatText
<1> QED BY <1>1, Zenon

\* What follows the first k characters.
LEMMA Rest ==
  ASSUME NEW s \in Text, NEW k \in Nat, k <= Len(s)
  PROVE  \E w \in Text : w = Suffix(s, k + 1) /\ Len(w) = Len(s) - k /\ \A j \in 1..(Len(s) - k) : w[j] = s[k + j]
<1>1. PICK x \in Nat, z \in Nat : z = Len(s) /\ x = k + 1 /\ z - x + 1 = z - k /\ x - 1 = k /\ x \in 1..(z + 1)
  <2>1. PICK z \in Nat : z = Len(s)
    BY LenProperties DEF Text
  <2>2. k + 1 \in Nat /\ z - (k + 1) + 1 = z - k /\ (k + 1) - 1 = k /\ k + 1 \in 1..(z + 1)
    BY <2>1
  <2>3. QED
    BY <2>1, <2>2, Zenon
<1>2. x \in 1..(Len(s) + 1)
  BY <1>1
<1>3. Suffix(s, x) \in Text /\ Len(Suffix(s, x)) = Len(s) - x + 1 /\ \A j \in 1..(Len(s) - x + 1) : Suffix(s, x)[j] = s[x - 1 + j]
  BY <1>2, SuffixFacts
<1>4. Suffix(s, x) \in Text /\ Len(Suffix(s, x)) = Len(s) - k /\ \A j \in 1..(Len(s) - k) : Suffix(s, x)[j] = s[k + j]
  BY <1>1, <1>3
<1> QED BY <1>1, <1>4

\* The elements of a tail.
LEMMA TailOf ==
  ASSUME NEW S, NEW v \in Seq(S), Len(v) > 0
  PROVE  \E w \in Seq(S) : w = Tail(v) /\ Len(w) = Len(v) - 1 /\ \A j \in 1..(Len(v) - 1) : w[j] = v[j + 1]
<1>1. v # << >>
  BY EmptySeq
<1>2. Tail(v) \in Seq(S) /\ Len(Tail(v)) = Len(v) - 1 /\ \A j \in 1..(Len(v) - 1) : Tail(v)[j] = v[j + 1]
  BY <1>1, HeadTailProperties
<1> QED BY <1>2, Zenon

\* Sequences with the same elements are the same.
LEMMA SameSeq ==
  ASSUME NEW S, NEW u \in Seq(S), NEW v \in Seq(S), NEW n \in Nat, Len(u) = n, Len(v) = n, \A j \in 1..n : u[j] = v[j]
  PROVE  u = v
<1>1. u = [j \in 1..n |-> u[j]] /\ v = [j \in 1..n |-> v[j]]
  BY LenProperties
<1> QED BY <1>1

\* Prefixes with the same characters are the same.
LEMMA SameFront ==
  ASSUME NEW s \in Text, NEW a \in Text, NEW n \in Nat, n <= Len(s), n <= Len(a), \A j \in 1..n : s[j] = a[j]
  PROVE  SubSeq(s, 1, n) = SubSeq(a, 1, n)
<1>1. n \in 0..Len(s) /\ n \in 0..Len(a)
  BY LenProperties DEF Text
<1>2. SubSeq(s, 1, n) \in Text /\ Len(SubSeq(s, 1, n)) = n /\ \A j \in 1..n : SubSeq(s, 1, n)[j] = s[j]
  BY <1>1, FrontFacts
<1>3. SubSeq(a, 1, n) \in Text /\ Len(SubSeq(a, 1, n)) = n /\ \A j \in 1..n : SubSeq(a, 1, n)[j] = a[j]
  BY <1>1, FrontFacts
<1>4. \A j \in 1..n : SubSeq(s, 1, n)[j] = SubSeq(a, 1, n)[j]
  BY <1>2, <1>3
<1>5. PICK u \in Text, v \in Text : u = SubSeq(s, 1, n) /\ v = SubSeq(a, 1, n)
  BY <1>2, <1>3
<1>6. Len(u) = n /\ Len(v) = n /\ \A j \in 1..n : u[j] = v[j]
  BY <1>2, <1>3, <1>4, <1>5
<1>7. u = v
  BY <1>6, SameSeq DEF Text
<1> QED BY <1>5, <1>7

\* What the daemon takes out of the pipe is the first message in it.
LEMMA TakeStep ==
  ASSUME NEW a \in Text, NEW p \in Text, NEW v \in Seq(Text), NEW rest \in Text,
         Parts(a \o p, kMsgSep, Append(v, rest)),
         NEW k \in 1..Len(a), a[k] = kMsgSep, \A j \in 1..(k - 1) : a[j] # kMsgSep
  PROVE  /\ Len(v) \in Nat \ {0} /\ SubSeq(a, 1, k - 1) = v[1] /\ v[1] \in Text
         /\ Suffix(a, k + 1) \in Text
         /\ Parts(Suffix(a, k + 1) \o p, kMsgSep, Append(Tail(v), rest))
<1>1. PICK s \in Text, za \in Nat, zp \in Nat :
         /\ s = a \o p /\ za = Len(a) /\ zp = Len(p) /\ Len(s) = za + zp
         /\ \A j \in 1..za : s[j] = a[j]
         /\ \A j \in 1..zp : s[za + j] = p[j]
  BY Joined
<1>2. PICK n \in Nat : n = Len(v)
  BY LenProperties
<1>3. PICK t \in Seq(Text) : t = Append(v, rest) /\ Len(t) = n + 1 /\ t[n + 1] = rest /\ \A j \in 1..n : t[j] = v[j]
  <2>1. /\ Append(v, rest) \in Seq(Text) /\ Len(Append(v, rest)) = n + 1
        /\ Append(v, rest)[n + 1] = rest /\ \A j \in 1..n : Append(v, rest)[j] = v[j]
    BY <1>2, AppendIs
  <2>2. QED
    BY <2>1, Zenon
<1>4. k \in 1..za /\ k \in 1..Len(s) /\ s[k] = kMsgSep /\ \A j \in 1..(k - 1) : s[j] # kMsgSep
  BY <1>1
<1>5. Parts(s, kMsgSep, t) /\ kMsgSep \in Char
  BY <1>1, <1>3, KnownChars
<1>6. /\ Len(t) > 1 /\ t[1] = SubSeq(s, 1, k - 1)
      /\ Parts(Suffix(s, k + 1), kMsgSep, Tail(t))
  BY <1>4, <1>5, FirstPart
<1>7. SubSeq(s, 1, k - 1) = SubSeq(a, 1, k - 1)
  <2>1. PICK i \in Nat : i = k - 1 /\ i <= Len(s) /\ i <= Len(a) /\ \A j \in 1..i : j \in 1..za
    BY <1>1, <1>4
  <2>2. \A j \in 1..i : s[j] = a[j]
    BY <1>1, <2>1
  <2>3. SubSeq(s, 1, i) = SubSeq(a, 1, i)
    BY <2>1, <2>2, SameFront
  <2>4. QED
    BY <2>1, <2>3
<1>8. n > 0 /\ v[1] = t[1] /\ v[1] \in Text
  <2>1. n > 0 /\ 1 \in 1..n
    BY <1>3, <1>6
  <2>2. v[1] \in Text
    BY <1>2, <2>1, ElementOfSeq
  <2>3. QED
    BY <1>3, <2>1, <2>2
<1>9. PICK b \in Text : b = Suffix(a, k + 1) /\ Len(b) = Len(a) - k /\ \A j \in 1..(Len(a) - k) : b[j] = a[k + j]
  <2>1. k \in Nat /\ k <= Len(a)
    BY <1>1, <1>4
  <2>2. QED
    BY <2>1, Rest
<1>10. PICK d \in Text : d = Suffix(s, k + 1) /\ Len(d) = Len(s) - k /\ \A j \in 1..(Len(s) - k) : d[j] = s[k + j]
  <2>1. k \in Nat /\ k <= Len(s)
    BY <1>1, <1>4
  <2>2. QED
    BY <2>1, Rest
<1>11. d = b \o p
  <2>1. PICK w \in Text, l \in Nat, z \in Nat :
            /\ w = b \o p /\ l = Len(b) /\ z = Len(p) /\ Len(w) = l + z
            /\ \A j \in 1..l : w[j] = b[j]
            /\ \A j \in 1..z : w[l + j] = p[j]
    BY Joined
  <2>2. z = zp /\ za = l + k /\ Len(d) = l + z /\ Len(s) - k = l + z /\ Len(a) - k = l
    BY <1>1, <1>4, <1>9, <1>10, <2>1
  <2>3. ASSUME NEW j \in 1..(l + z) PROVE d[j] = w[j]
    <3>1. d[j] = s[k + j]
      BY <1>10, <2>2
    <3>2. CASE j <= l
      <4>1. j \in 1..l /\ k + j \in 1..za /\ j \in 1..(Len(a) - k)
        BY <1>4, <2>2, <3>2
      <4>2. w[j] = b[j] /\ b[j] = a[k + j] /\ s[k + j] = a[k + j]
        BY <1>1, <1>9, <2>1, <4>1
      <4>3. QED
        BY <3>1, <4>2
    <3>3. CASE j > l
      <4>1. PICK i \in 1..zp : l + i = j /\ za + i = k + j
        <5>1. j - l \in 1..zp /\ l + (j - l) = j /\ za + (j - l) = k + j
          BY <1>4, <2>2, <3>3
        <5>2. QED
          BY <5>1
      <4>2. w[l + i] = p[i] /\ s[za + i] = p[i]
        BY <1>1, <2>1, <2>2
      <4>3. QED
        BY <3>1, <4>1, <4>2
    <3>4. QED
      BY <3>2, <3>3
  <2>5. d = w
    <3>1. l + z \in Nat
      BY <2>1
    <3>2. d \in Seq(Char) /\ w \in Seq(Char)
      BY DEF Text
    <3>3. Len(d) = l + z /\ Len(w) = l + z
      BY <2>1, <2>2
    <3>4. QED
      BY <2>3, <3>1, <3>2, <3>3, SameSeq
  <2>6. QED
    BY <2>1, <2>5
<1>12. Tail(t) = Append(Tail(v), rest)
  <2>1. PICK w \in Seq(Text) : w = Tail(v) /\ Len(w) = Len(v) - 1 /\ \A j \in 1..(Len(v) - 1) : w[j] = v[j + 1]
    BY <1>2, <1>8, TailOf
  <2>2. PICK l \in Nat : n = l + 1 /\ Len(w) = l /\ Len(v) - 1 = l
    <3>1. n - 1 \in Nat /\ n = (n - 1) + 1
      BY <1>8
    <3>2. QED
      BY <1>2, <2>1, <3>1
  <2>3. PICK q \in Seq(Text) : q = Tail(t) /\ Len(q) = Len(t) - 1 /\ \A j \in 1..(Len(t) - 1) : q[j] = t[j + 1]
    <3>1. Len(t) > 0
      BY <1>3
    <3>2. QED
      BY <3>1, TailOf
  <2>4. PICK r \in Seq(Text) : /\ r = Append(w, rest) /\ Len(r) = Len(w) + 1 /\ r[Len(w) + 1] = rest
                              /\ \A j \in 1..Len(w) : r[j] = w[j]
    <3>1. /\ Append(w, rest) \in Seq(Text) /\ Len(Append(w, rest)) = Len(w) + 1
          /\ Append(w, rest)[Len(w) + 1] = rest /\ \A j \in 1..Len(w) : Append(w, rest)[j] = w[j]
      BY AppendIs
    <3>2. QED
      BY <3>1, Zenon
  <2>5. Len(q) = l + 1 /\ Len(r) = l + 1 /\ Len(t) - 1 = l + 1
    BY <1>3, <2>2, <2>3, <2>4
  <2>6. ASSUME NEW j \in 1..(l + 1) PROVE q[j] = r[j]
    <3>1. q[j] = t[j + 1]
      BY <2>3, <2>5
    <3>2. CASE j = l + 1
      BY <1>3, <2>2, <2>4, <3>1, <3>2
    <3>3. CASE j # l + 1
      <4>1. j \in 1..l /\ j + 1 \in 1..n
        BY <2>2, <3>3
      <4>2. t[j + 1] = v[j + 1] /\ w[j] = v[j + 1] /\ r[j] = w[j]
        BY <1>3, <2>1, <2>2, <2>4, <4>1
      <4>3. QED
        BY <3>1, <4>2
    <3>4. QED
      BY <3>2, <3>3
  <2>7. q = r
    <3>1. l + 1 \in Nat
      OBVIOUS
    <3>2. QED
      BY <2>5, <2>6, <3>1, SameSeq
  <2>8. QED
    BY <2>1, <2>3, <2>4, <2>7
<1>13. Len(v) \in Nat \ {0} /\ SubSeq(a, 1, k - 1) = v[1]
  BY <1>2, <1>6, <1>7, <1>8
<1>14. Parts(b \o p, kMsgSep, Append(Tail(v), rest))
  BY <1>6, <1>10, <1>11, <1>12
<1> QED BY <1>8, <1>9, <1>13, <1>14

\* The messages that have no reading yet, and the readings there can be.
Unread == SubSeq(messages, Len(got) + 1, Len(messages))
Readings == {ParseRequest(m) : m \in Text}

\* The types of what the two processes keep.
MsgTypes ==
    /\ pipe \in Text /\ read_ \in Text /\ strm_ \in Text /\ stdout \in Text
    /\ reading \in {"enter", "select", "write", "exit"} /\ shell_open \in BOOLEAN /\ done_ \in BOOLEAN
    /\ messages \in Seq(ShellMessages) /\ got \in Seq(Readings)
    /\ answer_fields \in Seq(Text) /\ given \in Seq(Seq(Text))

\* What is in the buffer and in the pipe is the unread messages, and what the
\* shell left of one.
InPipe ==
    \E rest \in Text :
        /\ Parts(read_ \o pipe, kMsgSep, Append(Unread, rest))
        /\ shell_open => rest = << >>

\* The readings, and where the reader can be.
GotRight ==
    /\ Len(got) <= Len(messages) /\ \A k \in 1..Len(got) : got[k] = Meant(messages[k])
    /\ reading = "select" => Free(read_, kMsgSep)
    /\ reading = "exit" => Len(got) = Len(messages) /\ ~shell_open
    /\ reading = "write" => Len(got) > 0 /\ got[Len(got)].id \in Text

\* The answer that is being written.
AnswerRight ==
    ~done_ => /\ reading = "write" /\ Free(strm_, kMsgSep)
              /\ Parts(strm_, kFieldSep, <<SafePrint(AnswerId), <<One>>>> \o answer_fields)

\* What was written has the answers, one in each part.
Answered ==
    \E parts \in Seq(Text) :
        /\ Parts(stdout, kMsgSep, Append(parts, << >>)) /\ Len(parts) = Len(given)
        /\ \A k \in 1..Len(given) : Parts(parts[k], kFieldSep, given[k])

\* The inductive invariant of the messages.
MsgIInv == MsgTypes /\ InPipe /\ GotRight /\ AnswerRight /\ Answered

\* What was written after the first g messages.
LEMMA Since ==
  ASSUME NEW ms \in Seq(Text), NEW g \in Nat, g <= Len(ms)
  PROVE  \E n \in Nat, u \in Seq(Text) :
            /\ n + g = Len(ms) /\ u = SubSeq(ms, g + 1, Len(ms)) /\ Len(u) = n
            /\ \A k \in 1..n : u[k] = ms[g + k] /\ g + k \in 1..Len(ms)
<1>1. PICK b \in Nat : b = Len(ms)
  BY LenProperties
<1>2. PICK n \in Nat, a \in Nat : n = b - g /\ a = g + 1 /\ a \in 1..(b + 1) /\ b - a + 1 = n /\ n + g = b
  <2>1. b - g \in Nat /\ g + 1 \in 1..(b + 1) /\ b - (g + 1) + 1 = b - g /\ (b - g) + g = b
    BY <1>1
  <2>2. QED
    BY <2>1
<1>3. SubSeq(ms, a, b) = [k \in 1..(b - a + 1) |-> ms[a + k - 1]]
  OBVIOUS
<1>4. \A k \in 1..n : a + k - 1 \in 1..b /\ a + k - 1 = g + k
  BY <1>1, <1>2
<1>5. \A k \in 1..n : ms[a + k - 1] \in Text
  BY <1>1, <1>4, ElementOfSeq
<1>6. PICK u \in [1..n -> Text] : u = SubSeq(ms, a, b) /\ \A k \in 1..n : u[k] = ms[a + k - 1]
  BY <1>2, <1>3, <1>5
<1>7. u \in Seq(Text) /\ Len(u) = n
  <2>1. n \in Nat /\ u \in [1..n -> Text]
    BY <1>2, <1>6
  <2>2. QED
    BY <2>1
<1>8. \A k \in 1..n : u[k] = ms[g + k] /\ g + k \in 1..Len(ms)
  BY <1>1, <1>4, <1>6
<1>9. u = SubSeq(ms, g + 1, Len(ms)) /\ n + g = Len(ms)
  BY <1>1, <1>2, <1>6
<1> QED BY <1>7, <1>8, <1>9

\* Since, of the messages without a reading.
LEMMA UnreadFacts ==
  ASSUME MsgTypes, GotRight
  PROVE  /\ messages \in Seq(Text) /\ Len(messages) \in Nat /\ Len(got) \in Nat /\ Len(got) <= Len(messages)
         /\ Unread \in Seq(Text) /\ Len(Unread) = Len(messages) - Len(got)
         /\ \A k \in 1..Len(Unread) : Unread[k] = messages[Len(got) + k]
<1>1. Len(messages) \in Nat /\ Len(got) \in Nat /\ messages \in Seq(Text) /\ Len(got) <= Len(messages)
  BY ShellText, LenProperties DEF MsgTypes, GotRight
<1>2. PICK n \in Nat, u \in Seq(Text) :
            /\ n + Len(got) = Len(messages) /\ u = Unread /\ Len(u) = n
            /\ \A k \in 1..n : u[k] = messages[Len(got) + k]
  <2>1. \E n \in Nat, u \in Seq(Text) :
            /\ n + Len(got) = Len(messages) /\ u = SubSeq(messages, Len(got) + 1, Len(messages)) /\ Len(u) = n
            /\ \A k \in 1..n : u[k] = messages[Len(got) + k] /\ Len(got) + k \in 1..Len(messages)
    BY <1>1, Since
  <2>2. Unread = SubSeq(messages, Len(got) + 1, Len(messages))
    BY DEF Unread
  <2>3. QED
    BY <2>1, <2>2
<1> QED BY <1>1, <1>2

\* The invariant of the messages holds at first.
LEMMA MsgInitRight == MsgInit => MsgIInv
<1> SUFFICES ASSUME MsgInit PROVE MsgIInv
  OBVIOUS
<1>1. Free(<< >>, kMsgSep) /\ << >> \in Text /\ Append(<< >>, << >>) = << << >> >>
  BY EmptyText
<1>2. Parts(<< >>, kMsgSep, << << >> >>)
  BY <1>1, OnePart
<1>3. MsgTypes
  BY <1>1 DEF MsgTypes, MsgInit
<1>4. InPipe
  <2>1. Len(got) = 0 /\ Len(messages) = 0 /\ Unread = << >>
    BY DEF MsgInit, Unread
  <2>2. read_ \o pipe = << >>
    BY <1>1, EmptyText DEF MsgInit
  <2>3. Append(Unread, << >>) = << << >> >>
    BY <1>1, <2>1
  <2>4. QED
    BY <1>1, <1>2, <2>2, <2>3 DEF InPipe
<1>5. GotRight
  BY DEF GotRight, MsgInit
<1>6. AnswerRight
  BY DEF AnswerRight, MsgInit
<1>7. Answered
  <2>1. << >> \in Seq(Text) /\ Len(<< >>) = 0
    OBVIOUS
  <2>2. Parts(stdout, kMsgSep, Append(<< >>, << >>)) /\ Len(<< >>) = Len(given) /\ 1..Len(given) = {}
    BY <1>1, <1>2, <2>1 DEF MsgInit
  <2>3. QED
    BY <2>1, <2>2 DEF Answered
<1> QED BY <1>3, <1>4, <1>5, <1>6, <1>7 DEF MsgIInv

\* What the writer leaves alone.
LEMMA WriterKept ==
  ASSUME MsgIInv, writer' = writer, got' = got, reading' = reading
  PROVE  AnswerRight' /\ Answered'
<1>1. strm_' = strm_ /\ done_' = done_ /\ answer_fields' = answer_fields /\ stdout' = stdout /\ given' = given
  BY DEF writer
<1>2. AnswerRight'
  BY <1>1 DEF MsgIInv, AnswerRight, AnswerId
<1>3. Answered'
  BY <1>1 DEF MsgIInv, Answered
<1> QED BY <1>2, <1>3

\* A step of the reader, which is not at an answer.
LEMMA WriterIdle ==
  ASSUME MsgIInv, writer' = writer, reading # "write"
  PROVE  AnswerRight' /\ Answered'
<1>1. strm_' = strm_ /\ done_' = done_ /\ answer_fields' = answer_fields /\ stdout' = stdout /\ given' = given
  BY DEF writer
<1>2. AnswerRight'
  BY <1>1 DEF MsgIInv, AnswerRight
<1>3. Answered'
  BY <1>1 DEF MsgIInv, Answered
<1> QED BY <1>2, <1>3

\* WriteMessage puts one more message at the end of what is unread.
LEMMA WriteRight ==
  ASSUME MsgIInv, NEW m \in ShellMessages, WriteMessage(m)
  PROVE  MsgIInv'
<1>1. m \in Text /\ Free(m, kMsgSep) /\ kMsgSep \in Char
  BY ShellText, KnownChars
<1>2. /\ shell_open /\ pipe' = pipe \o m \o <<kMsgSep>> /\ messages' = Append(messages, m)
      /\ read_' = read_ /\ reading' = reading /\ shell_open' = shell_open /\ writer' = writer /\ got' = got
  BY DEF WriteMessage
<1>3. MsgTypes /\ GotRight /\ Len(got) <= Len(messages)
  BY DEF MsgIInv, GotRight
<1>4. MsgTypes'
  <2>1. pipe' \in Text
    BY <1>1, <1>2, <1>3, EmptyText, ConcatText DEF MsgTypes
  <2>2. messages' \in Seq(ShellMessages)
    BY <1>2, <1>3 DEF MsgTypes
  <2>3. QED
    BY <1>2, <1>3, <2>1, <2>2 DEF MsgTypes, writer
<1>5. PICK n \in Nat, g \in Nat : /\ n = Len(messages) /\ g = Len(got) /\ Len(messages') = n + 1 /\ Len(got') = g /\ g <= n
                                 /\ messages'[n + 1] = m /\ \A k \in 1..n : messages'[k] = messages[k]
  <2>1. Len(messages) \in Nat /\ Len(got) \in Nat
    BY <1>3, UnreadFacts
  <2>2. Len(messages') = Len(messages) + 1 /\ messages'[Len(messages) + 1] = m /\ \A k \in 1..Len(messages) : messages'[k] = messages[k]
    BY <1>2, <1>3, AppendIs DEF MsgTypes
  <2>3. QED
    BY <1>2, <1>3, <2>1, <2>2
<1>6. GotRight'
  <2>1. \A k \in 1..g : got'[k] = Meant(messages'[k])
    <3>1. SUFFICES ASSUME NEW k \in 1..g PROVE got[k] = Meant(messages'[k])
      BY <1>2
    <3>2. k \in 1..n /\ k \in 1..Len(got)
      BY <1>5
    <3>3. got[k] = Meant(messages[k])
      BY <1>3, <3>2 DEF GotRight
    <3>4. QED
      BY <1>5, <3>2, <3>3
  <2>2. g <= n + 1 /\ reading # "exit"
    BY <1>2, <1>3, <1>5 DEF GotRight
  <2>3. QED
    BY <1>2, <1>3, <1>5, <2>1, <2>2 DEF GotRight
<1>7. Unread' = Append(Unread, m)
  <2>1. messages \in Seq(Text) /\ messages' \in Seq(Text)
    BY <1>3, <1>4, ShellText DEF MsgTypes
  <2>2. PICK l \in Nat, w \in Seq(Text) : /\ l + g = n /\ w = Unread /\ Len(w) = l
                                         /\ \A k \in 1..l : w[k] = messages[g + k]
    <3>1. g <= Len(messages)
      BY <1>5
    <3>2. \E l \in Nat, w \in Seq(Text) :
            /\ l + g = Len(messages) /\ w = SubSeq(messages, g + 1, Len(messages)) /\ Len(w) = l
            /\ \A k \in 1..l : w[k] = messages[g + k] /\ g + k \in 1..Len(messages)
      BY <2>1, <3>1, Since
    <3>3. Unread = SubSeq(messages, g + 1, Len(messages)) /\ Len(messages) = n
      BY <1>5 DEF Unread
    <3>4. QED
      BY <3>2, <3>3
  <2>3. PICK h \in Nat, u \in Seq(Text) : /\ h + g = n + 1 /\ u = Unread' /\ Len(u) = h
                                         /\ \A k \in 1..h : u[k] = messages'[g + k]
    <3>1. g <= Len(messages')
      BY <1>5
    <3>2. \E h \in Nat, u \in Seq(Text) :
            /\ h + g = Len(messages') /\ u = SubSeq(messages', g + 1, Len(messages')) /\ Len(u) = h
            /\ \A k \in 1..h : u[k] = messages'[g + k] /\ g + k \in 1..Len(messages')
      BY <2>1, <3>1, Since
    <3>3. Unread' = SubSeq(messages', g + 1, Len(messages'))
      BY <1>5 DEF Unread
    <3>4. Len(messages') = n + 1
      BY <1>5
    <3>6. \E h \in Nat, u \in Seq(Text) :
            /\ h + g = n + 1 /\ u = Unread' /\ Len(u) = h
            /\ \A k \in 1..h : u[k] = messages'[g + k] /\ g + k \in 1..Len(messages')
      BY <3>2, <3>3, <3>4
    <3>5. QED
      BY <3>6
  <2>9. h = l + 1 /\ l + g = n
    <3>1. l \in Nat /\ l + g = n
      BY <2>2
    <3>2. h \in Nat /\ h + g = n + 1
      BY <2>3
    <3>3. n \in Nat /\ g \in Nat
      BY <1>5
    <3>4. QED
      BY <3>1, <3>2, <3>3
  <2>4. PICK r \in Seq(Text) : r = Append(w, m) /\ Len(r) = l + 1 /\ r[l + 1] = m /\ \A k \in 1..l : r[k] = w[k]
    <3>1. /\ Append(w, m) \in Seq(Text) /\ Len(Append(w, m)) = l + 1
          /\ Append(w, m)[l + 1] = m /\ \A k \in 1..l : Append(w, m)[k] = w[k]
      BY <1>1, <2>2, AppendIs
    <3>2. QED
      BY <3>1, Zenon
  <2>6. ASSUME NEW k \in 1..(l + 1) PROVE u[k] = r[k]
    <3>1. u[k] = messages'[g + k]
      BY <2>3, <2>9
    <3>2. CASE k = l + 1
      <4>1. g + k = n + 1
        BY <2>9, <3>2
      <4>2. QED
        BY <1>5, <2>4, <3>1, <3>2, <4>1
    <3>3. CASE k # l + 1
      <4>1. k \in 1..l /\ g + k \in 1..n
        BY <1>5, <2>2, <3>3
      <4>2. messages'[g + k] = messages[g + k] /\ r[k] = w[k] /\ w[k] = messages[g + k]
        BY <1>5, <2>2, <2>4, <4>1
      <4>3. QED
        BY <3>1, <4>2
    <3>4. QED
      BY <3>2, <3>3
  <2>7. u = r
    <3>1. l + 1 \in Nat
      OBVIOUS
    <3>2. QED
      BY <2>3, <2>4, <2>6, <2>9, <3>1, SameSeq
  <2>8. QED
    BY <2>2, <2>3, <2>4, <2>7
<1>8. InPipe'
  <2>1. PICK rest \in Text : Parts(read_ \o pipe, kMsgSep, Append(Unread, rest)) /\ rest = << >>
    BY <1>2 DEF MsgIInv, InPipe
  <2>2. PICK s \in Text : s = read_ \o pipe
    BY <1>3, ConcatText DEF MsgTypes
  <2>3. Unread \in Seq(Text)
    BY <1>3, UnreadFacts
  <2>4. Parts(s, kMsgSep, Append(Unread, << >>))
    BY <2>1, <2>2
  <2>5. Parts(s \o m \o <<kMsgSep>>, kMsgSep, Append(Append(Unread, m), << >>))
    BY <1>1, <2>3, <2>4, EndPart
  <2>6. read_ \o (pipe \o m \o <<kMsgSep>>) = s \o m \o <<kMsgSep>>
    <3>1. <<kMsgSep>> \in Text
      BY <1>1, EmptyText
    <3>2. pipe \in Text /\ read_ \in Text /\ pipe \o m \in Text
      BY <1>1, <1>3, ConcatText DEF MsgTypes
    <3>3. read_ \o ((pipe \o m) \o <<kMsgSep>>) = (read_ \o (pipe \o m)) \o <<kMsgSep>>
      BY <3>1, <3>2, Assoc
    <3>4. read_ \o (pipe \o m) = (read_ \o pipe) \o m
      BY <1>1, <3>2, Assoc
    <3>5. QED
      BY <2>2, <3>3, <3>4
  <2>7. Parts(read_' \o pipe', kMsgSep, Append(Unread', << >>)) /\ << >> \in Text
    BY <1>2, <1>7, <2>5, <2>6, EmptyText
  <2>8. QED
    BY <2>7 DEF InPipe
<1>9. AnswerRight' /\ Answered'
  BY <1>2, WriterKept
<1> QED BY <1>4, <1>6, <1>8, <1>9 DEF MsgIInv

\* The piece of a message the shell leaves has no separator.
LEMMA PieceFree ==
  ASSUME NEW m \in ShellMessages, NEW k \in 0..Len(m)
  PROVE  SubSeq(m, 1, k) \in Text /\ Free(SubSeq(m, 1, k), kMsgSep)
<1>1. m \in Text /\ Free(m, kMsgSep)
  BY ShellText
<1>2. SubSeq(m, 1, k) \in Text /\ Len(SubSeq(m, 1, k)) = k /\ \A j \in 1..k : SubSeq(m, 1, k)[j] = m[j]
  BY <1>1, FrontFacts
<1>3. \A j \in 1..k : j \in 1..Len(m)
  BY <1>1, LenProperties DEF Text
<1> QED BY <1>1, <1>2, <1>3 DEF Free

\* The piece of a message the shell leaves is not a message.
LEMMA CloseRight ==
  ASSUME MsgIInv, NEW x \in Text, Free(x, kMsgSep), CloseShell(x)
  PROVE  MsgIInv'
<1>1. /\ shell_open /\ shell_open' = FALSE /\ pipe' = pipe \o x
      /\ read_' = read_ /\ reading' = reading /\ writer' = writer /\ messages' = messages /\ got' = got
  BY DEF CloseShell
<1>2. MsgTypes /\ GotRight /\ pipe \in Text /\ read_ \in Text
  BY DEF MsgIInv, MsgTypes
<1>3. MsgTypes'
  <2>1. pipe' \in Text
    BY <1>1, <1>2, ConcatText
  <2>2. QED
    BY <1>1, <1>2, <2>1 DEF MsgTypes, writer
<1>4. GotRight'
  BY <1>1, <1>2 DEF GotRight
<1>5. InPipe'
  <2>1. PICK rest \in Text : Parts(read_ \o pipe, kMsgSep, Append(Unread, rest))
    BY DEF MsgIInv, InPipe
  <2>2. PICK s \in Text : s = read_ \o pipe
    BY <1>2, ConcatText
  <2>3. Unread \in Seq(Text)
    BY <1>2, UnreadFacts
  <2>4. Parts(s \o x, kMsgSep, Append(Unread, rest \o x))
    BY <2>1, <2>2, <2>3, ExtendTo
  <2>5. s \o x = read_' \o pipe'
    <3>1. read_ \o (pipe \o x) = (read_ \o pipe) \o x
      BY <1>2, Assoc
    <3>2. QED
      BY <1>1, <2>2, <3>1
  <2>6. rest \o x \in Text
    BY ConcatText
  <2>7. Unread' = Unread
    BY <1>1 DEF Unread
  <2>8. QED
    BY <1>1, <2>4, <2>5, <2>6, <2>7 DEF InPipe
<1>6. AnswerRight' /\ Answered'
  BY <1>1, WriterKept
<1> QED BY <1>3, <1>4, <1>5, <1>6 DEF MsgIInv

\* The reader waits, or gives up.
LEMMA WaitRight ==
  ASSUME MsgIInv, SelectPipe \/ TimesOut
  PROVE  MsgIInv'
<1>1. /\ reading \in {"enter", "select"} /\ reading' \in {"enter", "select"}
      /\ reading' = "select" => ~Contains(read_, kMsgSep)
      /\ pipe' = pipe /\ read_' = read_ /\ shell_open' = shell_open /\ writer' = writer /\ messages' = messages /\ got' = got
  BY DEF SelectPipe, TimesOut
<1>2. MsgTypes /\ GotRight /\ InPipe /\ read_ \in Text
  BY DEF MsgIInv, MsgTypes
<1>3. MsgTypes'
  BY <1>1, <1>2 DEF MsgTypes, writer
<1>4. GotRight'
  BY <1>1, <1>2, FindFacts DEF GotRight
<1>5. InPipe'
  BY <1>1, <1>2 DEF InPipe, Unread
<1>6. AnswerRight' /\ Answered'
  BY <1>1, WriterIdle
<1> QED BY <1>3, <1>4, <1>5, <1>6 DEF MsgIInv

\* At the end of the file no message is left, for one would be in the buffer.
LEMMA EofRight ==
  ASSUME MsgIInv, ReadsEof
  PROVE  MsgIInv'
<1>1. /\ reading = "select" /\ pipe = << >> /\ ~shell_open /\ reading' = "exit"
      /\ pipe' = pipe /\ read_' = read_ /\ shell_open' = shell_open /\ writer' = writer /\ messages' = messages /\ got' = got
  BY DEF ReadsEof
<1>2. MsgTypes /\ GotRight /\ InPipe /\ read_ \in Text
  BY DEF MsgIInv, MsgTypes
<1>3. MsgTypes'
  BY <1>1, <1>2 DEF MsgTypes, writer
<1>4. Len(got) = Len(messages)
  <2>1. PICK rest \in Text : Parts(read_ \o pipe, kMsgSep, Append(Unread, rest))
    BY <1>2 DEF InPipe
  <2>2. read_ \o pipe = read_ /\ Free(read_, kMsgSep)
    BY <1>1, <1>2, EmptyText DEF GotRight
  <2>3. Append(Unread, rest) = <<read_>>
    BY <1>2, <2>1, <2>2, NoCut
  <2>4. Unread \in Seq(Text) /\ Len(Unread) = Len(messages) - Len(got) /\ Len(messages) \in Nat /\ Len(got) \in Nat
    BY <1>2, UnreadFacts
  <2>5. Len(Append(Unread, rest)) = Len(Unread) + 1
    BY <2>4, AppendIs
  <2>6. Len(<<read_>>) = 1
    OBVIOUS
  <2>7. QED
    BY <2>3, <2>4, <2>5, <2>6
<1>5. GotRight'
  BY <1>1, <1>2, <1>4 DEF GotRight
<1>6. InPipe'
  BY <1>1, <1>2 DEF InPipe, Unread
<1>7. AnswerRight' /\ Answered'
  BY <1>1, WriterIdle
<1> QED BY <1>3, <1>5, <1>6, <1>7 DEF MsgIInv

\* The reader takes a message, wherever what it has read and the pipe meet.
LEMMA TakeRight ==
  ASSUME MsgIInv, reading \in {"enter", "select"},
         NEW a \in Text, NEW p \in Text, a \o p = read_ \o pipe,
         NEW k \in 1..Len(a), a[k] = kMsgSep, \A j \in 1..(k - 1) : a[j] # kMsgSep,
         TakeMessage(SubSeq(a, 1, k - 1)), read_' = Suffix(a, k + 1), pipe' = p,
         messages' = messages, shell_open' = shell_open, writer' = writer
  PROVE  MsgIInv'
<1>1. MsgTypes /\ GotRight
  BY DEF MsgIInv
<1>2. PICK rest \in Text : Parts(read_ \o pipe, kMsgSep, Append(Unread, rest)) /\ (shell_open => rest = << >>)
  BY DEF MsgIInv, InPipe
<1>3. PICK v \in Seq(Text) : v = Unread
  BY <1>1, UnreadFacts
<1>4. /\ Len(v) \in Nat \ {0} /\ SubSeq(a, 1, k - 1) = v[1] /\ v[1] \in Text
      /\ Suffix(a, k + 1) \in Text
      /\ Parts(Suffix(a, k + 1) \o p, kMsgSep, Append(Tail(v), rest))
  <2>1. Parts(a \o p, kMsgSep, Append(v, rest))
    BY <1>2, <1>3
  <2>2. QED
    BY <2>1, TakeStep
<1>5. PICK msg \in Text : msg = SubSeq(a, 1, k - 1) /\ msg = v[1]
  BY <1>4
<1>6. PICK said \in Readings : said = ParseRequest(msg) /\ said = Meant(msg) /\ (said.ok => said.id \in Text)
  BY ParseRight DEF Readings
<1>7. got' = Append(got, said) /\ (reading' = IF said.ok THEN "write" ELSE "enter")
  BY <1>5, <1>6 DEF TakeMessage
<1>8. PICK g \in Nat, n \in Nat : /\ g = Len(got) /\ n = Len(messages) /\ g + Len(v) = n
                                 /\ \A j \in 1..Len(v) : v[j] = messages[g + j]
  <2>1. /\ Len(messages) \in Nat /\ Len(got) \in Nat
        /\ Len(Unread) = Len(messages) - Len(got) /\ \A j \in 1..Len(Unread) : Unread[j] = messages[Len(got) + j]
    BY <1>1, UnreadFacts
  <2>2. Len(got) + Len(v) = Len(messages)
    BY <1>3, <2>1
  <2>3. QED
    BY <1>3, <2>1, <2>2
<1>9. g + 1 \in 1..n /\ msg = messages[g + 1]
  <2>1. 1 \in 1..Len(v) /\ g + 1 \in 1..n
    BY <1>4, <1>8
  <2>2. QED
    BY <1>5, <1>8, <2>1
<1>10. got' \in Seq(Readings) /\ Len(got') = g + 1 /\ got'[g + 1] = said /\ \A j \in 1..g : got'[j] = got[j]
  BY <1>1, <1>6, <1>7, <1>8, AppendIs DEF MsgTypes
<1>11. MsgTypes'
  <2>1. read_' \in Text /\ pipe' \in Text
    BY <1>4
  <2>2. reading' \in {"enter", "select", "write", "exit"}
    BY <1>7
  <2>3. QED
    BY <1>1, <1>10, <2>1, <2>2 DEF MsgTypes, writer
<1>12. GotRight'
  <2>1. \A j \in 1..(g + 1) : got'[j] = Meant(messages[j])
    <3>1. SUFFICES ASSUME NEW j \in 1..(g + 1) PROVE got'[j] = Meant(messages[j])
      OBVIOUS
    <3>2. CASE j = g + 1
      BY <1>6, <1>9, <1>10, <3>2
    <3>3. CASE j # g + 1
      <4>1. j \in 1..g
        BY <1>8, <3>3
      <4>2. QED
        BY <1>1, <1>8, <1>10, <4>1 DEF GotRight
    <3>4. QED
      BY <3>2, <3>3
  <2>2. reading' \in {"write", "enter"} /\ (reading' = "write" => said.ok)
    BY <1>7
  <2>3. g + 1 <= n /\ g + 1 > 0
    BY <1>8, <1>9
  <2>4. Len(got') <= Len(messages') /\ \A j \in 1..Len(got') : got'[j] = Meant(messages'[j])
    BY <1>8, <1>10, <2>1, <2>3
  <2>5. reading' = "write" => Len(got') > 0 /\ got'[Len(got')].id \in Text
    BY <1>6, <1>10, <2>2, <2>3
  <2>6. QED
    BY <2>2, <2>4, <2>5 DEF GotRight
<1>13. Unread' = Tail(v)
  <2>1. messages \in Seq(Text)
    BY <1>1, UnreadFacts
  <2>2. PICK l \in Nat, u \in Seq(Text) : /\ l + (g + 1) = n /\ u = Unread' /\ Len(u) = l
                                         /\ \A j \in 1..l : u[j] = messages[(g + 1) + j]
    <3>1. g + 1 \in Nat /\ g + 1 <= Len(messages)
      BY <1>8, <1>9
    <3>2. \E l \in Nat, u \in Seq(Text) :
            /\ l + (g + 1) = Len(messages) /\ u = SubSeq(messages, (g + 1) + 1, Len(messages)) /\ Len(u) = l
            /\ \A j \in 1..l : u[j] = messages[(g + 1) + j] /\ (g + 1) + j \in 1..Len(messages)
      BY <2>1, <3>1, Since
    <3>3. Unread' = SubSeq(messages, (g + 1) + 1, Len(messages)) /\ Len(messages) = n
      BY <1>8, <1>10 DEF Unread
    <3>4. QED
      BY <3>2, <3>3
  <2>3. PICK w \in Seq(Text) : w = Tail(v) /\ Len(w) = Len(v) - 1 /\ \A j \in 1..(Len(v) - 1) : w[j] = v[j + 1]
    <3>1. Len(v) > 0
      BY <1>4
    <3>2. QED
      BY <3>1, TailOf
  <2>4. Len(v) - 1 = l /\ Len(v) = l + 1
    <3>1. l \in Nat /\ l + (g + 1) = n
      BY <2>2
    <3>2. g \in Nat /\ n \in Nat /\ g + Len(v) = n /\ Len(v) \in Nat
      BY <1>4, <1>8
    <3>3. QED
      BY <3>1, <3>2
  <2>5. ASSUME NEW j \in 1..l PROVE u[j] = w[j]
    <3>1. j + 1 \in 1..Len(v) /\ (g + 1) + j = g + (j + 1) /\ j \in 1..(Len(v) - 1)
      BY <1>8, <2>2, <2>4
    <3>2. w[j] = v[j + 1] /\ v[j + 1] = messages[g + (j + 1)] /\ u[j] = messages[(g + 1) + j]
      BY <1>8, <2>2, <2>3, <3>1
    <3>3. QED
      BY <3>1, <3>2
  <2>6. Len(w) = l /\ Len(u) = l /\ l \in Nat
    BY <2>2, <2>3, <2>4
  <2>7. u = w
    BY <2>5, <2>6, SameSeq
  <2>8. QED
    BY <2>2, <2>3, <2>7
<1>14. InPipe'
  BY <1>2, <1>4, <1>13 DEF InPipe
<1>15. AnswerRight' /\ Answered'
  BY WriterIdle
<1> QED BY <1>11, <1>12, <1>14, <1>15 DEF MsgIInv

\* ReadBuffered takes the first message of the buffer.
LEMMA BufferedRight ==
  ASSUME MsgIInv, ReadBuffered
  PROVE  MsgIInv'
<1>1. read_ \in Text /\ pipe \in Text
  BY DEF MsgIInv, MsgTypes
<1>2. PICK k \in 1..Len(read_) : k = Find(read_, kMsgSep) /\ read_[k] = kMsgSep /\ \A j \in 1..(k - 1) : read_[j] # kMsgSep
  <2>1. ~Free(read_, kMsgSep)
    BY <1>1, FindFacts DEF ReadBuffered
  <2>2. PICK z \in Nat : z = Len(read_)
    BY <1>1, LenProperties DEF Text
  <2>3. Find(read_, kMsgSep) \in 1..(z + 1) /\ Find(read_, kMsgSep) <= z
    BY <1>1, <2>1, <2>2, FindFacts
  <2>4. Find(read_, kMsgSep) \in 1..z
    BY <2>2, <2>3
  <2>5. QED
    BY <1>1, <2>2, <2>4, FindFacts
<1>3. /\ reading = "enter" /\ TakeMessage(SubSeq(read_, 1, k - 1)) /\ read_' = Suffix(read_, k + 1)
      /\ pipe' = pipe /\ shell_open' = shell_open /\ writer' = writer /\ messages' = messages
  BY <1>2 DEF ReadBuffered
<1> QED BY <1>1, <1>2, <1>3, TakeRight

\* A text is its first n characters and the rest.
LEMMA CutText ==
  ASSUME NEW s \in Text, NEW n \in Nat, n <= Len(s)
  PROVE  \E b \in Text, d \in Text : /\ b = SubSeq(s, 1, n) /\ Len(b) = n /\ d = Suffix(s, n + 1) /\ b \o d = s
<1>1. PICK b \in Text : b = SubSeq(s, 1, n) /\ Len(b) = n /\ \A j \in 1..n : b[j] = s[j]
  <2>1. n \in 0..Len(s)
    BY LenProperties DEF Text
  <2>2. SubSeq(s, 1, n) \in Text /\ Len(SubSeq(s, 1, n)) = n /\ \A j \in 1..n : SubSeq(s, 1, n)[j] = s[j]
    BY <2>1, FrontFacts
  <2>3. QED
    BY <2>2, Zenon
<1>2. PICK d \in Text : d = Suffix(s, n + 1) /\ Len(d) = Len(s) - n /\ \A j \in 1..(Len(s) - n) : d[j] = s[n + j]
  BY Rest
<1>3. PICK w \in Text, l \in Nat, z \in Nat :
            /\ w = b \o d /\ l = Len(b) /\ z = Len(d) /\ Len(w) = l + z
            /\ \A k \in 1..l : w[k] = b[k]
            /\ \A k \in 1..z : w[l + k] = d[k]
  BY Joined
<1>4. l = n /\ Len(s) = n + z /\ Len(w) = n + z /\ Len(s) - n = z
  <2>1. Len(s) \in Nat
    BY LenProperties DEF Text
  <2>2. z = Len(s) - n /\ l = n /\ Len(w) = l + z
    BY <1>1, <1>2, <1>3
  <2>3. QED
    BY <2>1, <2>2
<1>5. ASSUME NEW j \in 1..(n + z) PROVE w[j] = s[j]
  <2>1. CASE j <= n
    <3>1. j \in 1..n
      BY <2>1
    <3>2. QED
      BY <1>1, <1>3, <1>4, <3>1
  <2>2. CASE j > n
    <3>1. z \in Nat
      BY <1>3
    <3>2. PICK i \in 1..z : i = j - n /\ n + i = j
      <4>1. j - n \in 1..z /\ n + (j - n) = j
        BY <2>2, <3>1
      <4>2. QED
        BY <4>1
    <3>3. QED
      <4>1. w[n + i] = d[i]
        BY <1>3, <1>4
      <4>2. d[i] = s[n + i]
        BY <1>2, <1>4
      <4>3. QED
        BY <3>2, <4>1, <4>2
  <2>3. z \in Nat
    BY <1>3
  <2>4. j <= n \/ j > n
    BY <2>3
  <2>5. QED
    BY <2>1, <2>2, <2>4
<1>6. w = s
  <2>1. n + z \in Nat
    BY <1>3
  <2>2. QED
    BY <1>3, <1>4, <1>5, <2>1, SameSeq DEF Text
<1> QED BY <1>1, <1>2, <1>3, <1>6

\* ReadBytes finds the end of a message in what is new, and it is the first
\* one there is.
LEMMA BytesRight ==
  ASSUME MsgIInv, NEW n \in 1..BufSize, ReadBytes(n)
  PROVE  MsgIInv'
<1>1. read_ \in Text /\ pipe \in Text /\ MsgTypes /\ GotRight /\ InPipe
  BY DEF MsgIInv, MsgTypes
<1>2. /\ reading = "select" /\ n <= Len(pipe) /\ pipe' = Suffix(pipe, n + 1)
      /\ shell_open' = shell_open /\ writer' = writer /\ messages' = messages
  BY DEF ReadBytes
<1>3. n \in Nat \ {0}
  BY MessagesAssumption
<1>4. PICK new \in Text, d \in Text : new = SubSeq(pipe, 1, n) /\ Len(new) = n /\ d = Suffix(pipe, n + 1) /\ new \o d = pipe
  BY <1>1, <1>2, <1>3, CutText
<1>5. PICK all \in Text, l \in Nat, z \in Nat :
         /\ all = read_ \o new /\ l = Len(read_) /\ z = Len(new) /\ Len(all) = l + z
         /\ \A k \in 1..l : all[k] = read_[k]
         /\ \A k \in 1..z : all[l + k] = new[k]
  BY <1>1, Joined
<1>6. all \o d = read_ \o pipe /\ pipe' = d /\ z = n
  <2>1. read_ \o (new \o d) = (read_ \o new) \o d
    <3>1. read_ \in Text /\ new \in Text /\ d \in Text
      BY <1>1, <1>4
    <3>2. QED
      BY <3>1, Assoc
  <2>2. read_ \o new = all /\ z = n
    BY <1>4, <1>5
  <2>3. new \o d = pipe /\ pipe' = d
    BY <1>2, <1>4
  <2>4. QED
    BY <2>1, <2>2, <2>3
<1>7. PICK e : e = Find(new, kMsgSep)
  OBVIOUS
<1>8. /\ e \in 1..(n + 1) /\ (e <= n => new[e] = kMsgSep) /\ \A j \in 1..(e - 1) : new[j] # kMsgSep
      /\ e <= n <=> ~Free(new, kMsgSep)
  <2>1. /\ e \in 1..(Len(new) + 1) /\ (e <= Len(new) => new[e] = kMsgSep) /\ \A j \in 1..(e - 1) : new[j] # kMsgSep
        /\ e <= Len(new) <=> ~Free(new, kMsgSep)
    BY <1>7, FindFacts
  <2>2. Len(new) = n
    BY <1>4
  <2>3. QED
    BY <2>1, <2>2
<1>9. Free(read_, kMsgSep)
  BY <1>1, <1>2 DEF GotRight
<1>10. CASE e > n
  <2>1. read_' = all /\ reading' = reading /\ got' = got
    BY <1>4, <1>5, <1>7, <1>10 DEF ReadBytes
  <2>2. Free(new, kMsgSep)
    BY <1>3, <1>8, <1>10
  <2>3. Free(all, kMsgSep)
    <3>1. SUFFICES ASSUME NEW j \in 1..(l + z) PROVE all[j] # kMsgSep
      BY <1>5 DEF Free
    <3>2. l \in Nat /\ z \in Nat
      BY <1>5
    <3>3. CASE j \in 1..l
      BY <1>5, <1>9, <3>3 DEF Free
    <3>4. CASE j \notin 1..l
      <4>1. j - l \in 1..z /\ l + (j - l) = j
        BY <3>2, <3>4
      <4>2. PICK i \in 1..z : l + i = j
        BY <4>1
      <4>3. QED
        BY <1>5, <2>2, <4>2 DEF Free
    <3>5. QED
      BY <3>3, <3>4
  <2>4. MsgTypes'
    BY <1>1, <1>2, <1>6, <2>1 DEF MsgTypes, writer
  <2>5. GotRight'
    BY <1>1, <1>2, <2>1, <2>3 DEF GotRight
  <2>6. InPipe'
    BY <1>1, <1>2, <1>6, <2>1 DEF InPipe, Unread
  <2>7. AnswerRight' /\ Answered'
    BY <1>2, WriterIdle
  <2>8. QED
    BY <2>4, <2>5, <2>6, <2>7 DEF MsgIInv
<1>11. CASE ~(e > n)
  <2>1. PICK k \in 1..(l + z) : k = l + e /\ e \in 1..z /\ k - 1 = Len(all) - (n - (e - 1)) /\ k - 1 = l + (e - 1)
    <3>1. l \in Nat /\ z \in Nat /\ Len(all) = l + z /\ z = n /\ e \in 1..(n + 1) /\ e <= n
      BY <1>3, <1>5, <1>6, <1>8, <1>11
    <3>2. l + e \in 1..(l + z) /\ e \in 1..z /\ (l + e) - 1 = Len(all) - (n - (e - 1)) /\ (l + e) - 1 = l + (e - 1)
      BY <3>1
    <3>3. QED
      BY <3>2
  <2>2. all[k] = kMsgSep
    <3>1. all[l + e] = new[e]
      BY <1>5, <2>1
    <3>2. new[e] = kMsgSep
      BY <1>3, <1>8, <1>11
    <3>3. QED
      BY <2>1, <3>1, <3>2
  <2>3. \A j \in 1..(k - 1) : all[j] # kMsgSep
    <3>1. SUFFICES ASSUME NEW j \in 1..(k - 1) PROVE all[j] # kMsgSep
      OBVIOUS
    <3>2. l \in Nat /\ z \in Nat
      BY <1>5
    <3>3. CASE j \in 1..l
      BY <1>5, <1>9, <3>3 DEF Free
    <3>4. CASE j \notin 1..l
      <4>1. j - l \in 1..(e - 1) /\ j - l \in 1..z /\ l + (j - l) = j
        BY <2>1, <3>2, <3>4
      <4>2. PICK i \in 1..(e - 1) : l + i = j /\ i \in 1..z
        BY <4>1
      <4>3. QED
        BY <1>5, <1>8, <4>2
    <3>5. QED
      BY <3>3, <3>4
  <2>4. PICK msg : msg = SubSeq(all, 1, k - 1)
    OBVIOUS
  <2>5. Len(msg) + 1 + 1 = k + 1
    <3>1. k - 1 \in 0..Len(all)
      BY <1>5, <2>1
    <3>2. Len(msg) = k - 1
      BY <2>4, <3>1, FrontFacts
    <3>3. QED
      BY <1>5, <2>1, <3>2
  <2>6. TakeMessage(msg) /\ read_' = Suffix(all, Len(msg) + 1 + 1)
    BY <1>4, <1>5, <1>7, <1>11, <2>1, <2>4 DEF ReadBytes, Erased
  <2>7. TakeMessage(SubSeq(all, 1, k - 1)) /\ read_' = Suffix(all, k + 1)
    BY <2>4, <2>5, <2>6
  <2>8. k \in 1..Len(all)
    BY <1>5
  <2>9. QED
    BY <1>2, <1>6, <2>2, <2>3, <2>7, <2>8, TakeRight
<1> QED BY <1>10, <1>11

\* A pair, made of its elements.
LEMMA PairIs ==
  ASSUME NEW x \in Text, NEW y \in Text
  PROVE  Append(<<x>>, y) = <<x, y>>
<1>1. PICK u \in Seq(Text) : u = <<x>> /\ Len(u) = 1 /\ u[1] = x
  <2>1. <<x>> \in Seq(Text) /\ Len(<<x>>) = 1 /\ <<x>>[1] = x
    OBVIOUS
  <2>2. QED
    BY <2>1, Zenon
<1>2. PICK v \in Seq(Text) : v = <<x, y>> /\ Len(v) = 2 /\ v[1] = x /\ v[2] = y
  <2>1. <<x, y>> \in Seq(Text) /\ Len(<<x, y>>) = 2 /\ <<x, y>>[1] = x /\ <<x, y>>[2] = y
    OBVIOUS
  <2>2. QED
    BY <2>1, Zenon
<1>3. PICK w \in Seq(Text) : w = Append(u, y) /\ Len(w) = 2 /\ w[1] = x /\ w[2] = y
  <2>1. /\ Append(u, y) \in Seq(Text) /\ Len(Append(u, y)) = Len(u) + 1
        /\ Append(u, y)[Len(u) + 1] = y /\ \A j \in 1..Len(u) : Append(u, y)[j] = u[j]
    BY AppendIs
  <2>2. Len(u) + 1 = 2 /\ 1 \in 1..Len(u)
    BY <1>1
  <2>3. QED
    BY <1>1, <2>1, <2>2
<1>4. \A j \in 1..2 : v[j] = w[j]
  BY <1>2, <1>3
<1>5. v = w
  BY <1>2, <1>3, <1>4, SameSeq
<1> QED BY <1>1, <1>2, <1>3, <1>5

\* The two fields an answer starts with.
LEMMA TwoFirst ==
  ASSUME NEW x \in Text, NEW y \in Text, NEW v \in Seq(Text), NEW w \in Text
  PROVE  /\ Append(<<x>>, y) = <<x, y>> /\ <<x, y>> \o << >> = <<x, y>> /\ <<x, y>> \o v \in Seq(Text)
         /\ <<x, y>> \o Append(v, w) = Append(<<x, y>> \o v, w)
<1>1. <<x, y>> \in Seq(Text) /\ <<w>> \in Seq(Text)
  OBVIOUS
<1>2. Append(<<x>>, y) = <<x, y>> /\ <<x, y>> \o << >> = <<x, y>>
  BY <1>1, PairIs, ConcatEmptySeq
<1>3. <<x, y>> \o v \in Seq(Text)
  BY <1>1, ConcatProperties
<1>4. Append(v, w) = v \o <<w>> /\ Append(<<x, y>> \o v, w) = (<<x, y>> \o v) \o <<w>>
  BY <1>3, AppendIsConcat
<1>5. <<x, y>> \o (v \o <<w>>) = (<<x, y>> \o v) \o <<w>>
  BY <1>1, ConcatAssociative
<1> QED BY <1>2, <1>3, <1>4, <1>5

\* A field after another.
LEMMA NextField ==
  ASSUME NEW s \in Text, NEW v \in Seq(Text), Parts(s, kFieldSep, v), Free(s, kMsgSep),
         NEW x \in Text, Free(x, kFieldSep), Free(x, kMsgSep)
  PROVE  /\ s \o (<<kFieldSep>> \o x) \in Text /\ Free(s \o (<<kFieldSep>> \o x), kMsgSep)
         /\ Parts(s \o (<<kFieldSep>> \o x), kFieldSep, Append(v, x))
<1>1. kFieldSep \in Char /\ kFieldSep # kMsgSep
  BY KnownChars
<1>2. PICK y \in Text : y = <<kFieldSep>> /\ Len(y) = 1 /\ y[1] = kFieldSep
  BY <1>1, EmptyText
<1>3. s \o (y \o x) = (s \o y) \o x
  BY Assoc
<1>4. PICK u \in Text : u = s \o y /\ Free(u, kMsgSep)
  <2>1. PICK u \in Text, l \in Nat, z \in Nat :
            /\ u = s \o y /\ l = Len(s) /\ z = Len(y) /\ Len(u) = l + z
            /\ \A k \in 1..l : u[k] = s[k]
            /\ \A k \in 1..z : u[l + k] = y[k]
    BY Joined
  <2>2. ASSUME NEW j \in 1..(l + 1) PROVE u[j] # kMsgSep
    <3>1. l \in Nat /\ z = 1 /\ u[l + 1] = y[1]
      BY <1>2, <2>1
    <3>2. j \in 1..l \/ j = l + 1
      BY <3>1
    <3>3. QED
      BY <1>1, <1>2, <2>1, <3>1, <3>2 DEF Free
  <2>3. Len(u) = l + 1
    BY <1>2, <2>1
  <2>4. QED
    BY <2>1, <2>2, <2>3 DEF Free
<1>5. PICK w \in Text, l \in Nat, z \in Nat :
         /\ w = u \o x /\ l = Len(u) /\ z = Len(x) /\ Len(w) = l + z
         /\ \A k \in 1..l : w[k] = u[k]
         /\ \A k \in 1..z : w[l + k] = x[k]
  BY Joined
<1>6. Free(w, kMsgSep)
  <2>1. ASSUME NEW j \in 1..(l + z) PROVE w[j] # kMsgSep
    <3>1. l \in Nat /\ z \in Nat
      BY <1>5
    <3>2. CASE j \in 1..l
      BY <1>4, <1>5, <3>2 DEF Free
    <3>3. CASE j \notin 1..l
      <4>1. j - l \in 1..z /\ l + (j - l) = j
        BY <3>1, <3>3
      <4>2. PICK i \in 1..z : l + i = j
        BY <4>1
      <4>3. QED
        BY <1>5, <4>2 DEF Free
    <3>4. QED
      BY <3>2, <3>3
  <2>2. QED
    BY <1>5, <2>1 DEF Free
<1>7. Parts(s \o <<kFieldSep>> \o x, kFieldSep, Append(v, x))
  BY <1>1, MoreParts
<1>8. s \o (<<kFieldSep>> \o x) = w
  BY <1>2, <1>3, <1>4, <1>5
<1>9. s \o <<kFieldSep>> \o x = w
  BY <1>2, <1>4, <1>5
<1> QED BY <1>6, <1>7, <1>8, <1>9

\* A text and a flag.
LEMMA FlagParts ==
  ASSUME NEW s \in Text, NEW x \in {Zero, One}
  PROVE  LET t == SafePrint(s) \o PrintField(<<x>>)
         IN  /\ t \in Text /\ Free(t, kMsgSep) /\ Parts(t, kFieldSep, <<SafePrint(s), <<x>>>>)
             /\ SafePrint(s) \in Text /\ <<x>> \in Text
<1>1. PICK f \in Text : f = SafePrint(s) /\ Free(f, kFieldSep) /\ Free(f, kMsgSep)
  BY PrintFacts
<1>2. PICK y \in Text : y = <<x>> /\ SafePrint(y) = y
  BY PrintFlag
<1>3. Free(y, kFieldSep) /\ Free(y, kMsgSep)
  BY <1>2, PrintFacts
<1>4. <<f>> \in Seq(Text) /\ Parts(f, kFieldSep, <<f>>)
  BY <1>1, OnePart
<1>5. /\ f \o (<<kFieldSep>> \o y) \in Text /\ Free(f \o (<<kFieldSep>> \o y), kMsgSep)
      /\ Parts(f \o (<<kFieldSep>> \o y), kFieldSep, Append(<<f>>, y))
  BY <1>1, <1>3, <1>4, NextField
<1>6. Append(<<f>>, y) = <<f, y>>
  BY PairIs
<1>7. SafePrint(s) \o PrintField(<<x>>) = f \o (<<kFieldSep>> \o y)
  BY <1>1, <1>2 DEF PrintField
<1> QED BY <1>1, <1>2, <1>5, <1>6, <1>7

\* What a step of the writer leaves alone.
LEMMA ReaderKept ==
  ASSUME MsgIInv, pipe' = pipe, read_' = read_, shell_open' = shell_open, messages' = messages, got' = got
  PROVE  /\ InPipe'
         /\ reading = "write" /\ reading' \in {"write", "enter"} => GotRight'
<1>1. InPipe'
  BY DEF MsgIInv, InPipe, Unread
<1>2. reading = "write" /\ reading' \in {"write", "enter"} => GotRight'
  BY DEF MsgIInv, GotRight
<1> QED BY <1>1, <1>2

\* BeginAnswer writes the first two fields.
LEMMA BeginRight ==
  ASSUME MsgIInv, BeginAnswer
  PROVE  MsgIInv'
<1>1. /\ reading = "write" /\ done_ /\ strm_' = SafePrint(AnswerId) \o PrintField(<<One>>) /\ done_' = FALSE
      /\ answer_fields' = << >> /\ pipe' = pipe /\ read_' = read_ /\ reading' = reading /\ shell_open' = shell_open
      /\ stdout' = stdout /\ messages' = messages /\ got' = got /\ given' = given
  BY DEF BeginAnswer
<1>2. MsgTypes /\ GotRight /\ Answered
  BY DEF MsgIInv
<1>3. AnswerId \in Text /\ AnswerId' = AnswerId
  BY <1>1, <1>2 DEF GotRight, AnswerId
<1>4. /\ strm_' \in Text /\ Free(strm_', kMsgSep) /\ Parts(strm_', kFieldSep, <<SafePrint(AnswerId), <<One>>>>)
      /\ SafePrint(AnswerId) \in Text /\ <<One>> \in Text
  BY <1>1, <1>3, FlagParts
<1>5. MsgTypes'
  <2>1. << >> \in Seq(Text)
    OBVIOUS
  <2>2. QED
    BY <1>1, <1>2, <1>4, <2>1 DEF MsgTypes
<1>6. AnswerRight'
  <2>1. <<SafePrint(AnswerId), <<One>>>> \o answer_fields' = <<SafePrint(AnswerId), <<One>>>>
    BY <1>1, <1>4
  <2>2. QED
    BY <1>1, <1>3, <1>4, <2>1 DEF AnswerRight
<1>7. Answered'
  BY <1>1, <1>2 DEF Answered
<1>8. InPipe' /\ GotRight'
  BY <1>1, ReaderKept
<1> QED BY <1>5, <1>6, <1>7, <1>8 DEF MsgIInv

\* PrintNext writes a field more.
LEMMA PrintRight ==
  ASSUME MsgIInv, NEW val \in FieldValues, PrintNext(val)
  PROVE  MsgIInv'
<1>1. /\ reading = "write" /\ ~done_ /\ strm_' = strm_ \o PrintField(val) /\ done_' = done_
      /\ answer_fields' = Append(answer_fields, SafePrint(val)) /\ pipe' = pipe /\ read_' = read_ /\ reading' = reading
      /\ shell_open' = shell_open /\ stdout' = stdout /\ messages' = messages /\ got' = got /\ given' = given
  BY DEF PrintNext
<1>2. MsgTypes /\ GotRight /\ Answered /\ AnswerRight /\ strm_ \in Text /\ answer_fields \in Seq(Text)
  BY DEF MsgIInv, MsgTypes
<1>3. AnswerId \in Text /\ AnswerId' = AnswerId
  BY <1>1, <1>2 DEF GotRight, AnswerId
<1>4. PICK x \in Text : x = SafePrint(val) /\ Free(x, kFieldSep) /\ Free(x, kMsgSep)
  BY ShellText, PrintFacts
<1>5. PICK f \in Text, y \in Text : f = SafePrint(AnswerId) /\ y = <<One>>
  BY <1>3, FlagParts
<1>6. PICK v \in Seq(Text) : v = <<f, y>> \o answer_fields
  BY <1>2, TwoFirst
<1>7. Parts(strm_, kFieldSep, v) /\ Free(strm_, kMsgSep)
  BY <1>1, <1>2, <1>5, <1>6 DEF AnswerRight
<1>8. strm_' = strm_ \o (<<kFieldSep>> \o x)
  BY <1>1, <1>4 DEF PrintField
<1>9. strm_' \in Text /\ Free(strm_', kMsgSep) /\ Parts(strm_', kFieldSep, Append(v, x))
  BY <1>2, <1>4, <1>7, <1>8, NextField
<1>10. Append(v, x) = <<f, y>> \o answer_fields'
  BY <1>1, <1>2, <1>4, <1>6, TwoFirst
<1>11. MsgTypes'
  <2>1. answer_fields' \in Seq(Text)
    BY <1>1, <1>2, <1>4, AppendIs
  <2>2. QED
    BY <1>1, <1>2, <1>9, <2>1 DEF MsgTypes
<1>12. AnswerRight'
  BY <1>1, <1>3, <1>5, <1>9, <1>10 DEF AnswerRight
<1>13. Answered'
  BY <1>1, <1>2 DEF Answered
<1>14. InPipe' /\ GotRight'
  BY <1>1, ReaderKept
<1> QED BY <1>11, <1>12, <1>13, <1>14 DEF MsgIInv

\* Dump writes an answer that has no separator of messages within.
LEMMA DumpRight ==
  ASSUME MsgIInv, reading = "write", NEW text \in Text, Free(text, kMsgSep),
         NEW answer \in Seq(Text), Parts(text, kFieldSep, answer), DumpAs(text, answer)
  PROVE  MsgIInv'
<1>1. /\ done_' = TRUE /\ stdout' = stdout \o text \o <<kMsgSep>> /\ given' = Append(given, answer)
      /\ strm_' = << >> /\ answer_fields' = << >> /\ reading' = "enter"
      /\ pipe' = pipe /\ read_' = read_ /\ shell_open' = shell_open /\ messages' = messages /\ got' = got
  BY DEF DumpAs
<1>2. MsgTypes /\ stdout \in Text /\ given \in Seq(Seq(Text))
  BY DEF MsgIInv, MsgTypes
<1>3. PICK parts \in Seq(Text) :
        /\ Parts(stdout, kMsgSep, Append(parts, << >>)) /\ Len(parts) = Len(given)
        /\ \A k \in 1..Len(given) : Parts(parts[k], kFieldSep, given[k])
  BY DEF MsgIInv, Answered
<1>4. Parts(stdout', kMsgSep, Append(Append(parts, text), << >>)) /\ kMsgSep \in Char
  BY <1>1, <1>2, <1>3, EndPart, KnownChars
<1>5. stdout' \in Text /\ given' \in Seq(Seq(Text)) /\ << >> \in Text
  <2>1. <<kMsgSep>> \in Text /\ stdout \o text \in Text /\ << >> \in Text
    BY <1>2, <1>4, EmptyText, ConcatText
  <2>2. (stdout \o text) \o <<kMsgSep>> \in Text
    BY <2>1, ConcatText
  <2>3. Append(given, answer) \in Seq(Seq(Text))
    BY <1>2, AppendIs
  <2>4. QED
    BY <1>1, <2>1, <2>2, <2>3
<1>6. MsgTypes'
  <2>1. << >> \in Seq(Text)
    OBVIOUS
  <2>2. QED
    BY <1>1, <1>2, <1>5, <2>1 DEF MsgTypes
<1>7. Answered'
  <2>1. PICK n \in Nat : n = Len(parts) /\ n = Len(given)
    BY <1>3, LenProperties
  <2>2. PICK r \in Seq(Text) : r = Append(parts, text) /\ Len(r) = n + 1 /\ r[n + 1] = text /\ \A j \in 1..n : r[j] = parts[j]
    <3>1. /\ Append(parts, text) \in Seq(Text) /\ Len(Append(parts, text)) = n + 1
          /\ Append(parts, text)[n + 1] = text /\ \A j \in 1..n : Append(parts, text)[j] = parts[j]
      <4>1. Len(parts) = n
        BY <2>1
      <4>2. QED
        BY <4>1, AppendIs
    <3>2. QED
      BY <3>1, Zenon
  <2>3. Len(given') = n + 1 /\ given'[n + 1] = answer /\ \A j \in 1..n : given'[j] = given[j]
    BY <1>1, <1>2, <2>1, AppendIs
  <2>4. ASSUME NEW k \in 1..(n + 1) PROVE Parts(r[k], kFieldSep, given'[k])
    <3>1. CASE k = n + 1
      BY <2>2, <2>3, <3>1
    <3>2. CASE k # n + 1
      <4>1. k \in 1..n
        BY <2>1, <3>2
      <4>2. QED
        BY <1>3, <2>1, <2>2, <2>3, <4>1
    <3>3. QED
      BY <3>1, <3>2
  <2>5. QED
    BY <1>4, <2>2, <2>3, <2>4 DEF Answered
<1>8. AnswerRight'
  BY <1>1 DEF AnswerRight
<1>9. InPipe' /\ GotRight'
  BY <1>1, ReaderKept
<1> QED BY <1>6, <1>7, <1>8, <1>9 DEF MsgIInv

\* The answer that was printed in full.
LEMMA DumpAnswerRight ==
  ASSUME MsgIInv, DumpAnswer
  PROVE  MsgIInv'
<1>1. reading = "write" /\ ~done_ /\ DumpAs(strm_, <<SafePrint(AnswerId), <<One>>>> \o answer_fields)
  BY DEF DumpAnswer
<1>2. strm_ \in Text /\ answer_fields \in Seq(Text) /\ AnswerId \in Text
  BY <1>1 DEF MsgIInv, MsgTypes, GotRight, AnswerId
<1>3. SafePrint(AnswerId) \in Text /\ <<One>> \in Text
  BY <1>2, FlagParts
<1>4. PICK v \in Seq(Text) : v = <<SafePrint(AnswerId), <<One>>>> \o answer_fields
  BY <1>2, <1>3, TwoFirst
<1>5. Free(strm_, kMsgSep) /\ Parts(strm_, kFieldSep, v)
  BY <1>1, <1>4 DEF MsgIInv, AnswerRight
<1> QED BY <1>1, <1>2, <1>4, <1>5, DumpRight

\* The answer of a request that failed, which has its id and a zero.
LEMMA DestroyedRight ==
  ASSUME MsgIInv, AnswerDestroyed
  PROVE  MsgIInv'
<1>1. reading = "write" /\ DumpAs(SafePrint(AnswerId) \o PrintField(<<Zero>>), <<SafePrint(AnswerId), <<Zero>>>>)
  BY DEF AnswerDestroyed
<1>2. AnswerId \in Text
  BY <1>1 DEF MsgIInv, GotRight, AnswerId
<1>3. PICK t \in Text : /\ t = SafePrint(AnswerId) \o PrintField(<<Zero>>) /\ Free(t, kMsgSep)
                       /\ Parts(t, kFieldSep, <<SafePrint(AnswerId), <<Zero>>>>)
                       /\ SafePrint(AnswerId) \in Text /\ <<Zero>> \in Text
  BY <1>2, FlagParts
<1>4. <<SafePrint(AnswerId), <<Zero>>>> \in Seq(Text)
  BY <1>3
<1> QED BY <1>1, <1>3, <1>4, DumpRight

(* Every step of the shell, of RequestReader and of ResponseWriter keeps   *)
(* the buffer, the pipe and the answers as MsgIInv says, for messages and  *)
(* fields of any length and any size of the buffer.                        *)
THEOREM MessagesInvariant == MsgSpec => []MsgIInv
<1>1. MsgInit => MsgIInv
  BY MsgInitRight
<1>2. MsgIInv /\ [MsgNext]_msgVars => MsgIInv'
  <2> SUFFICES ASSUME MsgIInv, [MsgNext]_msgVars PROVE MsgIInv'
    OBVIOUS
  <2>1. ASSUME NEW m \in ShellMessages, WriteMessage(m) PROVE MsgIInv'
    BY <2>1, WriteRight
  <2>2. ASSUME NEW m \in ShellMessages, NEW k \in 0..Len(m), CloseShell(SubSeq(m, 1, k)) PROVE MsgIInv'
    BY <2>2, PieceFree, CloseRight
  <2>3. CASE ReadBuffered
    BY <2>3, BufferedRight
  <2>4. CASE SelectPipe \/ TimesOut
    BY <2>4, WaitRight
  <2>5. ASSUME NEW n \in 1..BufSize, ReadBytes(n) PROVE MsgIInv'
    BY <2>5, BytesRight
  <2>6. CASE ReadsEof
    BY <2>6, EofRight
  <2>7. CASE BeginAnswer
    BY <2>7, BeginRight
  <2>8. ASSUME NEW val \in FieldValues, PrintNext(val) PROVE MsgIInv'
    BY <2>8, PrintRight
  <2>9. CASE DumpAnswer
    BY <2>9, DumpAnswerRight
  <2>10. CASE AnswerDestroyed
    BY <2>10, DestroyedRight
  <2>11. CASE UNCHANGED msgVars
    BY <2>11 DEF msgVars, MsgIInv, MsgTypes, InPipe, GotRight, AnswerRight, Answered, AnswerId, Unread
  <2>12. QED
    BY <2>1, <2>2, <2>3, <2>4, <2>5, <2>6, <2>7, <2>8, <2>9, <2>10, <2>11 DEF MsgNext
<1>3. QED
  BY <1>1, <1>2, PTL DEF MsgSpec

(* However the pipe cuts them, the daemon reads each message once, in      *)
(* order and for what it says, and leaves none at the end of the file; the *)
(* shell finds in the output the fields of each answer.                    *)
THEOREM MessagesAlwaysExact == MsgSpec => []MessagesExact
<1>1. MsgIInv => MessagesExact
  <2> SUFFICES ASSUME MsgIInv PROVE MessagesExact
    OBVIOUS
  <2>1. MsgTypes /\ GotRight /\ stdout \in Text /\ got \in Seq(Readings) /\ given \in Seq(Seq(Text))
    BY DEF MsgIInv, MsgTypes
  <2>2. PICK parts \in Seq(Text) :
          /\ Parts(stdout, kMsgSep, Append(parts, << >>)) /\ Len(parts) = Len(given)
          /\ \A k \in 1..Len(given) : Parts(parts[k], kFieldSep, given[k])
    BY DEF MsgIInv, Answered
  <2>3. PICK n \in Nat : n = Len(parts) /\ n = Len(given) /\ DOMAIN given = 1..n /\ DOMAIN got = 1..Len(got)
    BY <2>1, <2>2, LenProperties
  <2>4. PICK r \in Seq(Text) : r = Append(parts, << >>) /\ Len(r) = n + 1 /\ r[n + 1] = << >> /\ \A j \in 1..n : r[j] = parts[j]
    <3>1. << >> \in Text
      BY EmptyText
    <3>2. /\ Append(parts, << >>) \in Seq(Text) /\ Len(Append(parts, << >>)) = n + 1
          /\ Append(parts, << >>)[n + 1] = << >> /\ \A j \in 1..n : Append(parts, << >>)[j] = parts[j]
      <4>1. Len(parts) = n
        BY <2>3
      <4>2. QED
        BY <3>1, <4>1, AppendIs
    <3>3. QED
      BY <3>2, Zenon
  <2>5. SplitAt(stdout, kMsgSep) = r
    BY <2>1, <2>2, <2>4, SplitIs
  <2>6. ASSUME NEW k \in 1..n PROVE SplitAt(r[k], kFieldSep) = given[k]
    <3>1. parts[k] \in Text /\ Parts(parts[k], kFieldSep, given[k])
      BY <2>2, <2>3, ElementOfSeq
    <3>2. QED
      BY <2>4, <3>1, SplitIs
  <2>7. Last(r) = << >>
    BY <2>4 DEF Last
  <2>8. /\ Len(got) <= Len(messages) /\ \A k \in DOMAIN got : got[k] = Meant(messages[k])
        /\ reading = "exit" => Len(got) = Len(messages)
    BY <2>1, <2>3 DEF GotRight
  <2>9. LET answers == SplitAt(stdout, kMsgSep)
        IN  /\ Len(answers) = Len(given) + 1 /\ Last(answers) = << >>
            /\ \A k \in DOMAIN given : SplitAt(answers[k], kFieldSep) = given[k]
    BY <2>3, <2>4, <2>5, <2>6, <2>7
  <2>10. QED
    BY <2>8, <2>9 DEF MessagesExact
<1>2. QED
  BY <1>1, MessagesInvariant, PTL
=============================================================================
