-------------------------- MODULE SamplerLogProofs --------------------------
(* The log of the Mini SSD sampler: its type for any runs, and for one run *)
(* at a time what the log and its reader are promised, for any cap, any    *)
(* number of samples and of killed runs.                                   *)
EXTENDS SamplerLog, SequenceTheorems, FiniteSetTheorems, TLAPS

(* A file of the log is the part of the lines that ends with the e-th, all *)
(* of it or at least MaxLines of it.                                       *)
Ends(file, lines, e) ==
  /\ Len(file) <= e /\ e <= Len(lines)
  /\ Len(file) = e \/ Len(file) >= MaxLines
  /\ \A i \in 1 .. Len(file) : file[i] = lines[e - Len(file) + i]

Whole(file) == file = <<>> \/ file[Len(file)] # Torn

LastIsTorn(file) == file # <<>> /\ file[Len(file)] = Torn

-----------------------------------------------------------------------------
(* Lines appended, and the newest lines of a file.                         *)

LEMMA AppendedFacts ==
  ASSUME NEW s \in Seq(Lines), NEW line \in Lines
  PROVE  /\ Appended(s, line) \in Seq(Lines)
         /\ Len(Appended(s, line)) = IF LastIsTorn(s) THEN Len(s) ELSE Len(s) + 1
         /\ \A i \in 1 .. Len(s) :
              i < Len(s) \/ ~LastIsTorn(s) => Appended(s, line)[i] = s[i]
         /\ Appended(s, line)[Len(Appended(s, line))]
              = IF LastIsTorn(s) /\ line # Torn THEN Junk ELSE line
<1>1. Len(s) \in Nat /\ DOMAIN s = 1 .. Len(s) /\ (s # <<>> => Len(s) # 0)
  BY EmptySeq, LenProperties
<1>2. CASE LastIsTorn(s)
  <2> DEFINE front == SubSeq(s, 1, Len(s) - 1)
             last == IF line = Torn THEN Torn ELSE Junk
  <2>1. Len(s) # 0 /\ \A i \in 1 .. Len(s) - 1 : s[i] \in Lines
    BY <1>1, <1>2, ElementOfSeq DEF LastIsTorn
  <2>2. /\ front \in Seq(Lines) /\ Len(front) = Len(s) - 1
        /\ \A i \in 1 .. Len(s) - 1 : front[i] = s[i]
    BY <1>1, <2>1, SubSeqProperties
  <2>3. last \in Lines
    BY DEF Lines
  <2>4. Appended(s, line) = Append(front, last)
    BY <1>2 DEF Appended, LastIsTorn, Last, Front
  <2> HIDE DEF front, last
  <2>5. /\ Append(front, last) \in Seq(Lines) /\ Len(Append(front, last)) = Len(front) + 1
        /\ \A i \in 1 .. Len(front) : Append(front, last)[i] = front[i]
        /\ Append(front, last)[Len(front) + 1] = last
    BY <2>2, <2>3, AppendProperties
  <2>6. \A i \in 1 .. Len(s) : i < Len(s) => Appended(s, line)[i] = s[i]
    BY <1>1, <2>2, <2>4, <2>5
  <2>7. /\ Appended(s, line) \in Seq(Lines) /\ Len(Appended(s, line)) = Len(s)
        /\ Appended(s, line)[Len(s)] = last
    BY <1>1, <2>2, <2>4, <2>5
  <2>8. LastIsTorn(s) /\ line # Torn => last = Junk
    BY DEF last
  <2>9. line = Torn => last = line
    BY DEF last
  <2> QED BY <1>1, <1>2, <2>6, <2>7, <2>8, <2>9
<1>3. CASE ~LastIsTorn(s)
  <2>1. Appended(s, line) = Append(s, line)
    BY <1>3 DEF Appended, LastIsTorn, Last
  <2>2. /\ Append(s, line) \in Seq(Lines) /\ Len(Append(s, line)) = Len(s) + 1
        /\ \A i \in 1 .. Len(s) : Append(s, line)[i] = s[i]
        /\ Append(s, line)[Len(s) + 1] = line
    BY AppendProperties
  <2> QED BY <1>3, <2>1, <2>2
<1> QED BY <1>2, <1>3

LEMMA NewestFacts ==
  ASSUME NEW s \in Seq(Lines), NEW n \in Nat
  PROVE  /\ Newest(s, n) \in Seq(Lines)
         /\ Len(Newest(s, n)) = IF Len(s) <= n THEN Len(s) ELSE n
         /\ \A i \in 1 .. Len(Newest(s, n)) :
              Newest(s, n)[i] = s[Len(s) - Len(Newest(s, n)) + i]
<1>1. Len(s) \in Nat
  BY LenProperties
<1>2. CASE Len(s) <= n
  BY <1>1, <1>2 DEF Newest
<1>3. CASE Len(s) > n
  <2> DEFINE first == Len(s) - n + 1
  <2>1. Newest(s, n) = SubSeq(s, first, Len(s)) /\ ~(Len(s) <= n)
    BY <1>1, <1>3 DEF Newest
  <2>2. first \in 1 .. Len(s) + 1 /\ \A i \in first .. Len(s) : s[i] \in Lines
    BY <1>1, <1>3, ElementOfSeq
  <2>3. /\ SubSeq(s, first, Len(s)) \in Seq(Lines)
        /\ Len(SubSeq(s, first, Len(s))) = IF first <= Len(s) THEN Len(s) - first + 1 ELSE 0
        /\ \A i \in 1 .. Len(s) - first + 1 :
             SubSeq(s, first, Len(s))[i] = s[first + i - 1]
    BY <1>1, <2>2, SubSeqProperties
  <2>4. Len(Newest(s, n)) = n
    BY <1>1, <1>3, <2>1, <2>3
  <2>5. \A i \in 1 .. n : Newest(s, n)[i] = s[Len(s) - n + i]
    BY <1>1, <1>3, <2>1, <2>3
  <2> QED BY <2>1, <2>3, <2>4, <2>5
<1> QED BY <1>1, <1>2, <1>3

LEMMA PrefixFacts ==
  ASSUME NEW s \in Seq(Lines), NEW n \in 0 .. Len(s)
  PROVE  /\ SubSeq(s, 1, n) \in Seq(Lines) /\ Len(SubSeq(s, 1, n)) = n
         /\ \A i \in 1 .. n : SubSeq(s, 1, n)[i] = s[i]
<1>1. Len(s) \in Nat /\ \A i \in 1 .. n : s[i] \in Lines
  BY LenProperties, ElementOfSeq
<1>2. /\ SubSeq(s, 1, n) \in Seq(Lines)
      /\ Len(SubSeq(s, 1, n)) = IF 1 <= n THEN n - 1 + 1 ELSE 0
      /\ \A i \in 1 .. n - 1 + 1 : SubSeq(s, 1, n)[i] = s[1 + i - 1]
  BY <1>1, SubSeqProperties
<1> QED BY <1>1, <1>2

(* What a reader has and the lines that follow it in the file.             *)
LEMMA PrefixGrows ==
  ASSUME NEW file \in Seq(Lines), NEW lines \in Seq(Lines),
         NEW m \in Len(lines) .. Len(file),
         \A i \in 1 .. Len(lines) : lines[i] = file[i]
  PROVE  lines \o SubSeq(file, Len(lines) + 1, m) = SubSeq(file, 1, m)
<1> DEFINE n == Len(lines)
<1>1. n \in Nat /\ Len(file) \in Nat /\ n \in 0 .. Len(file) /\ m \in Nat
  BY LenProperties
<1> HIDE DEF n
<1>2. /\ SubSeq(file, 1, n) \in Seq(Lines) /\ Len(SubSeq(file, 1, n)) = n
      /\ \A i \in 1 .. n : SubSeq(file, 1, n)[i] = file[i]
  BY <1>1, PrefixFacts
<1>3. lines = SubSeq(file, 1, n)
  BY <1>2, SeqEqual DEF n
<1>4. 1 \in 1 .. Len(file) + 1 /\ n \in 1 - 1 .. Len(file) /\ m \in n .. Len(file)
  BY <1>1 DEF n
<1>5. SubSeq(file, 1, n) \o SubSeq(file, n + 1, m) = SubSeq(file, 1, m)
  BY <1>4, ConcatAdjacentSubSeq
<1> QED BY <1>3, <1>5 DEF n

(* A line appended to the log and to the history, torn or not.             *)
LEMMA EndsAppended ==
  ASSUME NEW file \in Seq(Lines), NEW lines \in Seq(Lines), NEW line \in Lines,
         Ends(file, lines, Len(lines))
  PROVE  Ends(Appended(file, line), Appended(lines, line), Len(Appended(lines, line)))
<1> USE SamplerAssumption
<1> DEFINE f == Appended(file, line)  l == Appended(lines, line)
<1>1. /\ Len(file) \in Nat /\ Len(lines) \in Nat
      /\ file = <<>> <=> Len(file) = 0
      /\ lines = <<>> <=> Len(lines) = 0
  BY EmptySeq, LenProperties
<1>2. LastIsTorn(file) <=> LastIsTorn(lines)
  BY <1>1 DEF Ends, LastIsTorn
<1>3. /\ f \in Seq(Lines) /\ Len(f) = IF LastIsTorn(file) THEN Len(file) ELSE Len(file) + 1
      /\ \A i \in 1 .. Len(file) : i < Len(file) \/ ~LastIsTorn(file) => f[i] = file[i]
      /\ f[Len(f)] = IF LastIsTorn(file) /\ line # Torn THEN Junk ELSE line
  BY AppendedFacts
<1>4. /\ l \in Seq(Lines) /\ Len(l) = IF LastIsTorn(lines) THEN Len(lines) ELSE Len(lines) + 1
      /\ \A i \in 1 .. Len(lines) : i < Len(lines) \/ ~LastIsTorn(lines) => l[i] = lines[i]
      /\ l[Len(l)] = IF LastIsTorn(lines) /\ line # Torn THEN Junk ELSE line
  BY AppendedFacts
<1> HIDE DEF f, l
<1>5. /\ Len(f) <= Len(l)
      /\ Len(f) = Len(l) \/ Len(f) >= MaxLines
      /\ Len(l) - Len(f) = Len(lines) - Len(file) /\ Len(f) \in Nat /\ Len(l) \in Nat
  BY <1>1, <1>2, <1>3, <1>4 DEF Ends
<1>6. ASSUME NEW i \in 1 .. Len(f) PROVE f[i] = l[Len(l) - Len(f) + i]
  <2>1. CASE i = Len(f)
    BY <1>2, <1>3, <1>4, <1>5, <2>1
  <2>2. CASE i < Len(f)
    <3> DEFINE j == Len(lines) - Len(file) + i
    <3>1. /\ i \in 1 .. Len(file) /\ (i < Len(file) \/ ~LastIsTorn(file))
      BY <1>1, <1>3, <1>5, <2>2
    <3>2. j \in 1 .. Len(lines) /\ (j < Len(lines) \/ ~LastIsTorn(lines))
      BY <1>1, <1>2, <3>1 DEF Ends
    <3>3. f[i] = file[i] /\ l[j] = lines[j] /\ file[i] = lines[j]
      BY <1>3, <1>4, <3>1, <3>2 DEF Ends
    <3> QED BY <1>5, <3>3
  <2> QED BY <1>5, <2>1, <2>2
<1> QED BY <1>5, <1>6 DEF Ends, f, l

(* Lines appended later do not change the part a whole line ends.          *)
LEMMA EndsStays ==
  ASSUME NEW file \in Seq(Lines), NEW lines \in Seq(Lines), NEW line \in Lines,
         NEW e \in Nat, Ends(file, lines, e), Whole(file)
  PROVE  Ends(file, Appended(lines, line), e)
<1> USE SamplerAssumption
<1> DEFINE l == Appended(lines, line)
<1>1. /\ Len(file) \in Nat /\ Len(lines) \in Nat
      /\ file = <<>> <=> Len(file) = 0
      /\ lines = <<>> <=> Len(lines) = 0
  BY EmptySeq, LenProperties
<1>2. /\ l \in Seq(Lines)
      /\ Len(l) = IF LastIsTorn(lines) THEN Len(lines) ELSE Len(lines) + 1
      /\ \A i \in 1 .. Len(lines) : i < Len(lines) \/ ~LastIsTorn(lines) => l[i] = lines[i]
  BY AppendedFacts
<1> HIDE DEF l
<1>3. ASSUME NEW i \in 1 .. Len(file) PROVE file[i] = l[e - Len(file) + i]
  <2>1. e - Len(file) + i \in 1 .. Len(lines) /\ file[i] = lines[e - Len(file) + i]
    BY <1>1 DEF Ends
  <2>2. CASE e - Len(file) + i < Len(lines)
    BY <1>2, <2>1, <2>2
  <2>3. CASE e - Len(file) + i = Len(lines)
    <3>1. e = Len(lines) /\ i = Len(file) /\ file[Len(file)] = lines[Len(lines)]
      BY <1>1, <2>1, <2>3 DEF Ends
    <3>2. ~LastIsTorn(lines)
      BY <1>1, <3>1 DEF Whole, LastIsTorn
    <3> QED BY <1>2, <2>1, <3>2
  <2> QED BY <1>1, <2>1, <2>2, <2>3
<1> QED BY <1>1, <1>2, <1>3 DEF Ends, l

(* A trimmed log still ends the history.                                   *)
LEMMA EndsNewest ==
  ASSUME NEW file \in Seq(Lines), NEW lines \in Seq(Lines), NEW e \in Nat,
         Ends(file, lines, e), Len(file) > MaxLines
  PROVE  /\ Ends(Newest(file, MaxLines), lines, e)
         /\ Len(Newest(file, MaxLines)) = MaxLines
         /\ Whole(file) => Whole(Newest(file, MaxLines))
<1> DEFINE new == Newest(file, MaxLines)
<1>1. /\ Len(file) \in Nat /\ Len(lines) \in Nat
      /\ MaxLines \in Nat /\ MaxLines # 0
  BY SamplerAssumption, LenProperties
<1>2. /\ new \in Seq(Lines) /\ Len(new) = MaxLines
      /\ \A i \in 1 .. MaxLines : new[i] = file[Len(file) - MaxLines + i]
  <2>1. /\ new \in Seq(Lines)
        /\ Len(new) = IF Len(file) <= MaxLines THEN Len(file) ELSE MaxLines
        /\ \A i \in 1 .. Len(new) : new[i] = file[Len(file) - Len(new) + i]
    BY <1>1, NewestFacts
  <2> HIDE DEF new
  <2>2. Len(new) = MaxLines
    BY <1>1, <2>1
  <2> QED BY <2>1, <2>2
<1> HIDE DEF new
<1>3. ASSUME NEW i \in 1 .. MaxLines PROVE new[i] = lines[e - MaxLines + i]
  <2> DEFINE j == Len(file) - MaxLines + i
  <2>1. j \in 1 .. Len(file) /\ e - Len(file) + j = e - MaxLines + i
    BY <1>1
  <2>2. new[i] = file[j]
    BY <1>2
  <2>3. file[j] = lines[e - Len(file) + j]
    BY <2>1 DEF Ends
  <2> QED BY <2>1, <2>2, <2>3
<1>4. file # <<>>
  BY <1>1, EmptySeq
<1>5. new[MaxLines] = file[Len(file)]
  <2>1. MaxLines \in 1 .. MaxLines /\ Len(file) - MaxLines + MaxLines = Len(file)
    BY <1>1
  <2> QED BY <1>2, <2>1
<1> QED BY <1>1, <1>2, <1>3, <1>4, <1>5 DEF Ends, Whole, new

(* The newest lines of a file of the log are those of the history up to    *)
(* the line where the file ends.                                           *)
LEMMA EndsLimit ==
  ASSUME NEW file \in Seq(Lines), NEW lines \in Seq(Lines), NEW e \in Nat,
         Ends(file, lines, e)
  PROVE  Newest(file, Limit) = Newest(SubSeq(lines, 1, e), Limit)
<1> USE SamplerAssumption
<1> DEFINE part == SubSeq(lines, 1, e)
           f == Newest(file, Limit)  p == Newest(part, Limit)
<1>1. Len(file) \in Nat /\ Len(lines) \in Nat /\ e \in 0 .. Len(lines) /\ Limit \in Nat
  BY LenProperties DEF Ends
<1>2. /\ part \in Seq(Lines) /\ Len(part) = e
      /\ \A i \in 1 .. e : part[i] = lines[i]
  BY <1>1, PrefixFacts
<1> HIDE DEF part
<1>3. /\ f \in Seq(Lines) /\ Len(f) = IF Len(file) <= Limit THEN Len(file) ELSE Limit
      /\ \A i \in 1 .. Len(f) : f[i] = file[Len(file) - Len(f) + i]
  BY <1>1, NewestFacts
<1>4. /\ p \in Seq(Lines) /\ Len(p) = IF e <= Limit THEN e ELSE Limit
      /\ \A i \in 1 .. Len(p) : p[i] = part[e - Len(p) + i]
  BY <1>1, <1>2, NewestFacts
<1> HIDE DEF f, p
<1>5. Len(f) = Len(p) /\ Len(f) \in Nat /\ Len(f) <= Len(file) /\ Len(p) <= e
  BY <1>1, <1>3, <1>4 DEF Ends
<1>6. ASSUME NEW i \in 1 .. Len(f) PROVE f[i] = p[i]
  <2> DEFINE j == Len(file) - Len(f) + i
  <2>1. f[i] = file[j]
    BY <1>3
  <2>2. /\ j \in 1 .. Len(file) /\ e - Len(p) + i \in 1 .. e
        /\ e - Len(file) + j = e - Len(p) + i
    BY <1>1, <1>5
  <2>3. file[j] = lines[e - Len(p) + i]
    BY <2>2 DEF Ends
  <2>4. p[i] = part[e - Len(p) + i]
    BY <1>4, <1>5
  <2> QED BY <1>2, <2>1, <2>2, <2>3, <2>4
<1> QED BY <1>3, <1>4, <1>5, <1>6, SeqEqual DEF f, p, part

LEMMA EndsSuffix ==
  ASSUME NEW file \in Seq(Lines), NEW lines \in Seq(Lines),
         Ends(file, lines, Len(lines))
  PROVE  IsSuffix(file, lines)
<1> DEFINE f == Reverse(file)  l == Reverse(lines)
<1>1. Len(file) \in Nat /\ Len(lines) \in Nat /\ Len(file) <= Len(lines)
  BY LenProperties DEF Ends
<1>2. \A s \in Seq(Lines) :
        /\ Reverse(s) \in Seq(Lines) /\ Len(Reverse(s)) = Len(s)
        /\ \A i \in 1 .. Len(s) : Reverse(s)[i] = s[Len(s) - i + 1]
  <2> SUFFICES ASSUME NEW s \in Seq(Lines)
               PROVE  /\ Reverse(s) \in Seq(Lines) /\ Len(Reverse(s)) = Len(s)
                      /\ \A i \in 1 .. Len(s) : Reverse(s)[i] = s[Len(s) - i + 1]
    OBVIOUS
  <2>1. Len(s) \in Nat /\ \A i \in 1 .. Len(s) : s[Len(s) - i + 1] \in Lines
    BY LenProperties, ElementOfSeq
  <2> QED BY <2>1 DEF Reverse
<1>3. /\ f \in Seq(Lines) /\ l \in Seq(Lines) /\ Len(f) = Len(file) /\ Len(l) = Len(lines)
      /\ \A i \in 1 .. Len(file) : f[i] = file[Len(file) - i + 1]
      /\ \A i \in 1 .. Len(lines) : l[i] = lines[Len(lines) - i + 1]
  BY <1>2
<1> HIDE DEF f, l
<1>4. ASSUME NEW i \in 1 .. Len(file) PROVE f[i] = l[i]
  <2> DEFINE j == Len(file) - i + 1
  <2>1. j \in 1 .. Len(file) /\ Len(lines) - Len(file) + j = Len(lines) - i + 1
        /\ i \in 1 .. Len(lines)
    BY <1>1
  <2> QED BY <1>3, <2>1 DEF Ends
<1>5. /\ SubSeq(f, 1, Len(f)) \in Seq(Lines) /\ Len(SubSeq(f, 1, Len(f))) = Len(file)
      /\ \A i \in 1 .. Len(file) : SubSeq(f, 1, Len(f))[i] = f[i]
  BY <1>1, <1>3, PrefixFacts
<1>6. /\ SubSeq(l, 1, Len(f)) \in Seq(Lines) /\ Len(SubSeq(l, 1, Len(f))) = Len(file)
      /\ \A i \in 1 .. Len(file) : SubSeq(l, 1, Len(f))[i] = l[i]
  BY <1>1, <1>3, PrefixFacts
<1>7. SubSeq(f, 1, Len(f)) = SubSeq(l, 1, Len(f))
  BY <1>4, <1>5, <1>6, SeqEqual
<1> QED BY <1>1, <1>3, <1>7 DEF IsSuffix, IsPrefix, f, l
-----------------------------------------------------------------------------
(* The types, for any number of runs at a time.                            *)

Opened == {"append", "write_tmp"}

Runs ==
  [at : {"idle", "append", "stat", "read", "open_tmp", "write_tmp", "replace"},
   sample : 1 .. MaxSamples \cup {None}, handle : Inodes \cup {None},
   lines : Seq(Lines), code : {0, 1, None}]

Readers ==
  [at : {"idle", "reading", "done"}, handle : Inodes \cup {None},
   lines : Seq(Lines), opened : Nat, until : Seq(Lines)]

Typed ==
  /\ data \in [Inodes -> Seq(Lines)] /\ history \in Seq(Lines)
  /\ log \in Inodes \cup {None} /\ tmp \in Inodes \cup {None}
  /\ run \in [Writers -> Runs] /\ reader \in Readers
  /\ taken \in 0 .. MaxSamples
  /\ \A w \in Writers :
       /\ run[w].handle # None <=> run[w].at \in Opened
       /\ run[w].at = "append" => run[w].sample \in 1 .. MaxSamples
       /\ run[w].at # "idle" => log # None
  /\ reader.at = "reading" => reader.handle # None

LEMMA NoLines == <<>> \in Seq(Lines) /\ Len(<<>>) = 0
BY EmptySeq

(* There is always an inode for a new file.                                *)
LEMMA InodeIsFree ==
  ASSUME Typed, NEW w \in Writers, run[w].handle = None, log = None \/ tmp = None
  PROVE  /\ FreeInode \in Inodes
         /\ FreeInode \notin {log, tmp, reader.handle}
         /\ \A v \in Writers : run[v].handle # FreeInode
<1> USE SamplerAssumption
<1> DEFINE others == Writers \ {w}
           open == [v \in others |-> run[v].handle]
           held == {open[v] : v \in others}
           used == held \cup {log, tmp, reader.handle} \cup {None}
<1>1. IsFiniteSet(others) /\ Cardinality(others) = Cardinality(Writers) - 1
      /\ Cardinality(Writers) \in Nat /\ Cardinality(Inodes) \in Nat
  BY FS_RemoveElement, FS_CardinalityType
<1>2. IsFiniteSet(held) /\ Cardinality(held) <= Cardinality(others)
  <2>1. open \in Surjection(others, held)
    BY DEF Surjection
  <2> QED BY <1>1, <2>1, FS_Surjection
<1> DEFINE name == IF log = None THEN tmp ELSE log
           two == held \cup {name} \cup {reader.handle}
<1>3. IsFiniteSet(two) /\ Cardinality(two) <= Cardinality(Writers) + 1
  <2> HIDE DEF held
  <2>1. Cardinality(held) \in Nat /\ Cardinality(others) \in Nat
    BY <1>1, <1>2, FS_CardinalityType
  <2>2. /\ IsFiniteSet(held \cup {name})
        /\ Cardinality(held \cup {name}) \in {Cardinality(held), Cardinality(held) + 1}
    BY <1>2, FS_AddElement
  <2>3. /\ IsFiniteSet(two)
        /\ Cardinality(two)
             \in {Cardinality(held \cup {name}), Cardinality(held \cup {name}) + 1}
    BY <2>2, FS_AddElement
  <2> QED BY <1>1, <1>2, <2>1, <2>2, <2>3
<1>4. ~(Inodes \subseteq two)
  <2> SUFFICES ASSUME Inodes \subseteq two PROVE FALSE
    OBVIOUS
  <2> HIDE DEF two
  <2>1. Cardinality(Inodes) <= Cardinality(two) /\ Cardinality(two) \in Nat
    BY <1>3, FS_Subset, FS_CardinalityType
  <2> QED BY <1>1, <1>3, <2>1
<1>5. {log, tmp} \cup Held \subseteq two \cup {None}
  <2>1. \A v \in Writers : run[v].handle \in held \cup {None}
    BY DEF Typed
  <2> QED BY <2>1 DEF Held
<1> HIDE DEF two
<1>6. \E i \in Inodes : i \notin {log, tmp} \cup Held
  BY <1>4, <1>5
<1>7. FreeInode \in Inodes /\ FreeInode \notin {log, tmp} \cup Held
  BY <1>6 DEF FreeInode
<1> QED BY <1>7 DEF Held

LEMMA InitTyped == Init => Typed
<1> SUFFICES ASSUME Init PROVE Typed
  OBVIOUS
<1>1. Idle \in Runs /\ Idle.at = "idle" /\ Idle.handle = None
  BY NoLines DEF Idle, Runs
<1>2. NotReading \in Readers /\ NotReading.at = "idle"
  BY NoLines DEF NotReading, Readers
<1>3. /\ data \in [Inodes -> Seq(Lines)] /\ history \in Seq(Lines)
      /\ log = None /\ tmp = None /\ taken \in 0 .. MaxSamples
      /\ \A w \in Writers : run[w] = Idle
      /\ run = [w \in Writers |-> Idle] /\ reader = NotReading
  BY NoLines, SamplerAssumption DEF Init
<1> HIDE DEF Idle, NotReading
<1> QED BY <1>1, <1>2, <1>3 DEF Typed, Opened

(* The run of a writer that moves to another place, with what it carries.  *)
LEMMA RunMoves ==
  ASSUME Typed, NEW w \in Writers, NEW new \in Runs,
         run' = [run EXCEPT ![w] = new],
         new.handle # None <=> new.at \in Opened,
         new.at = "append" => new.sample \in 1 .. MaxSamples,
         new.at # "idle" => log' # None,
         log # None => log' # None,
         data' \in [Inodes -> Seq(Lines)], history' \in Seq(Lines),
         log' \in Inodes \cup {None}, tmp' \in Inodes \cup {None},
         taken' \in 0 .. MaxSamples, UNCHANGED reader
  PROVE  /\ Typed'
         /\ run'[w] = new /\ \A v \in Writers \ {w} : run'[v] = run[v]
BY DEF Typed

LEMMA ExitsRuns ==
  ASSUME Typed, NEW w \in Writers, NEW code \in {0, 1}, Exits(w, code)
  PROVE  LET new == [Idle EXCEPT !.sample = run[w].sample, !.code = code]
         IN  /\ new \in Runs /\ new.at = "idle" /\ new.handle = None /\ new.code = code
             /\ run' = [run EXCEPT ![w] = new]
BY NoLines DEF Typed, Exits, Idle, Runs
-----------------------------------------------------------------------------
(* What each operation of a run does.                                      *)

LEMMA OpenLogMoves ==
  ASSUME Typed, NEW w \in Writers, OpenLog(w)
  PROVE  /\ Typed' /\ UNCHANGED <<tmp, history, reader>>
         /\ run'[w].at = "append" /\ run'[w].handle = log'
         /\ log' \in Inodes
         /\ \/ log' = log /\ data' = data
            \/ /\ log = None /\ log' \notin {tmp, reader.handle}
               /\ data' = [data EXCEPT ![log'] = <<>>]
<1> USE SamplerAssumption
<1> DEFINE new == [Idle EXCEPT !.at = "append", !.sample = taken + 1, !.handle = log']
<1>1. /\ run[w].at = "idle" /\ taken < MaxSamples /\ taken' = taken + 1
      /\ log' = IF log = None THEN FreeInode ELSE log
      /\ data' = IF log = None THEN [data EXCEPT ![log'] = <<>>] ELSE data
      /\ run' = [run EXCEPT ![w] = new]
      /\ UNCHANGED <<tmp, history, reader>>
  BY DEF OpenLog
<1>2. /\ log' \in Inodes
      /\ \/ log' = log /\ data' = data
         \/ /\ log = None /\ log' \notin {tmp, reader.handle}
            /\ data' = [data EXCEPT ![log'] = <<>>]
  <2>1. CASE log = None
    <3>1. run[w].handle = None
      BY <1>1 DEF Typed, Opened
    <3> QED BY <1>1, <2>1, <3>1, InodeIsFree
  <2>2. CASE log # None
    BY <1>1, <2>2 DEF Typed
  <2> QED BY <2>1, <2>2
<1>3. data' \in [Inodes -> Seq(Lines)]
  BY <1>2, NoLines DEF Typed
<1>4. taken' \in 1 .. MaxSamples
  BY <1>1 DEF Typed
<1>5. /\ new \in Runs /\ new.at = "append" /\ new.handle = log'
      /\ new.sample \in 1 .. MaxSamples
  BY <1>1, <1>2, <1>4, NoLines DEF Idle, Runs
<1> HIDE DEF new
<1>6. log' # None
  BY <1>2
<1>7. Typed' /\ run'[w] = new
  <2>1. history' \in Seq(Lines) /\ tmp' \in Inodes \cup {None} /\ taken' \in 0 .. MaxSamples
    BY <1>1, <1>4 DEF Typed
  <2> QED BY <1>1, <1>2, <1>3, <1>5, <1>6, <2>1, RunMoves DEF Opened
<1> QED BY <1>1, <1>2, <1>5, <1>7

LEMMA WriteLineMoves ==
  ASSUME Typed, NEW w \in Writers, WriteLine(w)
  PROVE  /\ Typed' /\ UNCHANGED <<log, tmp, reader>>
         /\ run[w].at = "append" /\ run'[w].at = "stat"
         /\ run[w].handle \in Inodes /\ run[w].sample \in Lines \ {Torn}
         /\ data' = [data EXCEPT ![run[w].handle] = Appended(@, run[w].sample)]
         /\ history' = Appended(history, run[w].sample)
<1> USE SamplerAssumption
<1> DEFINE new == [run[w] EXCEPT !.at = "stat", !.handle = None]
<1>1. /\ run[w].at = "append"
      /\ data' = [data EXCEPT ![run[w].handle] = Appended(@, run[w].sample)]
      /\ history' = Appended(history, run[w].sample)
      /\ run' = [run EXCEPT ![w].at = "stat", ![w].handle = None]
      /\ UNCHANGED <<log, tmp, taken, reader>>
  BY DEF WriteLine
<1>2. /\ run[w] \in Runs /\ run[w].handle \in Inodes
      /\ run[w].sample \in 1 .. MaxSamples /\ log # None
  BY <1>1 DEF Typed, Opened, Runs
<1>3. run[w].sample \in Lines \ {Torn}
  BY <1>2 DEF Lines
<1>4. /\ data' \in [Inodes -> Seq(Lines)] /\ history' \in Seq(Lines)
  BY <1>1, <1>2, <1>3, AppendedFacts DEF Typed
<1>5. /\ new \in Runs /\ new.at = "stat" /\ new.handle = None
  BY <1>2 DEF Runs
<1>6. run' = [run EXCEPT ![w] = new]
  BY <1>1, <1>2 DEF Typed, Runs
<1> HIDE DEF new
<1>7. Typed' /\ run'[w] = new
  <2>1. /\ log' \in Inodes \cup {None} /\ tmp' \in Inodes \cup {None}
        /\ taken' \in 0 .. MaxSamples
    BY <1>1 DEF Typed
  <2> QED BY <1>1, <1>2, <1>4, <1>5, <1>6, <2>1, RunMoves DEF Opened
<1> QED BY <1>1, <1>2, <1>3, <1>5, <1>7

(* A run that has what it wants ends; the others go on.                    *)
LEMMA StatMoves ==
  ASSUME Typed, NEW w \in Writers, Stat(w)
  PROVE  /\ Typed' /\ UNCHANGED <<data, log, tmp, history, reader>>
         /\ run[w].at = "stat" /\ log # None
         /\ \/ run'[w].at = "idle" /\ Len(data[log]) * LineBytes <= MaxLines * MinLineBytes
            \/ run'[w].at = "read"
<1> USE SamplerAssumption
<1>1. /\ run[w].at = "stat" /\ run[w].handle = None /\ log # None /\ run[w] \in Runs
      /\ UNCHANGED <<data, log, tmp, taken, history, reader>>
  BY DEF Stat, Typed, Opened
<1>2. /\ data' \in [Inodes -> Seq(Lines)] /\ history' \in Seq(Lines)
      /\ log' \in Inodes \cup {None} /\ tmp' \in Inodes \cup {None}
      /\ taken' \in 0 .. MaxSamples /\ log' # None
  BY <1>1 DEF Typed
<1>3. CASE Len(data[log]) * LineBytes <= MaxLines * MinLineBytes
  <2> DEFINE new == [Idle EXCEPT !.sample = run[w].sample, !.code = 0]
  <2>1. new \in Runs /\ new.at = "idle" /\ new.handle = None
        /\ run' = [run EXCEPT ![w] = new]
    BY <1>3, ExitsRuns DEF Stat
  <2> HIDE DEF new
  <2>2. Typed' /\ run'[w] = new
    BY <1>1, <1>2, <2>1, RunMoves DEF Opened
  <2> QED BY <1>1, <1>3, <2>1, <2>2
<1>4. CASE ~(Len(data[log]) * LineBytes <= MaxLines * MinLineBytes)
  <2> DEFINE new == [run[w] EXCEPT !.at = "read"]
  <2>1. new \in Runs /\ new.at = "read" /\ new.handle = None
    BY <1>1 DEF Runs
  <2>2. run' = [run EXCEPT ![w] = new]
    BY <1>1, <1>4 DEF Stat, Goes, Typed, Runs
  <2> HIDE DEF new
  <2>3. Typed' /\ run'[w] = new
    BY <1>1, <1>2, <2>1, <2>2, RunMoves DEF Opened
  <2> QED BY <1>1, <2>1, <2>3
<1> QED BY <1>3, <1>4

LEMMA ReadLinesMoves ==
  ASSUME Typed, NEW w \in Writers, ReadLines(w)
  PROVE  /\ Typed' /\ UNCHANGED <<data, log, tmp, history, reader>>
         /\ run[w].at = "read" /\ log # None
         /\ \/ run'[w].at = "idle" /\ Len(data[log]) <= MaxLines
            \/ /\ run'[w].at = "open_tmp" /\ Len(data[log]) > MaxLines
               /\ run'[w].lines = Newest(data[log], MaxLines)
<1> USE SamplerAssumption
<1>1. /\ run[w].at = "read" /\ run[w].handle = None /\ log \in Inodes /\ log # None
      /\ run[w] \in Runs /\ UNCHANGED <<data, log, tmp, taken, history, reader>>
  BY DEF ReadLines, Typed, Opened
<1>2. /\ data' \in [Inodes -> Seq(Lines)] /\ history' \in Seq(Lines)
      /\ log' \in Inodes \cup {None} /\ tmp' \in Inodes \cup {None}
      /\ taken' \in 0 .. MaxSamples /\ log' # None
  BY <1>1 DEF Typed
<1>3. data[log] \in Seq(Lines) /\ Len(data[log]) \in Nat
  BY <1>1, LenProperties DEF Typed
<1>4. CASE Len(data[log]) <= MaxLines
  <2> DEFINE new == [Idle EXCEPT !.sample = run[w].sample, !.code = 0]
  <2>1. new \in Runs /\ new.at = "idle" /\ new.handle = None
        /\ run' = [run EXCEPT ![w] = new]
    BY <1>4, ExitsRuns DEF ReadLines
  <2> HIDE DEF new
  <2>2. Typed' /\ run'[w] = new
    BY <1>1, <1>2, <2>1, RunMoves DEF Opened
  <2> QED BY <1>1, <1>4, <2>1, <2>2
<1>5. CASE ~(Len(data[log]) <= MaxLines)
  <2> DEFINE lines == Newest(data[log], MaxLines)
             new == [run[w] EXCEPT !.at = "open_tmp", !.lines = lines]
  <2>1. lines \in Seq(Lines)
    BY <1>3, NewestFacts
  <2>2. run' = [run EXCEPT ![w].at = "open_tmp", ![w].lines = lines]
    BY <1>5 DEF ReadLines
  <2> HIDE DEF lines
  <2>3. new \in Runs /\ new.at = "open_tmp" /\ new.handle = None /\ new.lines = lines
    BY <1>1, <2>1 DEF Runs
  <2>4. run' = [run EXCEPT ![w] = new]
    BY <1>1, <2>2 DEF Typed, Runs
  <2> HIDE DEF new
  <2>5. Typed' /\ run'[w] = new
    BY <1>1, <1>2, <2>3, <2>4, RunMoves DEF Opened
  <2>6. Len(data[log]) > MaxLines
    BY <1>3, <1>5
  <2> QED BY <1>1, <2>3, <2>5, <2>6 DEF lines
<1> QED BY <1>4, <1>5
LEMMA OpenTmpMoves ==
  ASSUME Typed, NEW w \in Writers, OpenTmp(w)
  PROVE  /\ Typed' /\ UNCHANGED <<log, history, reader>>
         /\ run[w].at = "open_tmp" /\ run'[w].at = "write_tmp"
         /\ run'[w].lines = run[w].lines /\ run'[w].handle = tmp'
         /\ tmp' \in Inodes /\ data' = [data EXCEPT ![tmp'] = <<>>]
         /\ tmp' = tmp \/ tmp' \notin {log, reader.handle}
<1> USE SamplerAssumption
<1> DEFINE new == [run[w] EXCEPT !.at = "write_tmp", !.handle = tmp']
<1>1. /\ run[w].at = "open_tmp" /\ run[w].handle = None /\ run[w] \in Runs /\ log # None
      /\ tmp' = IF tmp = None THEN FreeInode ELSE tmp
      /\ data' = [data EXCEPT ![tmp'] = <<>>]
      /\ run' = [run EXCEPT ![w].at = "write_tmp", ![w].handle = tmp']
      /\ UNCHANGED <<log, taken, history, reader>>
  BY DEF OpenTmp, Typed, Opened
<1>2. tmp' \in Inodes /\ (tmp' = tmp \/ tmp' \notin {log, reader.handle})
  <2>1. CASE tmp = None
    BY <1>1, <2>1, InodeIsFree
  <2>2. CASE tmp # None
    BY <1>1, <2>2 DEF Typed
  <2> QED BY <2>1, <2>2
<1>3. data' \in [Inodes -> Seq(Lines)]
  BY <1>1, NoLines DEF Typed
<1>4. /\ new \in Runs /\ new.at = "write_tmp" /\ new.handle = tmp'
      /\ new.lines = run[w].lines
  BY <1>1, <1>2 DEF Runs
<1>5. run' = [run EXCEPT ![w] = new]
  BY <1>1 DEF Typed, Runs
<1> HIDE DEF new
<1>6. tmp' # None
  BY <1>2
<1>7. Typed' /\ run'[w] = new
  <2>1. /\ history' \in Seq(Lines) /\ log' \in Inodes \cup {None} /\ log' # None
        /\ taken' \in 0 .. MaxSamples
    BY <1>1 DEF Typed
  <2> QED BY <1>1, <1>2, <1>3, <1>4, <1>5, <1>6, <2>1, RunMoves DEF Opened
<1> QED BY <1>1, <1>2, <1>4, <1>7

LEMMA WriteTmpMoves ==
  ASSUME Typed, NEW w \in Writers, WriteTmp(w)
  PROVE  /\ Typed' /\ UNCHANGED <<log, tmp, history, reader>>
         /\ run[w].at = "write_tmp" /\ run'[w].at = "replace"
         /\ run'[w].lines = run[w].lines /\ run[w].handle \in Inodes
         /\ \A i \in Inodes \ {run[w].handle} : data'[i] = data[i]
         /\ data[run[w].handle] = <<>> => data'[run[w].handle] = run[w].lines
<1> USE SamplerAssumption
<1> DEFINE new == [run[w] EXCEPT !.at = "replace", !.handle = None]
           old == data[run[w].handle]
           lines == run[w].lines
           rest == SubSeq(old, Len(lines) + 1, Len(old))
<1>1. /\ run[w].at = "write_tmp" /\ run[w].handle \in Inodes /\ run[w] \in Runs
      /\ log # None /\ old \in Seq(Lines) /\ lines \in Seq(Lines)
  BY DEF WriteTmp, Typed, Opened, Runs
<1>2. /\ data' = [data EXCEPT ![run[w].handle] = lines \o rest]
      /\ run' = [run EXCEPT ![w].at = "replace", ![w].handle = None]
      /\ UNCHANGED <<log, tmp, taken, history, reader>>
  BY DEF WriteTmp
<1>3. lines \o rest \in Seq(Lines)
  <2>1. Len(lines) \in Nat /\ Len(old) \in Nat
    BY <1>1, LenProperties
  <2>2. \A i \in Len(lines) + 1 .. Len(old) : old[i] \in Lines
    BY <1>1, <2>1, ElementOfSeq
  <2>3. rest \in Seq(Lines)
    BY <2>1, <2>2, SubSeqProperties
  <2> QED BY <1>1, <2>3, ConcatProperties
<1>4. old = <<>> => lines \o rest = lines
  <2> SUFFICES ASSUME old = <<>> PROVE lines \o rest = lines
    OBVIOUS
  <2>1. Len(lines) \in Nat /\ Len(old) = 0
    BY <1>1, NoLines, LenProperties
  <2>2. rest = <<>>
    BY <2>1, SubSeqEmpty
  <2> QED BY <1>1, <2>2, ConcatEmptySeq
<1>5. /\ data' \in [Inodes -> Seq(Lines)] /\ data'[run[w].handle] = lines \o rest
      /\ \A i \in Inodes \ {run[w].handle} : data'[i] = data[i]
  BY <1>1, <1>2, <1>3 DEF Typed
<1>6. /\ new \in Runs /\ new.at = "replace" /\ new.handle = None /\ new.lines = lines
  BY <1>1 DEF Runs
<1>7. run' = [run EXCEPT ![w] = new]
  BY <1>1, <1>2 DEF Typed, Runs
<1> HIDE DEF new
<1>8. Typed' /\ run'[w] = new
  <2>1. /\ history' \in Seq(Lines) /\ log' \in Inodes \cup {None} /\ log' # None
        /\ tmp' \in Inodes \cup {None} /\ taken' \in 0 .. MaxSamples
    BY <1>1, <1>2 DEF Typed
  <2> QED BY <1>2, <1>5, <1>6, <1>7, <2>1, RunMoves DEF Opened
<1> QED BY <1>1, <1>2, <1>4, <1>5, <1>6, <1>8

LEMMA ReplaceMoves ==
  ASSUME Typed, NEW w \in Writers, Replace(w)
  PROVE  /\ Typed' /\ UNCHANGED <<data, history, reader>>
         /\ run[w].at = "replace" /\ run'[w].at = "idle"
         /\ tmp # None => log' = tmp /\ tmp' = None
         /\ tmp = None => log' = log
<1> USE SamplerAssumption
<1>1. /\ run[w].at = "replace" /\ log # None
      /\ UNCHANGED <<data, taken, history, reader>>
      /\ tmp = None => Exits(w, 1) /\ UNCHANGED <<log, tmp>>
      /\ tmp # None => log' = tmp /\ tmp' = None /\ Exits(w, 0)
  BY DEF Replace, Typed
<1>2. PICK code \in {0, 1} : Exits(w, code)
  BY <1>1
<1> DEFINE new == [Idle EXCEPT !.sample = run[w].sample, !.code = code]
<1>3. /\ new \in Runs /\ new.at = "idle" /\ new.handle = None
      /\ run' = [run EXCEPT ![w] = new]
  BY <1>2, ExitsRuns
<1> HIDE DEF new
<1>4. Typed' /\ run'[w] = new
  <2>1. /\ data' \in [Inodes -> Seq(Lines)] /\ history' \in Seq(Lines)
        /\ log' \in Inodes \cup {None} /\ log' # None
        /\ tmp' \in Inodes \cup {None} /\ taken' \in 0 .. MaxSamples
    BY <1>1 DEF Typed
  <2> QED BY <1>1, <1>3, <2>1, RunMoves DEF Opened
<1> QED BY <1>1, <1>3, <1>4

LEMMA KillMoves ==
  ASSUME Typed, NEW w \in Writers, Kill(w)
  PROVE  /\ Typed' /\ UNCHANGED <<log, tmp, reader>>
         /\ run'[w].at = "idle" /\ run'[w].code = 1
         /\ \/ UNCHANGED <<data, history>>
            \/ /\ run[w].at = "append" /\ run[w].handle \in Inodes
               /\ data' = [data EXCEPT ![run[w].handle] = Appended(@, Torn)]
               /\ history' = Appended(history, Torn)
<1> USE SamplerAssumption
<1>1. /\ log # None /\ Exits(w, 1) /\ UNCHANGED <<log, tmp, taken, reader>>
      /\ \/ UNCHANGED <<data, history>>
         \/ /\ run[w].at = "append" /\ run[w].handle \in Inodes
            /\ data' = [data EXCEPT ![run[w].handle] = Appended(@, Torn)]
            /\ history' = Appended(history, Torn)
  <2>1. /\ run[w].at # "idle" /\ Exits(w, 1) /\ UNCHANGED <<log, tmp, taken, reader>>
        /\ \/ UNCHANGED <<data, history>>
           \/ /\ run[w].at = "append"
              /\ data' = [data EXCEPT ![run[w].handle] = Appended(@, Torn)]
              /\ history' = Appended(history, Torn)
    BY DEF Kill
  <2>2. log # None /\ (run[w].at = "append" => run[w].handle \in Inodes)
    BY <2>1 DEF Typed, Opened, Runs
  <2> QED BY <2>1, <2>2
<1>2. data' \in [Inodes -> Seq(Lines)] /\ history' \in Seq(Lines)
  <2>1. Torn \in Lines
    BY DEF Lines
  <2>2. CASE UNCHANGED <<data, history>>
    BY <2>2 DEF Typed
  <2>3. CASE ~UNCHANGED <<data, history>>
    <3>1. /\ run[w].handle \in Inodes
          /\ data' = [data EXCEPT ![run[w].handle] = Appended(data[run[w].handle], Torn)]
          /\ history' = Appended(history, Torn)
      BY <1>1, <2>3
    <3>2. /\ data[run[w].handle] \in Seq(Lines) /\ history \in Seq(Lines)
          /\ data \in [Inodes -> Seq(Lines)]
      BY <3>1 DEF Typed
    <3>3. Appended(data[run[w].handle], Torn) \in Seq(Lines) /\ Appended(history, Torn) \in Seq(Lines)
      BY <2>1, <3>2, AppendedFacts
    <3> QED BY <3>1, <3>2, <3>3
  <2> QED BY <2>2, <2>3
<1> DEFINE new == [Idle EXCEPT !.sample = run[w].sample, !.code = 1]
<1>3. /\ new \in Runs /\ new.at = "idle" /\ new.handle = None /\ new.code = 1
      /\ run' = [run EXCEPT ![w] = new]
  BY <1>1, ExitsRuns
<1> HIDE DEF new
<1>4. Typed' /\ run'[w] = new
  <2>1. /\ log' \in Inodes \cup {None} /\ log' # None
        /\ tmp' \in Inodes \cup {None} /\ taken' \in 0 .. MaxSamples
    BY <1>1 DEF Typed
  <2> QED BY <1>1, <1>2, <1>3, <2>1, RunMoves DEF Opened
<1> QED BY <1>1, <1>3, <1>4

(* The reader's steps leave the runs alone.                                *)
LEMMA ReadMoves == Typed /\ Read => Typed' /\ UNCHANGED writing
<1> SUFFICES ASSUME Typed, Read PROVE Typed' /\ UNCHANGED writing
  OBVIOUS
<1> USE SamplerAssumption
<1>1. NotReading \in Readers /\ NotReading.at = "idle"
  BY NoLines DEF NotReading, Readers
<1>2. UNCHANGED writing
  BY DEF Read, OpenForReading, ReadBuffer, ReadToEnd, Reported
<1>3. reader' \in Readers /\ (reader'.at = "reading" => reader'.handle # None)
  <2>1. CASE OpenForReading
    <3>1. Len(history) \in Nat
      BY LenProperties DEF Typed
    <3>2. log # None => [NotReading EXCEPT !.at = "reading", !.handle = log,
                                    !.opened = Len(history)] \in Readers
      BY <3>1, NoLines DEF NotReading, Readers, Typed
    <3>3. [NotReading EXCEPT !.at = "done"] \in Readers
      BY NoLines DEF NotReading, Readers
    <3> QED BY <2>1, <3>2, <3>3 DEF OpenForReading, NotReading
  <2>2. CASE ReadBuffer
    <3> DEFINE file == data[reader.handle]
               n == Len(reader.lines)
    <3>1. PICK m \in n + 1 .. Len(file) :
            reader' = [reader EXCEPT !.lines = @ \o SubSeq(file, Len(@) + 1, m)]
      BY <2>2 DEF ReadBuffer
    <3>2. /\ reader.at = "reading" /\ file \in Seq(Lines) /\ Len(file) \in Nat
          /\ reader.lines \in Seq(Lines) /\ n \in Nat /\ reader \in Readers
      BY <2>2, LenProperties DEF ReadBuffer, Typed, Readers
    <3>3. \A i \in n + 1 .. m : file[i] \in Lines
      BY <3>1, <3>2, ElementOfSeq
    <3>4. SubSeq(file, n + 1, m) \in Seq(Lines)
      BY <3>1, <3>2, <3>3, SubSeqProperties
    <3>5. reader.lines \o SubSeq(file, n + 1, m) \in Seq(Lines)
      BY <3>2, <3>4, ConcatProperties
    <3> QED BY <3>1, <3>2, <3>5 DEF Readers, Typed
  <2>3. CASE ReadToEnd
    <3> DEFINE file == data[reader.handle]
               n == Len(reader.lines)
               rest == SubSeq(file, n + 1, Len(file))
    <3>1. /\ file \in Seq(Lines) /\ Len(file) \in Nat /\ reader.lines \in Seq(Lines)
          /\ n \in Nat /\ reader \in Readers
      BY <2>3, LenProperties DEF ReadToEnd, Typed, Readers
    <3>2. \A i \in n + 1 .. Len(file) : file[i] \in Lines
      BY <3>1, ElementOfSeq
    <3>3. rest \in Seq(Lines)
      BY <3>1, <3>2, SubSeqProperties
    <3>4. reader.lines \o rest \in Seq(Lines)
      BY <3>1, <3>3, ConcatProperties
    <3> HIDE DEF rest
    <3>5. Newest(reader.lines \o rest, Limit) \in Seq(Lines)
      <4>1. Limit \in Nat
        OBVIOUS
      <4> QED BY <3>4, <4>1, NewestFacts
    <3>6. reader' = [reader EXCEPT !.at = "done", !.handle = None,
                       !.lines = Newest(reader.lines \o rest, Limit), !.until = history]
      BY <2>3 DEF ReadToEnd, rest
    <3> QED BY <3>1, <3>5, <3>6 DEF Readers, Typed
  <2>4. CASE Reported
    BY <1>1, <2>4 DEF Reported
  <2> QED BY <2>1, <2>2, <2>3, <2>4 DEF Read
<1>4. UNCHANGED <<data, log, tmp, run, taken, history>>
  BY <1>2 DEF writing
<1> QED BY <1>2, <1>3, <1>4 DEF Typed

LEMMA NextTyped == Typed /\ [Next]_vars => Typed'
<1> SUFFICES ASSUME Typed, [Next]_vars PROVE Typed'
  OBVIOUS
<1>1. CASE UNCHANGED vars
  BY <1>1 DEF vars, Typed
<1>2. ASSUME NEW w \in Writers, RunStep(w) PROVE Typed'
  BY <1>2, OpenLogMoves, WriteLineMoves, StatMoves, ReadLinesMoves, OpenTmpMoves,
     WriteTmpMoves, ReplaceMoves, KillMoves DEF RunStep
<1>3. CASE Read
  BY <1>3, ReadMoves
<1> QED BY <1>1, <1>2, <1>3 DEF Next

(* The log, its temporary file and the runs have their types, for any runs *)
(* at a time: a run has a file open in two places only.                    *)
THEOREM TypeCorrect == Spec => []TypeOK
<1>1. Typed => TypeOK
  BY DEF Typed, Runs, Opened, TypeOK
<1> QED BY InitTyped, NextTyped, <1>1, PTL DEF Spec
-----------------------------------------------------------------------------
(* One run at a time: the minute timer's, and none by hand beside it.      *)

OneRun == \E w \in Writers : Writers = {w}

Kept == Ends(LogLines, history, Len(history))

Apart == log # None => log # tmp

(* From its read to its rename a trim finds the log as it has read it, with *)
(* a whole last line, and the temporary file as it has written it.         *)
Trim(w) ==
  /\ run[w].at = "append" => run[w].handle = log
  /\ run[w].at \in {"stat", "read", "open_tmp", "write_tmp", "replace"} => Whole(LogLines)
  /\ run[w].at \in {"open_tmp", "write_tmp", "replace"} =>
       Len(LogLines) > MaxLines /\ run[w].lines = Newest(LogLines, MaxLines)
  /\ run[w].at = "write_tmp" => run[w].handle = tmp /\ data[tmp] = <<>>
  /\ run[w].at = "replace" => tmp # None /\ data[tmp] = run[w].lines
  /\ (run[w].at = "idle" /\ run[w].code = 0) => Len(LogLines) <= MaxLines

LogInv == Typed /\ Kept /\ Apart /\ \A w \in Writers : Trim(w)

LEMMA LogLinesType ==
  ASSUME Typed
  PROVE  LogLines \in Seq(Lines) /\ Len(LogLines) \in Nat
BY NoLines, LenProperties DEF Typed, LogLines

LEMMA InitLog == Init => LogInv
<1> SUFFICES ASSUME Init PROVE LogInv
  OBVIOUS
<1> USE SamplerAssumption
<1>1. Typed
  BY InitTyped
<1>2. /\ log = None /\ history = <<>> /\ LogLines = <<>>
      /\ \A w \in Writers : run[w] = Idle
  BY DEF Init, LogLines
<1>3. Kept /\ Apart
  BY <1>2, NoLines DEF Kept, Ends, Apart
<1>4. \A w \in Writers : Trim(w)
  BY <1>2, NoLines DEF Trim, Idle
<1> QED BY <1>1, <1>3, <1>4 DEF LogInv

LEMMA OpenLogKeeps ==
  ASSUME LogInv, NEW w \in Writers, Writers = {w}, OpenLog(w)
  PROVE  LogInv'
<1> USE SamplerAssumption
<1>1. /\ Typed' /\ UNCHANGED <<tmp, history, reader>>
      /\ run'[w].at = "append" /\ run'[w].handle = log' /\ log' \in Inodes
      /\ \/ log' = log /\ data' = data
         \/ /\ log = None /\ log' \notin {tmp, reader.handle}
            /\ data' = [data EXCEPT ![log'] = <<>>]
  BY OpenLogMoves DEF LogInv
<1>2. LogLines' = LogLines
  BY <1>1 DEF LogInv, Typed, LogLines
<1>3. Kept' /\ Apart'
  BY <1>1, <1>2 DEF LogInv, Kept, Apart
<1>4. Trim(w)'
  BY <1>1 DEF Trim
<1> QED BY <1>1, <1>3, <1>4 DEF LogInv

(* A line, whole or torn, that a run appends to the log.                   *)
LEMMA AppendKeeps ==
  ASSUME Typed, Kept, Apart, NEW line \in Lines, log \in Inodes,
         data' = [data EXCEPT ![log] = Appended(@, line)],
         history' = Appended(history, line), UNCHANGED <<log, tmp>>
  PROVE  Kept' /\ Apart' /\ (line # Torn => Whole(LogLines)')
<1> USE SamplerAssumption
<1>1. LogLines = data[log] /\ LogLines' = Appended(data[log], line)
  BY DEF Typed, LogLines
<1>2. Kept'
  BY <1>1, EndsAppended DEF Kept, Typed
<1>3. line # Torn => Whole(LogLines)'
  <2>1. data[log] \in Seq(Lines)
    BY DEF Typed
  <2>2. LogLines'[Len(LogLines')] \in {line, Junk}
    BY <1>1, <2>1, AppendedFacts
  <2> QED BY <2>2 DEF Whole
<1> QED BY <1>2, <1>3 DEF Apart

LEMMA WriteLineKeeps ==
  ASSUME LogInv, NEW w \in Writers, Writers = {w}, WriteLine(w)
  PROVE  LogInv'
<1>1. /\ Typed' /\ UNCHANGED <<log, tmp, reader>>
      /\ run[w].at = "append" /\ run'[w].at = "stat"
      /\ run[w].handle \in Inodes /\ run[w].sample \in Lines \ {Torn}
      /\ data' = [data EXCEPT ![run[w].handle] = Appended(@, run[w].sample)]
      /\ history' = Appended(history, run[w].sample)
  BY WriteLineMoves DEF LogInv
<1>2. run[w].handle = log
  BY <1>1 DEF LogInv, Trim
<1>3. Kept' /\ Apart' /\ Whole(LogLines)'
  BY <1>1, <1>2, AppendKeeps DEF LogInv
<1>4. Trim(w)'
  BY <1>1, <1>3 DEF Trim
<1> QED BY <1>1, <1>3, <1>4 DEF LogInv

(* A file too small to be read has no line too many.                       *)
LEMMA SmallIsShort ==
  ASSUME NEW n \in Nat, n * LineBytes <= MaxLines * MinLineBytes
  PROVE  n <= MaxLines
<1> USE SamplerAssumption
<1> SUFFICES ASSUME n > MaxLines PROVE FALSE
  OBVIOUS
<1>1. \A a, b, c \in Nat : b < c => a * b <= a * c
  OBVIOUS
<1>2. MaxLines * MinLineBytes <= MaxLines * LineBytes
  BY <1>1
<1>3. \A a, b, c \in Nat : a > b => b * c + c <= a * c
  <2> SUFFICES ASSUME NEW a \in Nat, NEW b \in Nat, NEW c \in Nat, a > b
               PROVE  b * c + c <= a * c
    OBVIOUS
  <2>1. PICK d \in Nat : a = b + 1 + d
    <3>1. a - b - 1 \in Nat /\ a = b + 1 + (a - b - 1)
      OBVIOUS
    <3> QED BY <3>1
  <2>2. a * c = b * c + c + d * c /\ d * c \in Nat
    BY <2>1
  <2> QED BY <2>2
<1>4. MaxLines * LineBytes + LineBytes <= n * LineBytes
  BY <1>3
<1>5. /\ MaxLines * LineBytes \in Nat /\ n * LineBytes \in Nat
      /\ MaxLines * MinLineBytes \in Nat /\ LineBytes > 0
  OBVIOUS
<1> QED BY <1>2, <1>4, <1>5

LEMMA StatKeeps ==
  ASSUME LogInv, NEW w \in Writers, Writers = {w}, Stat(w)
  PROVE  LogInv'
<1>1. /\ Typed' /\ UNCHANGED <<data, log, tmp, history, reader>>
      /\ run[w].at = "stat" /\ log # None
      /\ \/ run'[w].at = "idle" /\ Len(data[log]) * LineBytes <= MaxLines * MinLineBytes
         \/ run'[w].at = "read"
  BY StatMoves DEF LogInv
<1>2. LogLines' = LogLines /\ LogLines = data[log] /\ Len(LogLines) \in Nat
  BY <1>1, LogLinesType DEF LogLines, LogInv
<1>3. Kept' /\ Apart'
  BY <1>1, <1>2 DEF LogInv, Kept, Apart
<1>4. Whole(LogLines)
  BY <1>1 DEF LogInv, Trim
<1>5. run'[w].at = "idle" => Len(LogLines) <= MaxLines
  BY <1>1, <1>2, SmallIsShort
<1>6. Trim(w)'
  BY <1>1, <1>2, <1>4, <1>5 DEF Trim
<1> QED BY <1>1, <1>3, <1>6 DEF LogInv

LEMMA ReadLinesKeeps ==
  ASSUME LogInv, NEW w \in Writers, Writers = {w}, ReadLines(w)
  PROVE  LogInv'
<1>1. /\ Typed' /\ UNCHANGED <<data, log, tmp, history, reader>>
      /\ run[w].at = "read" /\ log # None
      /\ \/ run'[w].at = "idle" /\ Len(data[log]) <= MaxLines
         \/ /\ run'[w].at = "open_tmp" /\ Len(data[log]) > MaxLines
            /\ run'[w].lines = Newest(data[log], MaxLines)
  BY ReadLinesMoves DEF LogInv
<1>2. LogLines' = LogLines /\ LogLines = data[log]
  BY <1>1 DEF LogLines
<1>3. Kept' /\ Apart'
  BY <1>1, <1>2 DEF LogInv, Kept, Apart
<1>4. Whole(LogLines)
  BY <1>1 DEF LogInv, Trim
<1>5. Trim(w)'
  BY <1>1, <1>2, <1>4 DEF Trim
<1> QED BY <1>1, <1>3, <1>5 DEF LogInv

LEMMA OpenTmpKeeps ==
  ASSUME LogInv, NEW w \in Writers, Writers = {w}, OpenTmp(w)
  PROVE  LogInv'
<1>1. /\ Typed' /\ UNCHANGED <<log, history, reader>>
      /\ run[w].at = "open_tmp" /\ run'[w].at = "write_tmp"
      /\ run'[w].lines = run[w].lines /\ run'[w].handle = tmp'
      /\ tmp' \in Inodes /\ data' = [data EXCEPT ![tmp'] = <<>>]
      /\ tmp' = tmp \/ tmp' \notin {log, reader.handle}
  BY OpenTmpMoves DEF LogInv
<1>2. log \in Inodes /\ log # tmp'
  BY <1>1 DEF LogInv, Typed, Apart
<1>3. LogLines' = LogLines /\ data'[tmp'] = <<>>
  BY <1>1, <1>2 DEF LogLines, LogInv, Typed
<1>4. Kept' /\ Apart'
  BY <1>1, <1>2, <1>3 DEF LogInv, Kept, Apart
<1>5. Trim(w)'
  BY <1>1, <1>3 DEF LogInv, Trim
<1> QED BY <1>1, <1>4, <1>5 DEF LogInv

LEMMA WriteTmpKeeps ==
  ASSUME LogInv, NEW w \in Writers, Writers = {w}, WriteTmp(w)
  PROVE  LogInv'
<1>1. /\ Typed' /\ UNCHANGED <<log, tmp, history, reader>>
      /\ run[w].at = "write_tmp" /\ run'[w].at = "replace"
      /\ run'[w].lines = run[w].lines /\ run[w].handle \in Inodes
      /\ \A i \in Inodes \ {run[w].handle} : data'[i] = data[i]
      /\ data[run[w].handle] = <<>> => data'[run[w].handle] = run[w].lines
  BY WriteTmpMoves DEF LogInv
<1>2. run[w].handle = tmp /\ data[tmp] = <<>> /\ log \in Inodes /\ log # tmp /\ tmp # None
  BY <1>1, SamplerAssumption DEF LogInv, Typed, Apart, Trim
<1>3. LogLines' = LogLines
  BY <1>1, <1>2 DEF LogLines
<1>4. Kept' /\ Apart'
  BY <1>1, <1>3 DEF LogInv, Kept, Apart
<1>5. Trim(w)'
  BY <1>1, <1>2, <1>3 DEF LogInv, Trim
<1> QED BY <1>1, <1>4, <1>5 DEF LogInv

LEMMA ReplaceKeeps ==
  ASSUME LogInv, NEW w \in Writers, Writers = {w}, Replace(w)
  PROVE  LogInv' /\ Whole(LogLines)
<1> USE SamplerAssumption
<1>1. /\ Typed' /\ UNCHANGED <<data, history, reader>>
      /\ run[w].at = "replace" /\ run'[w].at = "idle"
      /\ tmp # None => log' = tmp /\ tmp' = None
  BY ReplaceMoves DEF LogInv
<1>2. /\ tmp # None /\ data[tmp] = Newest(LogLines, MaxLines)
      /\ Len(LogLines) > MaxLines /\ Whole(LogLines)
  BY <1>1 DEF LogInv, Trim
<1>3. LogLines' = Newest(LogLines, MaxLines)
  BY <1>1, <1>2 DEF LogLines
<1>4. /\ Ends(Newest(LogLines, MaxLines), history, Len(history))
      /\ Len(Newest(LogLines, MaxLines)) = MaxLines
  <2>1. LogLines \in Seq(Lines) /\ history \in Seq(Lines) /\ Len(history) \in Nat
    BY LogLinesType, LenProperties DEF LogInv, Typed
  <2> QED BY <1>2, <2>1, EndsNewest DEF LogInv, Kept
<1>5. Kept' /\ Apart'
  BY <1>1, <1>2, <1>3, <1>4 DEF Kept, Apart
<1>6. Trim(w)'
  BY <1>1, <1>3, <1>4 DEF Trim
<1> QED BY <1>1, <1>2, <1>5, <1>6 DEF LogInv

LEMMA KillKeeps ==
  ASSUME LogInv, NEW w \in Writers, Writers = {w}, Kill(w)
  PROVE  LogInv'
<1>1. /\ Typed' /\ UNCHANGED <<log, tmp, reader>>
      /\ run'[w].at = "idle" /\ run'[w].code = 1
      /\ \/ UNCHANGED <<data, history>>
         \/ /\ run[w].at = "append" /\ run[w].handle \in Inodes
            /\ data' = [data EXCEPT ![run[w].handle] = Appended(@, Torn)]
            /\ history' = Appended(history, Torn)
  BY KillMoves DEF LogInv
<1>2. Kept' /\ Apart'
  <2>1. CASE UNCHANGED <<data, history>>
    <3>1. LogLines' = LogLines
      BY <1>1, <2>1 DEF LogLines
    <3> QED BY <1>1, <2>1, <3>1 DEF LogInv, Kept, Apart
  <2>2. CASE ~UNCHANGED <<data, history>>
    <3>1. run[w].handle = log /\ Torn \in Lines
      BY <1>1, <2>2 DEF LogInv, Trim, Lines
    <3> QED BY <1>1, <2>2, <3>1, AppendKeeps DEF LogInv
  <2> QED BY <2>1, <2>2
<1>3. Trim(w)'
  BY <1>1 DEF Trim
<1> QED BY <1>1, <1>2, <1>3 DEF LogInv
LEMMA NextLog ==
  ASSUME OneRun, LogInv, [Next]_vars PROVE LogInv'
<1> PICK w \in Writers : Writers = {w}
  BY DEF OneRun
<1>1. CASE UNCHANGED vars
  BY <1>1 DEF vars, LogInv, Typed, Kept, Apart, Trim, LogLines
<1>2. CASE RunStep(w)
  BY <1>2, OpenLogKeeps, WriteLineKeeps, StatKeeps, ReadLinesKeeps, OpenTmpKeeps,
     WriteTmpKeeps, ReplaceKeeps, KillKeeps DEF RunStep
<1>3. CASE Read
  <2>1. Typed' /\ UNCHANGED <<data, log, tmp, run, history>>
    BY <1>3, ReadMoves DEF LogInv, writing
  <2> QED BY <2>1 DEF LogInv, Kept, Apart, Trim, LogLines
<1>4. \A v \in Writers : v = w
  OBVIOUS
<1> QED BY <1>1, <1>2, <1>3, <1>4 DEF Next

(* With one run at a time the log always is the newest part of all that was *)
(* written, killed runs included.                                          *)
THEOREM NothingIsLost == OneRun => (Spec => []LogIsNewest)
<1> SUFFICES ASSUME OneRun PROVE Spec => []LogIsNewest
  OBVIOUS
<1>1. LogInv => LogIsNewest
  BY LogLinesType, EndsSuffix DEF LogInv, Kept, Typed, LogIsNewest
<1>2. LogInv /\ [Next]_vars => LogInv'
  BY NextLog
<1> QED BY InitLog, <1>1, <1>2, PTL DEF Spec

(* With one run at a time, one that ended normally has left at most        *)
(* MaxLines lines, and all of them if there are no more.                   *)
THEOREM LogStaysCapped == OneRun => (Spec => []LogIsCapped)
<1> SUFFICES ASSUME OneRun PROVE Spec => []LogIsCapped
  OBVIOUS
<1>1. LogInv => LogIsCapped
  <2> SUFFICES ASSUME LogInv, NEW w \in Writers, run[w].at = "idle", run[w].code = 0
               PROVE  Len(LogLines) \in {Len(history), MaxLines} /\ Len(LogLines) <= MaxLines
    BY DEF LogIsCapped
  <2>1. Len(LogLines) <= MaxLines /\ Len(LogLines) \in Nat
    BY LogLinesType DEF LogInv, Trim
  <2>2. Len(LogLines) = Len(history) \/ Len(LogLines) >= MaxLines
    BY DEF LogInv, Kept, Ends
  <2> QED BY <2>1, <2>2, SamplerAssumption
<1>2. LogInv /\ [Next]_vars => LogInv'
  BY NextLog
<1> QED BY InitLog, <1>1, <1>2, PTL DEF Spec

-----------------------------------------------------------------------------
(* The reader, one run at a time going on meanwhile. Its file is the log,  *)
(* or was: then it stays as it was when it was replaced.                   *)

File == data[reader.handle]

Reading ==
  reader.at = "reading" =>
    /\ reader.handle # tmp
    /\ Len(reader.lines) <= Len(File) /\ Whole(reader.lines)
    /\ \A i \in 1 .. Len(reader.lines) : reader.lines[i] = File[i]
    /\ reader.opened <= Len(history)
    /\ reader.handle # log =>
         /\ Whole(File)
         /\ \E e \in reader.opened .. Len(history) : Ends(File, history, e)

IInv == LogInv /\ Reading /\ ReaderSeesTheLog

(* What a step of the run does to a file that a reader has open: nothing,  *)
(* or a line is appended to the log. A log is replaced behind a whole line. *)
LEMMA FileMoves ==
  ASSUME LogInv, NEW w \in Writers, Writers = {w}, RunStep(w),
         reader.handle \in Inodes, reader.handle # tmp
  PROVE  /\ reader.handle # tmp' /\ UNCHANGED reader
         /\ \/ /\ File' = File /\ UNCHANGED history
               /\ reader.handle # log => reader.handle # log'
               /\ reader.handle = log /\ log' # log => Whole(File)
            \/ \E line \in Lines :
                 /\ history' = Appended(history, line) /\ log' = log
                 /\ File' = IF reader.handle = log THEN Appended(File, line) ELSE File
<1> USE SamplerAssumption
<1>1. CASE OpenLog(w)
  <2>1. /\ UNCHANGED <<tmp, history, reader>>
        /\ \/ log' = log /\ data' = data
           \/ /\ log = None /\ log' \notin {tmp, reader.handle}
              /\ data' = [data EXCEPT ![log'] = <<>>]
    BY <1>1, OpenLogMoves DEF LogInv
  <2> QED BY <2>1 DEF LogInv, Typed, File
<1>2. CASE WriteLine(w)
  <2>1. /\ UNCHANGED <<log, tmp, reader>> /\ run[w].at = "append"
        /\ run[w].handle \in Inodes /\ run[w].sample \in Lines
        /\ data' = [data EXCEPT ![run[w].handle] = Appended(@, run[w].sample)]
        /\ history' = Appended(history, run[w].sample)
    BY <1>2, WriteLineMoves DEF LogInv
  <2>2. run[w].handle = log
    BY <2>1 DEF LogInv, Trim
  <2>3. File' = IF reader.handle = log THEN Appended(File, run[w].sample) ELSE File
    BY <2>1, <2>2 DEF LogInv, Typed, File
  <2> QED BY <2>1, <2>3
<1>3. CASE Stat(w) \/ ReadLines(w)
  <2>1. UNCHANGED <<data, log, tmp, history, reader>>
    BY <1>3, StatMoves, ReadLinesMoves DEF LogInv
  <2> QED BY <2>1 DEF File
<1>4. CASE OpenTmp(w)
  <2>1. /\ UNCHANGED <<log, history, reader>> /\ tmp' \in Inodes
        /\ data' = [data EXCEPT ![tmp'] = <<>>]
        /\ tmp' = tmp \/ tmp' \notin {log, reader.handle}
    BY <1>4, OpenTmpMoves DEF LogInv
  <2> QED BY <2>1 DEF LogInv, Typed, File
<1>5. CASE WriteTmp(w)
  <2>1. /\ UNCHANGED <<log, tmp, history, reader>> /\ run[w].at = "write_tmp"
        /\ \A i \in Inodes \ {run[w].handle} : data'[i] = data[i]
    BY <1>5, WriteTmpMoves DEF LogInv
  <2>2. run[w].handle = tmp
    BY <2>1 DEF LogInv, Trim
  <2> QED BY <2>1, <2>2 DEF File
<1>6. CASE Replace(w)
  <2>1. /\ UNCHANGED <<data, history, reader>> /\ run[w].at = "replace"
        /\ tmp # None => log' = tmp /\ tmp' = None
        /\ Whole(LogLines)
    BY <1>6, ReplaceMoves, ReplaceKeeps DEF LogInv
  <2>2. tmp # None
    BY <2>1 DEF LogInv, Trim
  <2>3. reader.handle = log => File = LogLines
    BY DEF File, LogLines
  <2> QED BY <2>1, <2>2, <2>3 DEF File
<1>7. CASE Kill(w)
  <2>1. /\ UNCHANGED <<log, tmp, reader>>
        /\ \/ UNCHANGED <<data, history>>
           \/ /\ run[w].at = "append" /\ run[w].handle \in Inodes
              /\ data' = [data EXCEPT ![run[w].handle] = Appended(@, Torn)]
              /\ history' = Appended(history, Torn)
    BY <1>7, KillMoves DEF LogInv
  <2>2. CASE UNCHANGED <<data, history>>
    BY <2>1, <2>2 DEF File
  <2>3. CASE ~UNCHANGED <<data, history>>
    <3>1. run[w].handle = log /\ Torn \in Lines
      BY <2>1, <2>3 DEF LogInv, Trim, Lines
    <3>2. File' = IF reader.handle = log THEN Appended(File, Torn) ELSE File
      BY <2>1, <2>3, <3>1 DEF LogInv, Typed, File
    <3> QED BY <2>1, <2>3, <3>1, <3>2
  <2> QED BY <2>2, <2>3
<1> QED BY <1>1, <1>2, <1>3, <1>4, <1>5, <1>6, <1>7 DEF RunStep

LEMMA RunStepIInv ==
  ASSUME IInv, NEW w \in Writers, Writers = {w}, RunStep(w)
  PROVE  Reading' /\ ReaderSeesTheLog'
<1> USE SamplerAssumption
<1>1. UNCHANGED reader
  BY DEF RunStep, OpenLog, WriteLine, Stat, ReadLines, OpenTmp, WriteTmp, Replace, Kill
<1>2. ReaderSeesTheLog'
  BY <1>1 DEF IInv, ReaderSeesTheLog
<1>3. Reading'
  <2> SUFFICES ASSUME reader.at = "reading" PROVE Reading'
    BY <1>1 DEF Reading
  <2> DEFINE h == reader.handle
  <2>1. /\ h \in Inodes /\ h # tmp /\ File \in Seq(Lines) /\ history \in Seq(Lines)
        /\ reader.lines \in Seq(Lines) /\ Len(reader.lines) \in Nat
        /\ Len(File) \in Nat /\ Len(history) \in Nat /\ reader.opened \in Nat
        /\ reader.lines = <<>> <=> Len(reader.lines) = 0
    BY LenProperties, EmptySeq DEF IInv, Reading, LogInv, Typed, Readers, File
  <2>2. /\ Len(reader.lines) <= Len(File) /\ Whole(reader.lines)
        /\ \A i \in 1 .. Len(reader.lines) : reader.lines[i] = File[i]
        /\ reader.opened <= Len(history)
        /\ h # log => /\ Whole(File)
                      /\ \E e \in reader.opened .. Len(history) : Ends(File, history, e)
    BY DEF IInv, Reading
  <2>3. h = log => Ends(File, history, Len(history))
    BY <2>1 DEF IInv, LogInv, Kept, LogLines, File
  <2>4. h # tmp' /\ UNCHANGED reader
    BY <2>1, FileMoves DEF IInv
  <2>5. CASE /\ File' = File /\ UNCHANGED history
             /\ h # log => h # log'
             /\ h = log /\ log' # log => Whole(File)
    <3>1. h # log' => /\ Whole(File)
                     /\ \E e \in reader.opened .. Len(history) : Ends(File, history, e)
      <4>1. CASE h # log
        BY <2>2, <4>1
      <4>2. CASE h = log /\ h # log'
        <5>1. Len(history) \in reader.opened .. Len(history)
          BY <2>1, <2>2
        <5> QED BY <2>3, <2>5, <4>2, <5>1
      <4> QED BY <4>1, <4>2
    <3> QED BY <2>2, <2>4, <2>5, <3>1 DEF Reading
  <2>6. ASSUME NEW line \in Lines,
               history' = Appended(history, line), log' = log,
               File' = IF h = log THEN Appended(File, line) ELSE File
        PROVE  Reading'
    <3>1. Len(history') >= Len(history) /\ Len(history') \in Nat
      BY <2>1, <2>6, AppendedFacts
    <3>2. CASE h = log
      <4>1. LastIsTorn(File) => Len(reader.lines) < Len(File)
        <5> SUFFICES ASSUME LastIsTorn(File), Len(reader.lines) = Len(File) PROVE FALSE
          BY <2>1, <2>2
        <5>1. Len(File) # 0
          BY <2>1, EmptySeq DEF LastIsTorn
        <5>2. reader.lines[Len(File)] = File[Len(File)]
          BY <2>1, <2>2, <5>1
        <5> QED BY <2>1, <2>2, <5>1, <5>2 DEF Whole, LastIsTorn
      <4>2. /\ Len(File') >= Len(File) /\ Len(File') \in Nat
            /\ \A i \in 1 .. Len(File) :
                 i < Len(File) \/ ~LastIsTorn(File) => File'[i] = File[i]
        <5>1. File' = Appended(File, line)
          BY <2>6, <3>2
        <5>2. /\ Appended(File, line) \in Seq(Lines)
              /\ Len(Appended(File, line)) = IF LastIsTorn(File) THEN Len(File) ELSE Len(File) + 1
              /\ \A i \in 1 .. Len(File) :
                   i < Len(File) \/ ~LastIsTorn(File) => Appended(File, line)[i] = File[i]
          BY <2>1, AppendedFacts
        <5>3. Len(Appended(File, line)) \in Nat /\ Len(Appended(File, line)) >= Len(File)
          BY <2>1, <5>2
        <5> QED BY <5>1, <5>2, <5>3
      <4>3. \A i \in 1 .. Len(reader.lines) : reader.lines[i] = File'[i]
        BY <2>1, <2>2, <4>1, <4>2
      <4>4. Len(reader.lines) <= Len(File') /\ reader.opened <= Len(history')
        BY <2>1, <2>2, <3>1, <4>2
      <4> QED BY <2>2, <2>4, <2>6, <3>2, <4>3, <4>4 DEF Reading
    <3>3. CASE h # log
      <4>1. PICK e \in reader.opened .. Len(history) : Ends(File, history, e)
        BY <2>2, <3>3
      <4>2. e \in Nat /\ e \in reader.opened .. Len(history')
        BY <2>1, <3>1
      <4>3. Ends(File, history', e)
        BY <2>1, <2>2, <2>6, <3>3, <4>1, <4>2, EndsStays
      <4>4. reader.opened <= Len(history')
        BY <2>1, <2>2, <3>1
      <4> QED BY <2>2, <2>4, <2>6, <3>3, <4>2, <4>3, <4>4 DEF Reading
    <3> QED BY <3>2, <3>3
  <2> QED BY <2>1, <2>5, <2>6, FileMoves DEF IInv
<1> QED BY <1>2, <1>3
LEMMA OpenForReadingIInv == IInv /\ OpenForReading => Reading' /\ ReaderSeesTheLog'
<1> SUFFICES ASSUME IInv, OpenForReading PROVE Reading' /\ ReaderSeesTheLog'
  OBVIOUS
<1>1. UNCHANGED <<data, log, tmp, history>>
  BY DEF OpenForReading, writing
<1>2. CASE log = None
  <2>1. reader'.at = "done" /\ reader'.until = <<>>
    BY <1>2 DEF OpenForReading, NotReading
  <2> QED BY <2>1 DEF Reading, ReaderSeesTheLog
<1>3. CASE log # None
  <2>1. /\ reader'.at = "reading" /\ reader'.handle = log /\ reader'.lines = <<>>
        /\ reader'.opened = Len(history)
    BY <1>3 DEF OpenForReading, NotReading
  <2>2. /\ Len(history) \in Nat /\ log # tmp /\ Len(<<>>) = 0
        /\ data[log] \in Seq(Lines) /\ Len(data[log]) \in Nat
    BY <1>3, NoLines, LenProperties DEF IInv, LogInv, Typed, Apart
  <2> QED BY <1>1, <2>1, <2>2 DEF Reading, ReaderSeesTheLog, Whole, File
<1> QED BY <1>2, <1>3

LEMMA ReadBufferIInv == IInv /\ ReadBuffer => Reading' /\ ReaderSeesTheLog'
<1> SUFFICES ASSUME IInv, ReadBuffer PROVE Reading' /\ ReaderSeesTheLog'
  OBVIOUS
<1> DEFINE n == Len(reader.lines)
<1>1. UNCHANGED <<data, log, tmp, history>> /\ reader.at = "reading"
  BY DEF ReadBuffer, writing
<1>2. PICK m \in n + 1 .. Len(File) :
        /\ File[m] # Torn
        /\ reader' = [reader EXCEPT !.lines = @ \o SubSeq(File, n + 1, m)]
  BY DEF ReadBuffer, File
<1>3. /\ File \in Seq(Lines) /\ Len(File) \in Nat /\ reader.lines \in Seq(Lines)
      /\ n \in Nat /\ reader \in Readers
  BY <1>1, LenProperties DEF IInv, LogInv, Typed, Readers, File
<1>4. m \in n .. Len(File) /\ m \in 0 .. Len(File) /\ m \in 1 .. m /\ m \in Nat
  BY <1>2, <1>3
<1>5. /\ reader'.lines = reader.lines \o SubSeq(File, n + 1, m) /\ reader'.at = "reading"
      /\ reader'.handle = reader.handle /\ reader'.opened = reader.opened
  BY <1>1, <1>2, <1>3 DEF Readers
<1>6. reader'.lines = SubSeq(File, 1, m)
  <2>1. \A i \in 1 .. Len(reader.lines) : reader.lines[i] = File[i]
    BY <1>1 DEF IInv, Reading
  <2> QED BY <1>3, <1>4, <1>5, <2>1, PrefixGrows
<1>7. /\ Len(reader'.lines) = m /\ \A i \in 1 .. m : reader'.lines[i] = File[i]
  BY <1>3, <1>4, <1>6, PrefixFacts
<1>8. Whole(reader'.lines)
  BY <1>2, <1>4, <1>7 DEF Whole
<1>9. m <= Len(File) /\ File' = File
  BY <1>1, <1>2, <1>3, <1>5 DEF File
<1> QED BY <1>1, <1>5, <1>6, <1>7, <1>8, <1>9 DEF IInv, Reading, ReaderSeesTheLog

(* The end of the file is reached: the file is the log, and ends with the  *)
(* last line of the history, or it was, and ends with an earlier one.      *)
LEMMA ReadToEndIInv == IInv /\ ReadToEnd => Reading' /\ ReaderSeesTheLog'
<1> SUFFICES ASSUME IInv, ReadToEnd PROVE Reading' /\ ReaderSeesTheLog'
  OBVIOUS
<1> USE SamplerAssumption
<1> DEFINE n == Len(reader.lines)
           rest == SubSeq(File, n + 1, Len(File))
<1>1. /\ reader.at = "reading"
      /\ reader' = [reader EXCEPT !.at = "done", !.handle = None,
                       !.lines = Newest(reader.lines \o rest, Limit), !.until = history]
  BY DEF ReadToEnd, File
<1>2. /\ File \in Seq(Lines) /\ Len(File) \in Nat /\ reader.lines \in Seq(Lines)
      /\ n \in Nat /\ reader \in Readers /\ history \in Seq(Lines) /\ Len(history) \in Nat
      /\ reader.opened \in Nat /\ reader.handle \in Inodes
  BY <1>1, LenProperties DEF IInv, LogInv, Typed, Readers, File
<1>3. n <= Len(File) /\ \A i \in 1 .. n : reader.lines[i] = File[i]
  BY <1>1 DEF IInv, Reading
<1>4. reader.lines \o rest = File
  <2>1. Len(File) \in n .. Len(File)
    BY <1>2, <1>3
  <2>2. reader.lines \o rest = SubSeq(File, 1, Len(File))
    BY <1>2, <1>3, <2>1, PrefixGrows
  <2> QED BY <1>2, <2>2, SubSeqFull
<1> HIDE DEF rest
<1>5. /\ reader'.at = "done" /\ reader'.lines = Newest(File, Limit)
      /\ reader'.until = history /\ reader'.opened = reader.opened
  BY <1>1, <1>2, <1>4 DEF Readers
<1>6. \E e \in reader.opened .. Len(history) : Ends(File, history, e)
  <2>1. CASE reader.handle = log
    <3>1. Ends(File, history, Len(history)) /\ Len(history) \in reader.opened .. Len(history)
      BY <1>1, <1>2, <2>1 DEF IInv, Reading, LogInv, Kept, LogLines, File
    <3> QED BY <3>1
  <2>2. CASE reader.handle # log
    BY <1>1, <2>2 DEF IInv, Reading
  <2> QED BY <2>1, <2>2
<1>7. PICK e \in reader.opened .. Len(history) : Ends(File, history, e)
  BY <1>6
<1>8. Newest(File, Limit) = Newest(SubSeq(history, 1, e), Limit)
  BY <1>2, <1>7, EndsLimit
<1>9. Len(Newest(File, Limit)) <= Limit
  <2>1. Limit \in Nat
    OBVIOUS
  <2>2. Len(Newest(File, Limit)) = IF Len(File) <= Limit THEN Len(File) ELSE Limit
    BY <1>2, <2>1, NewestFacts
  <2> QED BY <1>2, <2>1, <2>2
<1>10. ReaderSeesTheLog'
  BY <1>5, <1>7, <1>8, <1>9 DEF ReaderSeesTheLog
<1> QED BY <1>5, <1>10 DEF Reading

LEMMA InitIInv == Init => IInv
BY InitLog DEF Init, NotReading, IInv, Reading, ReaderSeesTheLog

LEMMA NextIInv ==
  ASSUME OneRun, IInv, [Next]_vars PROVE IInv'
<1> PICK w \in Writers : Writers = {w}
  BY DEF OneRun
<1>1. LogInv'
  BY NextLog DEF IInv
<1>2. CASE UNCHANGED vars
  BY <1>1, <1>2 DEF vars, IInv, Reading, ReaderSeesTheLog, File
<1>3. CASE RunStep(w)
  BY <1>1, <1>3, RunStepIInv DEF IInv
<1>4. CASE Reported
  BY <1>1, <1>4 DEF Reported, NotReading, IInv, Reading, ReaderSeesTheLog
<1>5. CASE OpenForReading \/ ReadBuffer \/ ReadToEnd
  BY <1>1, <1>5, OpenForReadingIInv, ReadBufferIInv, ReadToEndIInv DEF IInv
<1>6. \A v \in Writers : v = w
  OBVIOUS
<1> QED BY <1>2, <1>3, <1>4, <1>5, <1>6 DEF Next, Read

(* With one run at a time, what a reader gets is the newest lines there    *)
(* were at some moment since it opened the log, none skipped, whatever is  *)
(* appended, trimmed and replaced while it reads.                          *)
THEOREM ReaderIsTold == OneRun => (Spec => []ReaderSeesTheLog)
<1> SUFFICES ASSUME OneRun PROVE Spec => []ReaderSeesTheLog
  OBVIOUS
<1>1. IInv => ReaderSeesTheLog
  BY DEF IInv
<1>2. IInv /\ [Next]_vars => IInv'
  BY NextIInv
<1> QED BY InitIInv, <1>1, <1>2, PTL DEF Spec
=============================================================================
