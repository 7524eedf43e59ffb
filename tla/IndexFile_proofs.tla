-------------------------- MODULE IndexFile_proofs --------------------------
(***************************************************************************)
(* What is proved of IndexFile, in this order: the copy .bak; joining,     *)
(* filtering and cutting sequences, by least counterexamples in sets of    *)
(* naturals; that parsing a serialized list gives it back; what a write    *)
(* does to the list; and from these that the file is always well formed    *)
(* and implements IndexLines.                                              *)
(***************************************************************************)
EXTENDS IndexFile, TLAPS, WellFoundedInduction

(***************************************************************************)
(* The paths a write touches are four different ones.                      *)
(***************************************************************************)
LEMMA Joined ==
  ASSUME NEW a, NEW b
  PROVE  /\ <<a>> \o <<b>> = <<a, b>>
         /\ <<a, b>> # <<>> /\ Head(<<a, b>>) = a /\ Tail(<<a, b>>) = <<b>> /\ Len(<<a, b>>) = 2
         /\ <<a>> # <<>> /\ Head(<<a>>) = a /\ Len(<<a>>) = 1
         /\ <<>> \o <<b>> = <<b>>
<1>1. <<a>> \in Seq({a, b}) /\ <<b>> \in Seq({a, b}) /\ <<a, b>> \in Seq({a, b})
  OBVIOUS
<1>2. Len(<<a, b>>) = 2 /\ <<a, b>> # <<>> /\ Head(<<a, b>>) = a
  OBVIOUS
<1>3. Len(<<a>>) = 1 /\ <<a>> # <<>> /\ Head(<<a>>) = a
  OBVIOUS
<1>4. Tail(<<a, b>>) = <<b>>
  OBVIOUS
<1>5. <<>> \o <<b>> = <<b>>
  BY <1>1
<1>6. <<a>> \o <<b>> = <<a, b>>
  <2> DEFINE ab == <<a>> \o <<b>>
  <2>1. ab \in Seq({a, b}) /\ Len(ab) = 2 /\ ab[1] = a /\ ab[2] = b
    BY <1>1
  <2> HIDE DEF ab
  <2>2. ab = <<a, b>>
    BY <1>1, <1>2, <2>1
  <2> QED
    BY <2>2 DEF ab
<1> QED
  BY <1>2, <1>3, <1>4, <1>5, <1>6

LEMMA PathsDiffer ==
  /\ Main # Bak
  /\ \A path \in {Main, Bak} : Tmp(path) # Main /\ Tmp(path) # Bak
<1>1. Tmp(Main) = <<"md", "tmp">>
  BY Joined DEF Tmp, Main
<1>2. Len(Tmp(Bak)) = 3
  BY DEF Tmp, Bak
<1>3. Len(Main) = 1 /\ Len(Bak) = 2 /\ Bak[2] = "bak" /\ <<"md", "tmp">>[2] = "tmp"
  BY DEF Main, Bak
<1>4. Len(<<"md", "tmp">>) = 2 /\ "tmp" # "bak"
  OBVIOUS
<1> QED
  BY <1>1, <1>2, <1>3, <1>4

(***************************************************************************)
(* What is still to be written: the copy and then the file, or the file    *)
(* when the copy is as the file was; and the temporary file is whole when  *)
(* it is about to be renamed.                                              *)
(***************************************************************************)
Steps == {"idle", "prev", "open", "write", "rename"}
CopyFirst == Exists(Main) /\ op.puts = << <<Bak, disk[Main]>>, <<Main, op.new>> >>
FileOnly ==
  /\ op.puts = << <<Main, op.new>> >>
  /\ Exists(Main) => Exists(Bak) /\ disk[Bak] = disk[Main]
BackUpInv ==
  /\ op = [pc |-> op.pc, new |-> op.new, puts |-> op.puts] /\ op.pc \in Steps
  /\ op.pc \in {"open", "write", "rename"} => CopyFirst \/ FileOnly
  /\ op.pc = "rename" => Exists(Tmp(Target)) /\ disk[Tmp(Target)] = Data

BackUpStep ==
  Exists(Main) /\ disk'[Main] # disk[Main] => Bak \in DOMAIN disk' /\ disk'[Bak] = disk[Main]

LEMMA Targets ==
  ASSUME BackUpInv, op.pc \in {"open", "write", "rename"}
  PROVE  /\ CopyFirst => Target = Bak /\ Data = disk[Main] /\ Len(op.puts) = 2
                         /\ Tail(op.puts) = << <<Main, op.new>> >>
         /\ FileOnly => Target = Main /\ Data = op.new /\ Len(op.puts) = 1
         /\ Target \in {Main, Bak}
<1>1. CopyFirst => Target = Bak /\ Data = disk[Main] /\ Len(op.puts) = 2
                   /\ Tail(op.puts) = << <<Main, op.new>> >>
  BY Joined DEF CopyFirst, Target, Data
<1>2. FileOnly => Target = Main /\ Data = op.new /\ Len(op.puts) = 1
  BY Joined DEF FileOnly, Target, Data
<1> QED
  BY <1>1, <1>2 DEF BackUpInv

LEMMA BeginKeeps == ASSUME BackUpInv, NEW new, Begin(new) PROVE BackUpInv'
BY DEF BackUpInv, Begin, NoWrite, Steps

LEMMA BackUpKeeps == ASSUME BackUpInv, BackUp PROVE BackUpInv'
<1>1. op'.pc = "open" /\ op'.new = op.new /\ op' = [pc |-> op'.pc, new |-> op'.new, puts |-> op'.puts]
  BY DEF BackUpInv, BackUp
<1>2. CASE Exists(Main)
  <2>1. op'.puts = << <<Bak, disk[Main]>>, <<Main, op.new>> >>
    BY <1>2, Joined DEF BackUpInv, BackUp, Puts
  <2> QED
    BY <1>1, <1>2, <2>1 DEF BackUpInv, BackUp, CopyFirst, Exists, Steps
<1>3. CASE ~Exists(Main)
  <2>1. op'.puts = << <<Main, op.new>> >>
    BY <1>3, Joined DEF BackUpInv, BackUp, Puts
  <2> QED
    BY <1>1, <1>3, <2>1 DEF BackUpInv, BackUp, FileOnly, Exists, Steps
<1> QED
  BY <1>2, <1>3

\* Writing the temporary file leaves the file and its copy alone.
LEMMA TmpKeeps == ASSUME BackUpInv, OpenTmp \/ WriteTmp PROVE BackUpInv' /\ BackUpStep
<1>1. op.pc \in {"open", "write"}
  BY DEF OpenTmp, WriteTmp
<1>2. Target \in {Main, Bak}
  BY <1>1, Targets
<1>3. /\ op'.new = op.new /\ op'.puts = op.puts /\ op'.pc \in {"write", "rename"}
      /\ op' = [pc |-> op'.pc, new |-> op'.new, puts |-> op'.puts]
  BY DEF BackUpInv, OpenTmp, WriteTmp
<1>4. PICK text : disk' = With(disk, Tmp(Target), text)
  BY DEF OpenTmp, WriteTmp
<1>5. \A path \in {Main, Bak} :
        (path \in DOMAIN disk' <=> path \in DOMAIN disk) /\ (Exists(path) => disk'[path] = disk[path])
  BY <1>2, <1>4, PathsDiffer DEF With, Exists
<1>6. CopyFirst => CopyFirst'
  BY <1>3, <1>5 DEF CopyFirst, Exists
<1>7. FileOnly => FileOnly'
  BY <1>3, <1>5 DEF FileOnly, Exists
<1>8. Target' = Target /\ Data' = Data
  BY <1>3 DEF Target, Data
<1>9. op'.pc = "rename" => Tmp(Target) \in DOMAIN disk' /\ disk'[Tmp(Target)] = Data
  BY DEF BackUpInv, OpenTmp, WriteTmp, With
<1>10. BackUpInv'
  BY <1>1, <1>3, <1>6, <1>7, <1>8, <1>9 DEF BackUpInv, Steps, Exists, Tmp
<1> QED
  BY <1>5, <1>10 DEF BackUpStep

LEMMA RenameKeeps == ASSUME BackUpInv, Rename PROVE BackUpInv' /\ BackUpStep
<1>1. op.pc = "rename" /\ disk[Tmp(Target)] = Data /\ (CopyFirst \/ FileOnly)
  BY DEF Rename, BackUpInv
<1>2. Target \in {Main, Bak}
  BY <1>1, Targets
<1>3. /\ Target \in DOMAIN disk' /\ disk'[Target] = Data
      /\ \A path \in {Main, Bak} : path # Target =>
           (path \in DOMAIN disk' <=> path \in DOMAIN disk) /\ (Exists(path) => disk'[path] = disk[path])
  BY <1>1, <1>2, PathsDiffer DEF Rename, With, Without, Exists
<1>4. CASE CopyFirst
  <2>1. Target = Bak /\ Data = disk[Main] /\ Len(op.puts) = 2 /\ Tail(op.puts) = << <<Main, op.new>> >>
    BY <1>1, <1>4, Targets
  <2>2. /\ op'.pc = "open" /\ op'.new = op.new /\ op'.puts = << <<Main, op.new>> >>
        /\ op' = [pc |-> op'.pc, new |-> op'.new, puts |-> op'.puts]
    <3>1. Len(op.puts) # 1
      BY <2>1
    <3>2. op' = [op EXCEPT !.pc = "open", !.puts = Tail(op.puts)]
      BY <3>1 DEF Rename
    <3> QED
      BY <2>1, <3>2 DEF BackUpInv
  <2>3. disk'[Main] = disk[Main] /\ Exists(Bak)' /\ disk'[Bak] = disk[Main]
    BY <1>3, <1>4, <2>1, PathsDiffer DEF CopyFirst, Exists
  <2>4. FileOnly'
    BY <2>2, <2>3 DEF FileOnly
  <2> QED
    BY <2>2, <2>3, <2>4 DEF BackUpInv, BackUpStep, Steps
<1>5. CASE FileOnly
  <2>1. Target = Main /\ Len(op.puts) = 1
    BY <1>1, <1>5, Targets
  <2>2. op' = NoWrite
    BY <2>1 DEF Rename
  <2>3. Exists(Main) => Bak \in DOMAIN disk' /\ disk'[Bak] = disk[Main]
    BY <1>3, <1>5, <2>1, PathsDiffer DEF FileOnly, Exists
  <2> QED
    BY <2>2, <2>3 DEF BackUpInv, BackUpStep, NoWrite, Steps
<1> QED
  BY <1>1, <1>4, <1>5

LEMMA StopKeeps == ASSUME BackUpInv, StopWrite PROVE BackUpInv'
BY DEF BackUpInv, StopWrite, NoWrite, Steps

LEMMA IndexStutter == ASSUME BackUpInv, UNCHANGED indexVars PROVE BackUpInv'
BY DEF BackUpInv, indexVars, CopyFirst, FileOnly, Exists, Target, Data, Tmp, Steps

\* Whenever long-term-memory.md changes, its .bak holds what it was before, for every content,
\* every number of writes and wherever they are cut short.
THEOREM BackedUpKept == IndexSpec => BackedUp
<1>1. IndexInit => BackUpInv
  BY DEF IndexInit, BackUpInv, NoWrite, Steps
<1>2. BackUpInv /\ [IndexNext]_indexVars => BackUpInv'
  <2>1. SUFFICES ASSUME BackUpInv, [IndexNext]_indexVars PROVE BackUpInv'
    OBVIOUS
  <2>2. CASE Upsert \/ RemoveLine \/ Commit
    BY <2>1, <2>2, BeginKeeps DEF Upsert, RemoveLine, Commit
  <2> QED
    BY <2>1, <2>2, BackUpKeeps, TmpKeeps, RenameKeeps, StopKeeps, IndexStutter DEF IndexNext
<1>3. BackUpInv /\ [IndexNext]_indexVars => [BackUpStep]_disk
  <2>1. SUFFICES ASSUME BackUpInv, IndexNext, disk' # disk PROVE BackUpStep
    BY DEF indexVars
  <2>2. OpenTmp \/ WriteTmp \/ Rename
    BY <2>1 DEF IndexNext, Upsert, RemoveLine, Commit, Begin, BackUp, StopWrite
  <2> QED
    BY <2>1, <2>2, TmpKeeps, RenameKeeps
<1> QED
  BY <1>1, <1>2, <1>3, PTL DEF IndexSpec, BackedUp, BackUpStep
(***************************************************************************)
(* Induction without an induction rule: a nonempty set of naturals has a   *)
(* least element.                                                          *)
(***************************************************************************)
LEMMA Least == ASSUME NEW T \in SUBSET Nat, T # {} PROVE \E n \in T : \A m \in T : n <= m
<1>1. PICK n \in T : \A m \in T : ~(<<m, n>> \in OpToRel(<, Nat))
  BY NatLessThanWellFounded, WFMin
<1>2. \A m \in T : ~(m < n)
  BY <1>1 DEF OpToRel
<1> QED
  BY <1>2

LEMMA EveryNat ==
  ASSUME NEW T \in SUBSET Nat, 0 \in T, \A n \in T : n + 1 \in T
  PROVE  T = Nat
<1>1. SUFFICES ASSUME Nat \ T # {} PROVE FALSE
  OBVIOUS
<1>2. PICK n \in Nat \ T : \A m \in Nat \ T : n <= m
  BY <1>1, Least
<1>3. n # 0 /\ n - 1 \in Nat /\ n - 1 \in T
  BY <1>2
<1> QED
  BY <1>2, <1>3

(***************************************************************************)
(* Flattening: Joins(f, ss, T) says that f[k] is the first k sequences of  *)
(* ss end to end.                                                          *)
(***************************************************************************)
JoinsTo(f, ss, T, n) ==
  /\ f \in [0..n -> Seq(T)]
  /\ f[0] = <<>>
  /\ \A k \in 1..n : f[k] = f[k - 1] \o ss[k]
Joins(f, ss, T) == JoinsTo(f, ss, T, Len(ss))

LEMMA JoinsExist == ASSUME NEW T, NEW ss \in Seq(Seq(T)) PROVE \E f : Joins(f, ss, T)
<1> DEFINE Done == {n \in Nat : n <= Len(ss) => \E f : JoinsTo(f, ss, T, n)}
<1>1. 0 \in Done
  <2>1. JoinsTo([k \in 0..0 |-> <<>>], ss, T, 0)
    BY DEF JoinsTo
  <2> QED
    BY <2>1
<1>2. ASSUME NEW n \in Done PROVE n + 1 \in Done
  <2>1. SUFFICES ASSUME n + 1 <= Len(ss) PROVE \E f : JoinsTo(f, ss, T, n + 1)
    OBVIOUS
  <2>2. n \in Nat /\ \E f : JoinsTo(f, ss, T, n)
    BY <2>1
  <2> HIDE DEF Done
  <2>3. PICK f : JoinsTo(f, ss, T, n)
    BY <2>2
  <2> DEFINE longer == f[n] \o ss[n + 1]
  <2> DEFINE g == [k \in 0..n + 1 |-> IF k = n + 1 THEN longer ELSE f[k]]
  <2>4. longer \in Seq(T)
    BY <2>1, <2>2, <2>3 DEF JoinsTo
  <2> HIDE DEF longer
  <2>5. g \in [0..n + 1 -> Seq(T)] /\ g[0] = <<>>
    BY <2>2, <2>3, <2>4 DEF JoinsTo
  <2>6. ASSUME NEW k \in 1..n + 1 PROVE g[k] = g[k - 1] \o ss[k]
    <3>1. g[k - 1] = f[k - 1]
      BY <2>2
    <3>2. CASE k = n + 1
      <4>1. g[k] = longer
        BY <3>2
      <4>2. n = k - 1
        BY <2>2, <3>2
      <4> HIDE DEF g
      <4> QED
        BY <3>1, <3>2, <4>1, <4>2 DEF longer
    <3>3. CASE k # n + 1
      <4>1. g[k] = f[k] /\ k \in 1..n
        BY <2>2, <3>3
      <4>2. f[k] = f[k - 1] \o ss[k]
        BY <2>3, <4>1 DEF JoinsTo
      <4> HIDE DEF g
      <4> QED
        BY <3>1, <4>1, <4>2
    <3> QED
      BY <3>2, <3>3
  <2>7. JoinsTo(g, ss, T, n + 1)
    BY <2>5, <2>6 DEF JoinsTo
  <2> QED
    BY <2>7
<1> HIDE DEF Done
<1>3. Done \in SUBSET Nat
  BY DEF Done
<1>4. Done = Nat
  BY <1>1, <1>2, <1>3, EveryNat, Zenon
<1>5. Len(ss) \in Done
  BY <1>4
<1> QED
  BY <1>5 DEF Done, Joins

LEMMA FlattenIs ==
  ASSUME NEW T, NEW ss \in Seq(Seq(T)), NEW f, Joins(f, ss, T)
  PROVE  FlattenSeq(ss) = f[Len(ss)]
<1> DEFINE N == Len(ss)
<1>1. N \in Nat /\ \A i \in 1..N : ss[i] \in Seq(T)
  OBVIOUS
<1>2. CASE N = 0
  <2>1. ss = <<>>
    BY <1>2
  <2> QED
    BY <1>2, <2>1 DEF FlattenSeq, Joins, JoinsTo
<1>3. CASE N # 0
  <2> DEFINE Flat(h) == h = [i \in 1..N |-> IF i = 1 THEN ss[i] ELSE h[i - 1] \o ss[i]]
  <2> DEFINE g == [i \in 1..N |-> f[i]]
  <2> DEFINE h == CHOOSE h : Flat(h)
  <2>1. FlattenSeq(ss) = h[N]
    BY <1>3 DEF FlattenSeq
  <2>2. ASSUME NEW i \in 1..N
        PROVE  f[i] = IF i = 1 THEN ss[i] ELSE g[i - 1] \o ss[i]
    <3>1. f[i] = f[i - 1] \o ss[i] /\ f[0] = <<>> /\ ss[i] \in Seq(T)
      BY <1>1 DEF Joins, JoinsTo
    <3>2. CASE i = 1
      <4>1. <<>> \o ss[i] = ss[i]
        BY <3>1
      <4>2. f[i - 1] = <<>>
        BY <3>1, <3>2
      <4> HIDE DEF g, N
      <4> QED
        BY <3>1, <3>2, <4>1, <4>2
    <3>3. CASE i # 1
      <4>1. i - 1 \in 1..N /\ g[i - 1] = f[i - 1]
        BY <1>1, <3>3
      <4> HIDE DEF g, N
      <4> QED
        BY <3>1, <3>3, <4>1
    <3> QED
      BY <3>2, <3>3
  <2>3. g = [i \in 1..N |-> IF i = 1 THEN ss[i] ELSE g[i - 1] \o ss[i]]
    BY <2>2
  <2>4. Flat(h)
    <3> HIDE DEF g
    <3> QED
      BY <2>3
  <2> HIDE DEF h, N
  <2>5. \A i \in 1..N : h[i] = IF i = 1 THEN ss[i] ELSE h[i - 1] \o ss[i]
    BY <2>4
  <2> DEFINE Agree == {n \in Nat : n + 1 <= N => h[n + 1] = f[n + 1]}
  <2>6. 0 \in Agree
    <3>1. 1 \in 1..N
      BY <1>1, <1>3
    <3>2. h[1] = ss[1] /\ f[1] = ss[1]
      BY <2>2, <2>5, <3>1
    <3> QED
      BY <3>2
  <2>7. ASSUME NEW n \in Agree PROVE n + 1 \in Agree
    <3>1. SUFFICES ASSUME n + 2 <= N PROVE h[n + 2] = f[n + 2]
      OBVIOUS
    <3>2. n + 2 \in 1..N /\ n + 2 # 1 /\ (n + 2) - 1 = n + 1 /\ h[n + 1] = f[n + 1] /\ n + 1 \in 1..N
      BY <1>1, <3>1
    <3>3. h[n + 2] = h[n + 1] \o ss[n + 2]
      BY <2>5, <3>2
    <3>4. f[n + 2] = g[n + 1] \o ss[n + 2]
      BY <2>2, <3>2
    <3> QED
      BY <3>2, <3>3, <3>4
  <2> HIDE DEF Agree
  <2>8. Agree \in SUBSET Nat
    BY DEF Agree
  <2>9. Agree = Nat
    BY <2>6, <2>7, <2>8, EveryNat, Zenon
  <2>10. h[N] = f[N]
    <3>1. N - 1 \in Agree /\ (N - 1) + 1 = N
      BY <1>1, <1>3, <2>9
    <3> QED
      BY <1>1, <3>1 DEF Agree
  <2> QED
    BY <2>1, <2>10 DEF N
<1> QED
  BY <1>2, <1>3

\* What a join adds: b after a gives c.
After(a, b, c) ==
  /\ Len(a) \in Nat /\ Len(b) \in Nat /\ Len(c) = Len(a) + Len(b)
  /\ \A x \in 1..Len(a) : c[x] = a[x]
  /\ \A x \in 1..Len(b) : c[Len(a) + x] = b[x]
Extends(a, c) == Len(a) <= Len(c) /\ \A x \in 1..Len(a) : c[x] = a[x]

LEMMA Concat ==
  ASSUME NEW T, NEW a \in Seq(T), NEW b \in Seq(T)
  PROVE  a \o b \in Seq(T) /\ After(a, b, a \o b)
BY DEF After

LEMMA ExtendsAfter ==
  ASSUME NEW a, NEW b, NEW c, NEW d, Len(a) \in Nat, Extends(a, b), After(b, d, c)
  PROVE  Extends(a, c)
BY DEF After, Extends

\* b lies in c from place n on.
PlacedIn(b, c, n) == \A x \in 1..Len(b) : n + x \in 1..Len(c) /\ c[n + x] = b[x]

LEMMA AfterPlace == ASSUME NEW a, NEW b, NEW c, After(a, b, c) PROVE PlacedIn(b, c, Len(a))
BY DEF After, PlacedIn

LEMMA PlaceExtends ==
  ASSUME NEW b, NEW c, NEW d, NEW n \in Nat, Len(b) \in Nat, Len(c) \in Nat, Len(d) \in Nat,
         PlacedIn(b, c, n), Extends(c, d)
  PROVE  PlacedIn(b, d, n)
BY DEF PlacedIn, Extends

Ends(f, ss, T, N) ==
  /\ N \in Nat /\ Len(ss) = N
  /\ f[0] = <<>> /\ Len(f[0]) = 0
  /\ \A k \in 0..N : f[k] \in Seq(T) /\ Len(f[k]) \in Nat
  /\ \A k \in 1..N : ss[k] \in Seq(T) /\ After(f[k - 1], ss[k], f[k])

LEMMA JoinsEnds ==
  ASSUME NEW T, NEW ss \in Seq(Seq(T)), NEW f, Joins(f, ss, T)
  PROVE  Ends(f, ss, T, Len(ss))
<1> DEFINE N == Len(ss)
<1>1. N \in Nat /\ \A k \in 1..N : ss[k] \in Seq(T)
  OBVIOUS
<1>2. \A k \in 0..N : f[k] \in Seq(T)
  BY DEF Joins, JoinsTo
<1>3. f[0] = <<>> /\ \A k \in 1..N : f[k] = f[k - 1] \o ss[k]
  BY DEF Joins, JoinsTo
<1> HIDE DEF N
<1>4. ASSUME NEW k \in 0..N PROVE Len(f[k]) \in Nat
  <2>1. f[k] \in Seq(T)
    BY <1>2
  <2> QED
    BY <2>1
<1>5. ASSUME NEW k \in 1..N PROVE After(f[k - 1], ss[k], f[k])
  <2>1. ss[k] \in Seq(T)
    BY <1>1
  <2>2. k - 1 \in 0..N
    BY <1>1
  <2>3. f[k - 1] \in Seq(T)
    BY <1>2, <2>2
  <2>4. After(f[k - 1], ss[k], f[k - 1] \o ss[k])
    BY <2>1, <2>3, Concat, Zenon
  <2>5. f[k] = f[k - 1] \o ss[k]
    BY <1>3
  <2> QED
    BY <2>4, <2>5
<1>6. Len(f[0]) = 0
  BY <1>3
<1> QED
  BY <1>1, <1>2, <1>3, <1>4, <1>5, <1>6 DEF Ends, N

\* Each sequence is found in the whole, at the place where the ones before it end.
LEMMA EndsGrow ==
  ASSUME NEW T, NEW ss, NEW f, NEW N, Ends(f, ss, T, N), NEW j \in 0..N, NEW k \in j..N
  PROVE  Extends(f[j], f[k])
<1> DEFINE Grown == {n \in Nat : j + n <= N => Extends(f[j], f[j + n])}
<1>1. N \in Nat /\ j \in Nat /\ k \in Nat
  BY DEF Ends
<1>2. 0 \in Grown
  <2>1. j + 0 = j /\ Len(f[j]) \in Nat
    BY <1>1 DEF Ends
  <2> QED
    BY <2>1 DEF Extends
<1>3. ASSUME NEW n \in Grown PROVE n + 1 \in Grown
  <2>1. SUFFICES ASSUME j + (n + 1) <= N PROVE Extends(f[j], f[j + (n + 1)])
    OBVIOUS
  <2> DEFINE i == j + n
  <2>2. n \in Nat /\ i \in 0..N /\ i + 1 \in 1..N /\ j + (n + 1) = i + 1 /\ (i + 1) - 1 = i
    BY <1>1, <2>1
  <2>3. Extends(f[j], f[i])
    BY <2>1, <2>2
  <2> HIDE DEF i, Grown
  <2>4. After(f[(i + 1) - 1], ss[i + 1], f[i + 1])
    BY <2>2 DEF Ends
  <2>5. After(f[i], ss[i + 1], f[i + 1])
    BY <2>2, <2>4
  <2>6. Len(f[j]) \in Nat
    BY DEF Ends
  <2>7. Extends(f[j], f[i + 1])
    BY <2>3, <2>5, <2>6, ExtendsAfter, Zenon
  <2> QED
    BY <2>2, <2>7
<1> HIDE DEF Grown
<1>4. Grown \in SUBSET Nat
  BY DEF Grown
<1>5. Grown = Nat
  BY <1>2, <1>3, <1>4, EveryNat, Zenon
<1>6. k - j \in Grown /\ j + (k - j) = k /\ k <= N
  BY <1>1, <1>5
<1>7. Extends(f[j], f[k])
  BY <1>6 DEF Grown
<1> QED
  BY <1>7

LEMMA EndsPlaced ==
  ASSUME NEW T, NEW ss, NEW f, NEW N, Ends(f, ss, T, N), NEW k \in 1..N
  PROVE  PlacedIn(ss[k], f[N], Len(f[k - 1]))
<1>1. N \in Nat /\ k \in 0..N /\ N \in k..N
  BY DEF Ends
<1>2. Extends(f[k], f[N])
  BY <1>1, EndsGrow, Zenon
<1>3. After(f[k - 1], ss[k], f[k])
  BY DEF Ends
<1>4. PlacedIn(ss[k], f[k], Len(f[k - 1]))
  BY <1>3, AfterPlace, Zenon
<1>5. Len(f[k - 1]) \in Nat /\ Len(ss[k]) \in Nat /\ Len(f[k]) \in Nat /\ Len(f[N]) \in Nat
  BY <1>1, <1>3 DEF Ends, After
<1> QED
  BY <1>2, <1>4, <1>5, PlaceExtends, Zenon

\* Each place of the whole is in one of them.
LEMMA EndsCover ==
  ASSUME NEW T, NEW ss, NEW f, NEW N, Ends(f, ss, T, N), NEW x \in 1..Len(f[N])
  PROVE  \E k \in 1..N : x > Len(f[k - 1]) /\ x <= Len(f[k])
<1> DEFINE Reached == {k \in 0..N : x <= Len(f[k])}
<1>1. N \in Nat /\ Len(f[0]) = 0 /\ \A k \in 0..N : Len(f[k]) \in Nat
  BY DEF Ends
<1>2. N \in Reached /\ Reached \in SUBSET Nat
  BY <1>1
<1>3. PICK k \in Reached : \A j \in Reached : k <= j
  <2> HIDE DEF Reached
  <2> QED
    BY <1>2, Least
<1>4. k # 0
  BY <1>1, <1>3
<1>5. k \in 1..N /\ k - 1 \in 0..N /\ k - 1 \notin Reached
  BY <1>1, <1>3, <1>4
<1> QED
  BY <1>1, <1>3, <1>5

(***************************************************************************)
(* Filtering: Rising(e, P) says that e is the members of P in order, which *)
(* determines it.                                                          *)
(***************************************************************************)
Rising(e, P) ==
  /\ e \in Seq(P)
  /\ \A i, j \in 1..Len(e) : i < j => e[i] < e[j]
  /\ \A p \in P : \E i \in 1..Len(e) : e[i] = p

Enumerates(e, P) ==
  /\ Len(e) \in Nat /\ e \in Seq(Nat) /\ \A i \in 1..Len(e) : e[i] \in P /\ e[i] \in Nat
  /\ \A i, j \in 1..Len(e) : i < j => e[i] < e[j]
  /\ \A p \in P : \E i \in 1..Len(e) : e[i] = p

LEMMA RisingFacts ==
  ASSUME NEW P \in SUBSET Nat, NEW e, Rising(e, P)
  PROVE  Enumerates(e, P)
<1>1. e \in Seq(P)
  BY DEF Rising
<1>2. Len(e) \in Nat /\ e = [i \in 1..Len(e) |-> e[i]] /\ \A i \in 1..Len(e) : e[i] \in P
  BY <1>1
<1>3. \A i \in 1..Len(e) : e[i] \in Nat
  BY <1>2
<1>4. e \in Seq(Nat)
  BY <1>2, <1>3
<1> QED
  BY <1>2, <1>3, <1>4 DEF Rising, Enumerates

LEMMA RisingDiffer ==
  ASSUME NEW P \in SUBSET Nat, NEW d, NEW e, Rising(d, P), Rising(e, P),
         NEW n \in 1..Len(d), n \in 1..Len(e),
         \A j \in 1..n - 1 : d[j] = e[j]
  PROVE  d[n] >= e[n]
<1>1. Enumerates(d, P) /\ Enumerates(e, P)
  BY RisingFacts, Zenon
<1>2. /\ Len(d) \in Nat /\ \A i \in 1..Len(d) : d[i] \in P /\ d[i] \in Nat
      /\ \A i, j \in 1..Len(d) : i < j => d[i] < d[j]
  BY <1>1 DEF Enumerates
<1>3. /\ Len(e) \in Nat /\ \A i \in 1..Len(e) : e[i] \in P /\ e[i] \in Nat
      /\ \A i, j \in 1..Len(e) : i < j => e[i] < e[j]
      /\ \A p \in P : \E i \in 1..Len(e) : e[i] = p
  BY <1>1 DEF Enumerates
<1>4. PICK j \in 1..Len(e) : e[j] = d[n]
  BY <1>3, <1>2
<1>5. ASSUME d[n] < e[n] PROVE FALSE
  <2>1. n \in Nat /\ d[n] \in Nat /\ e[n] \in Nat
    BY <1>3, <1>2
  <2>2. ~(n < j) /\ j # n
    BY <1>3, <1>4, <1>5, <2>1
  <2>3. j \in 1..n - 1 /\ j < n /\ j \in 1..Len(d)
    BY <1>3, <1>2, <1>4, <2>1, <2>2
  <2>4. d[j] = d[n] /\ d[j] < d[n]
    BY <1>2, <1>4, <2>3
  <2> QED
    BY <2>1, <2>4
<1> QED
  BY <1>3, <1>2, <1>5

LEMMA RisingUnique ==
  ASSUME NEW P \in SUBSET Nat, NEW d, NEW e, Rising(d, P), Rising(e, P)
  PROVE  d = e
<1>1. Enumerates(d, P) /\ Enumerates(e, P)
  BY RisingFacts, Zenon
<1>2. /\ Len(d) \in Nat /\ d \in Seq(Nat) /\ \A i \in 1..Len(d) : d[i] \in P /\ d[i] \in Nat
      /\ \A i, j \in 1..Len(d) : i < j => d[i] < d[j]
      /\ \A p \in P : \E i \in 1..Len(d) : d[i] = p
  BY <1>1 DEF Enumerates
<1>3. /\ Len(e) \in Nat /\ e \in Seq(Nat) /\ \A i \in 1..Len(e) : e[i] \in P /\ e[i] \in Nat
      /\ \A i, j \in 1..Len(e) : i < j => e[i] < e[j]
      /\ \A p \in P : \E i \in 1..Len(e) : e[i] = p
  BY <1>1 DEF Enumerates
<1> DEFINE Off == {n \in 1..Len(d) : n <= Len(e) /\ d[n] # e[n]}
<1>4. Off = {}
  <2>1. SUFFICES ASSUME Off # {} PROVE FALSE
    OBVIOUS
  <2>2. Off \in SUBSET Nat
    BY <1>2, <1>3
  <2>3. PICK n \in Off : \A m \in Off : n <= m
    <3> HIDE DEF Off
    <3> QED
      BY <2>1, <2>2, Least
  <2>4. n \in 1..Len(d) /\ n \in 1..Len(e) /\ d[n] # e[n]
    BY <1>2, <1>3, <2>3
  <2>5. \A j \in 1..n - 1 : d[j] = e[j]
    <3>1. Len(d) \in Nat /\ Len(e) \in Nat
      BY <1>2, <1>3
    <3>2. \A j \in 1..n - 1 : j \in 1..Len(d) /\ j <= Len(e) /\ ~(n <= j)
      BY <2>4, <3>1
    <3> QED
      BY <2>3, <3>2
  <2>6. d[n] >= e[n] /\ e[n] >= d[n]
    <3> HIDE DEF Off
    <3>1. \A j \in 1..n - 1 : e[j] = d[j]
      BY <2>5
    <3> QED
      BY <2>4, <2>5, <3>1, RisingDiffer
  <2> QED
    BY <1>2, <1>3, <2>4, <2>6
<1>5. \A n \in 1..Len(d) : n <= Len(e) => d[n] = e[n]
  BY <1>4
<1> HIDE DEF Off
<1>6. Len(d) <= Len(e)
  <2>1. SUFFICES ASSUME Len(e) < Len(d) PROVE FALSE
    BY <1>2, <1>3
  <2>2. Len(e) + 1 \in 1..Len(d)
    BY <1>2, <1>3, <2>1
  <2>3. PICK i \in 1..Len(e) : e[i] = d[Len(e) + 1]
    BY <1>2, <1>3, <2>2
  <2>4. d[i] = d[Len(e) + 1] /\ i \in 1..Len(d) /\ i < Len(e) + 1
    BY <1>2, <1>3, <1>5, <2>1, <2>3
  <2> QED
    BY <1>2, <1>3, <2>2, <2>4
<1>7. Len(e) <= Len(d)
  <2>1. SUFFICES ASSUME Len(d) < Len(e) PROVE FALSE
    BY <1>2, <1>3
  <2>2. Len(d) + 1 \in 1..Len(e)
    BY <1>2, <1>3, <2>1
  <2>3. PICK i \in 1..Len(d) : d[i] = e[Len(d) + 1]
    BY <1>2, <1>3, <2>2
  <2>4. e[i] = e[Len(d) + 1] /\ i \in 1..Len(e) /\ i < Len(d) + 1
    BY <1>2, <1>3, <1>5, <2>1, <2>3
  <2> QED
    BY <1>2, <1>3, <2>2, <2>4
<1>8. Len(d) = Len(e)
  BY <1>2, <1>3, <1>6, <1>7
<1>9. d = [n \in 1..Len(d) |-> d[n]] /\ e = [n \in 1..Len(e) |-> e[n]]
  BY <1>2, <1>3
<1>10. \A n \in 1..Len(d) : d[n] = e[n]
  BY <1>2, <1>5, <1>8
<1> QED
  BY <1>8, <1>9, <1>10

Picked(s, e) == [n \in 1..Len(e) |-> s[e[n]]]

\* One more place at the end.
LEMMA RisingMore ==
  ASSUME NEW P \in SUBSET Nat, NEW Q \in SUBSET Nat, NEW e, Rising(e, P), NEW n \in Nat,
         Q = P \union {n}, \A p \in P : p < n
  PROVE  Rising(Append(e, n), Q)
<1> DEFINE g == Append(e, n)
<1>1. e \in Seq(P) /\ Len(e) \in Nat /\ \A i \in 1..Len(e) : e[i] \in P
  BY DEF Rising
<1>2. e \in Seq(Q)
  BY <1>1
<1>3. g \in Seq(Q) /\ Len(g) = Len(e) + 1 /\ g[Len(e) + 1] = n /\ \A i \in 1..Len(e) : g[i] = e[i]
  BY <1>2
<1> HIDE DEF g
<1>4. ASSUME NEW i \in 1..Len(g), NEW j \in 1..Len(g), i < j PROVE g[i] < g[j]
  <2>1. i \in 1..Len(e) /\ g[i] = e[i] /\ e[i] \in P
    BY <1>1, <1>3, <1>4
  <2>2. CASE j \in 1..Len(e)
    BY <1>3, <1>4, <2>1, <2>2 DEF Rising
  <2>3. CASE j \notin 1..Len(e)
    <3>1. j = Len(e) + 1
      BY <1>1, <1>3, <2>3
    <3> QED
      BY <1>3, <2>1, <3>1
  <2> QED
    BY <2>2, <2>3
<1>5. ASSUME NEW p \in Q PROVE \E i \in 1..Len(g) : g[i] = p
  <2>1. CASE p = n
    <3>1. Len(e) + 1 \in 1..Len(g) /\ g[Len(e) + 1] = n
      BY <1>1, <1>3
    <3> QED
      BY <2>1, <3>1
  <2>2. CASE p \in P
    <3>1. PICK i \in 1..Len(e) : e[i] = p
      BY <2>2 DEF Rising
    <3>2. i \in 1..Len(g) /\ g[i] = p
      BY <1>1, <1>3, <3>1
    <3> QED
      BY <3>2
  <2> QED
    BY <2>1, <2>2
<1>6. Rising(g, Q)
  BY <1>3, <1>4, <1>5 DEF Rising
<1> QED
  BY <1>6 DEF g

LEMMA PickedMore ==
  ASSUME NEW s, NEW e \in Seq(Nat), NEW n \in Nat
  PROVE  Picked(s, e) \o <<s[n]>> = Picked(s, Append(e, n))
<1> DEFINE a == Picked(s, e)
<1> DEFINE c == Picked(s, Append(e, n))
<1> DEFINE T == {s[i] : i \in Nat}
<1>1. Len(e) \in Nat /\ Len(Append(e, n)) = Len(e) + 1
  OBVIOUS
<1>2. a \in Seq(T) /\ Len(a) = Len(e) /\ \A i \in 1..Len(e) : a[i] = s[e[i]]
  BY <1>1 DEF Picked
<1>3. /\ c \in Seq(T) /\ Len(c) = Len(e) + 1 /\ c[Len(e) + 1] = s[n]
      /\ \A i \in 1..Len(e) : c[i] = s[e[i]]
  BY <1>1 DEF Picked
<1>4. <<s[n]>> \in Seq(T) /\ Len(<<s[n]>>) = 1 /\ <<s[n]>>[1] = s[n]
  OBVIOUS
<1> DEFINE b == <<s[n]>>
<1> HIDE DEF a, b, c, T
<1>5. a \o b = c
  <2>1. After(a, b, a \o b) /\ a \o b \in Seq(T)
    BY <1>2, <1>4, Concat, Zenon DEF b
  <2> DEFINE d == a \o b
  <2> HIDE DEF d
  <2>2. d \in Seq(T) /\ Len(d) = Len(e) + 1 /\ d[Len(e) + 1] = s[n] /\ \A i \in 1..Len(e) : d[i] = s[e[i]]
    BY <1>1, <1>2, <1>4, <2>1 DEF After, b, d
  <2>3. d = c
    BY <1>1, <1>3, <2>2
  <2> QED
    BY <2>3 DEF d
<1> QED
  BY <1>5 DEF a, b, c

LEMMA PickedSame == ASSUME NEW s, NEW e \in Seq(Nat) PROVE Picked(s, e) \o <<>> = Picked(s, e)
<1>1. Picked(s, e) \in Seq({s[i] : i \in Nat})
  BY DEF Picked
<1> QED
  BY <1>1

\* What Only returns is named by the places of what it keeps.
LEMMA OnlyPicks ==
  ASSUME NEW T, NEW s \in Seq(T), NEW S
  PROVE  \E e : Rising(e, {i \in 1..Len(s) : s[i] \in S}) /\ Only(s, S) = Picked(s, e)
<1> DEFINE N == Len(s)
<1> DEFINE At(k) == {i \in 1..k : s[i] \in S}
<1> DEFINE ss == [i \in 1..N |-> IF s[i] \in S THEN <<s[i]>> ELSE <<>>]
<1>1. N \in Nat /\ DOMAIN s = 1..N /\ \A i \in 1..N : s[i] \in T
  OBVIOUS
<1>2. ss \in Seq(Seq(T)) /\ Len(ss) = N /\ \A k \in 1..N : ss[k] = IF s[k] \in S THEN <<s[k]>> ELSE <<>>
  <2>1. \A i \in 1..N : <<s[i]>> \in Seq(T) /\ <<>> \in Seq(T)
    BY <1>1
  <2> QED
    BY <1>1, <2>1
<1>3. Only(s, S) = FlattenSeq(ss)
  BY <1>1 DEF Only
<1> HIDE DEF ss
<1>4. PICK f : Joins(f, ss, T)
  BY <1>2, JoinsExist
<1>5. FlattenSeq(ss) = f[N]
  BY <1>2, <1>4, FlattenIs
<1>6. f[0] = <<>> /\ \A k \in 1..N : f[k] = f[k - 1] \o ss[k]
  BY <1>2, <1>4 DEF Joins, JoinsTo
<1> HIDE DEF N
<1> DEFINE Found == {n \in Nat : n <= N => \E e : Rising(e, At(n)) /\ f[n] = Picked(s, e)}
<1>7. 0 \in Found
  <2>1. Rising(<<>>, At(0)) /\ Picked(s, <<>>) = <<>>
    BY DEF Rising, Picked
  <2> QED
    BY <1>6, <2>1
<1>8. ASSUME NEW n \in Found PROVE n + 1 \in Found
  <2>1. n \in Nat /\ (n <= N => \E e : Rising(e, At(n)) /\ f[n] = Picked(s, e))
    OBVIOUS
  <2>2. SUFFICES ASSUME n + 1 <= N PROVE \E e : Rising(e, At(n + 1)) /\ f[n + 1] = Picked(s, e)
    BY <2>1
  <2>3. n \in Nat /\ n + 1 \in 1..N /\ (n + 1) - 1 = n /\ \E e : Rising(e, At(n)) /\ f[n] = Picked(s, e)
    BY <1>1, <2>1, <2>2
  <2> HIDE DEF Found
  <2>4. PICK e : Rising(e, At(n)) /\ f[n] = Picked(s, e)
    BY <2>3
  <2>5. f[n + 1] = f[n] \o ss[n + 1]
    BY <1>6, <2>3
  <2>6. CASE s[n + 1] \in S
    <3>1. Rising(Append(e, n + 1), At(n + 1))
      BY <2>3, <2>4, <2>6, RisingMore
    <3>2. Picked(s, e) \o <<s[n + 1]>> = Picked(s, Append(e, n + 1))
      <4>1. e \in Seq(Nat)
        <5>1. At(n) \in SUBSET Nat
          BY <2>3
        <5>2. Enumerates(e, At(n))
          BY <2>4, <5>1, RisingFacts, Zenon
        <5> QED
          BY <5>2 DEF Enumerates
      <4> QED
        BY <4>1, <2>3, PickedMore
    <3> QED
      BY <1>2, <2>3, <2>4, <2>5, <2>6, <3>1, <3>2
  <2>7. CASE s[n + 1] \notin S
    <3>1. At(n + 1) = At(n)
      BY <2>3, <2>7
    <3>2. ss[n + 1] = <<>>
      BY <1>2, <2>3, <2>7
    <3>3. Picked(s, e) \o <<>> = Picked(s, e)
      <4>1. e \in Seq(Nat)
        <5>1. At(n) \in SUBSET Nat
          BY <2>3
        <5>2. Enumerates(e, At(n))
          BY <2>4, <5>1, RisingFacts, Zenon
        <5> QED
          BY <5>2 DEF Enumerates
      <4> QED
        BY <4>1, PickedSame
    <3> QED
      BY <2>4, <2>5, <3>1, <3>2, <3>3
  <2> QED
    BY <2>6, <2>7
<1> HIDE DEF Found
<1>9. Found \in SUBSET Nat
  BY DEF Found
<1>10. Found = Nat
  BY <1>7, <1>8, <1>9, EveryNat, Zenon
<1>11. N \in Found
  BY <1>1, <1>10
<1>12. \E e : Rising(e, At(N)) /\ f[N] = Picked(s, e)
  <2> HIDE DEF At
  <2>1. N <= N
    BY <1>1
  <2> QED
    BY <1>11, <2>1, Zenon DEF Found
<1> QED
  BY <1>3, <1>5, <1>12 DEF N

LEMMA OnlyIs ==
  ASSUME NEW T, NEW s \in Seq(T), NEW S, NEW e, Rising(e, {i \in 1..Len(s) : s[i] \in S})
  PROVE  Only(s, S) = Picked(s, e)
<1> DEFINE P == {i \in 1..Len(s) : s[i] \in S}
<1>1. P \in SUBSET Nat
  OBVIOUS
<1>2. PICK d : Rising(d, P) /\ Only(s, S) = Picked(s, d)
  BY OnlyPicks
<1>3. Rising(e, P)
  OBVIOUS
<1> HIDE DEF P
<1>4. d = e
  BY <1>1, <1>2, <1>3, RisingUnique, Zenon
<1> QED
  BY <1>2, <1>4

\* What remains of a text when it is cut at the places e.
Pieces(text, e) ==
  [n \in 1..Len(e) + 1 |->
     SubSeq(text, IF n = 1 THEN 1 ELSE e[n - 1] + 1, IF n = Len(e) + 1 THEN Len(text) ELSE e[n] - 1)]

LEMMA SplitIs ==
  ASSUME NEW T, NEW text \in Seq(T), NEW mark, NEW e, Rising(e, {i \in 1..Len(text) : text[i] = mark})
  PROVE  Split(text, mark) = Pieces(text, e)
<1> DEFINE L == Len(text)
<1> DEFINE P == {i \in 1..L : text[i] = mark}
<1> DEFINE places == [i \in 1..L |-> i]
<1>1. L \in Nat /\ DOMAIN text = 1..L
  OBVIOUS
<1>2. Rising(e, P) /\ P \in SUBSET Nat
  BY <1>1
<1>3. places \in Seq(Nat) /\ Len(places) = L /\ \A i \in 1..L : places[i] = i
  BY <1>1
<1> DEFINE cuts == <<0>> \o e \o <<L + 1>>
<1>4. Split(text, mark) = LET c == <<0>> \o Only(places, P) \o <<L + 1>>
                          IN  [n \in 1..Len(c) - 1 |-> SubSeq(text, c[n] + 1, c[n + 1] - 1)]
  BY <1>1 DEF Split
<1>5. P = {i \in 1..Len(places) : places[i] \in P}
  BY <1>1, <1>3
<1>6. Enumerates(e, P)
  <2> HIDE DEF P
  <2> QED
    BY <1>2, RisingFacts, Zenon
<1>7. Only(places, P) = Picked(places, e)
  <2> HIDE DEF P, places
  <2> QED
    BY <1>2, <1>3, <1>5, OnlyIs
<1>8. Len(e) \in Nat /\ e \in Seq(Nat) /\ \A i \in 1..Len(e) : e[i] \in 1..L
  BY <1>6 DEF Enumerates
<1>9. Picked(places, e) = e
  <2>1. Picked(places, e) = [i \in 1..Len(e) |-> e[i]]
    BY <1>3, <1>8 DEF Picked
  <2>2. e \in Seq(Nat)
    BY <1>8
  <2>3. e = [i \in 1..Len(e) |-> e[i]]
    BY <2>2
  <2> QED
    BY <2>1, <2>3
<1> HIDE DEF P, places, L
<1>10. /\ Len(cuts) = Len(e) + 2 /\ cuts[1] = 0 /\ cuts[Len(e) + 2] = L + 1
       /\ \A i \in 1..Len(e) : cuts[i + 1] = e[i]
  BY <1>1, <1>8
<1>11. Split(text, mark) = [n \in 1..Len(cuts) - 1 |-> SubSeq(text, cuts[n] + 1, cuts[n + 1] - 1)]
  BY <1>4, <1>7, <1>9
<1> HIDE DEF cuts
<1>12. Len(cuts) - 1 = Len(e) + 1
  BY <1>8, <1>10
<1>13. ASSUME NEW n \in 1..Len(e) + 1
       PROVE  /\ cuts[n] + 1 = IF n = 1 THEN 1 ELSE e[n - 1] + 1
              /\ cuts[n + 1] - 1 = IF n = Len(e) + 1 THEN L ELSE e[n] - 1
  <2>1. cuts[n] + 1 = IF n = 1 THEN 1 ELSE e[n - 1] + 1
    <3>1. CASE n = 1
      BY <1>10, <3>1
    <3>2. CASE n # 1
      <4>1. n - 1 \in 1..Len(e) /\ (n - 1) + 1 = n
        BY <1>8, <3>2
      <4> QED
        BY <1>10, <3>2, <4>1
    <3> QED
      BY <3>1, <3>2
  <2>2. cuts[n + 1] - 1 = IF n = Len(e) + 1 THEN L ELSE e[n] - 1
    <3>1. CASE n = Len(e) + 1
      <4>1. n + 1 = Len(e) + 2
        BY <1>8, <3>1
      <4> QED
        BY <1>1, <1>10, <3>1, <4>1
    <3>2. CASE n # Len(e) + 1
      <4>1. n \in 1..Len(e)
        BY <1>8, <3>2
      <4> QED
        BY <1>10, <3>2, <4>1
    <3> QED
      BY <3>1, <3>2
  <2> QED
    BY <2>1, <2>2
<1> QED
  BY <1>11, <1>12, <1>13 DEF Pieces, L

LEMMA PieceAt ==
  ASSUME NEW text, NEW e, Len(e) \in Nat
  PROVE  /\ Len(Pieces(text, e)) = Len(e) + 1 /\ DOMAIN Pieces(text, e) = 1..Len(e) + 1
         /\ \A n \in 1..Len(e) + 1 :
              Pieces(text, e)[n] = SubSeq(text, IF n = 1 THEN 1 ELSE e[n - 1] + 1,
                                          IF n = Len(e) + 1 THEN Len(text) ELSE e[n] - 1)
<1>1. Len(e) + 1 \in Nat
  OBVIOUS
<1>2. DOMAIN Pieces(text, e) = 1..Len(e) + 1 /\ Len(Pieces(text, e)) = Len(e) + 1
  BY <1>1 DEF Pieces
<1>3. ASSUME NEW n \in 1..Len(e) + 1
      PROVE  Pieces(text, e)[n] = SubSeq(text, IF n = 1 THEN 1 ELSE e[n - 1] + 1,
                                         IF n = Len(e) + 1 THEN Len(text) ELSE e[n] - 1)
  BY DEF Pieces
<1> QED
  BY <1>2, <1>3

LEMMA OneToken ==
  ASSUME NEW T, NEW s \in Seq(T), NEW i \in 1..Len(s)
  PROVE  SubSeq(s, i, i) = <<s[i]>>
<1> DEFINE c == SubSeq(s, i, i)
<1>1. c \in Seq(T) /\ Len(c) = 1 /\ c[1] = s[i]
  OBVIOUS
<1> HIDE DEF c
<1>2. c = <<s[i]>>
  BY <1>1
<1> QED
  BY <1>2 DEF c

(***************************************************************************)
(* A line of the file.                                                     *)
(***************************************************************************)
Token == Mems \union {Dash, Bar, Break, Title} \union UNION {ToSet(b) : b \in Descriptions}
Hooks == {CapLen(Sanitized(brief), HookMax) : brief \in Descriptions}
LineOf(m, h) == [name |-> <<m>>, hook |-> h, key |-> Key(m)]

LEMMA MarksDiffer == Bar # Break /\ Dash # Bar /\ Dash # Break /\ Title # Break /\ Title # Dash
BY DEF Bar, Break, Dash, Title

LEMMA HookPlain ==
  ASSUME NEW h \in Hooks
  PROVE  h \in Seq(Token) /\ Len(h) <= HookMax /\ \A i \in 1..Len(h) : h[i] \notin {Bar, Break}
<1>1. PICK brief \in Descriptions : h = CapLen(Sanitized(brief), HookMax)
  BY DEF Hooks
<1> DEFINE S == ToSet(brief) \ {Bar, Break}
<1>2. HookMax \in Nat /\ brief \in Seq(ToSet(brief))
  BY IndexAssumption
<1>3. PICK e : Rising(e, {i \in 1..Len(brief) : brief[i] \in S}) /\ Sanitized(brief) = Picked(brief, e)
  BY <1>2, OnlyPicks DEF Sanitized
<1> DEFINE P == {i \in 1..Len(brief) : brief[i] \in S}
<1>4. Enumerates(e, P)
  <2>1. P \in SUBSET Nat
    BY <1>2
  <2> HIDE DEF P
  <2> QED
    BY <1>3, <2>1, RisingFacts, Zenon DEF P
<1>5. Len(e) \in Nat /\ \A n \in 1..Len(e) : brief[e[n]] \in S
  BY <1>4 DEF Enumerates
<1>6. S \subseteq Token
  BY DEF Token
<1> DEFINE clean == Sanitized(brief)
<1>7. clean \in Seq(S) /\ Len(clean) = Len(e)
  <2> HIDE DEF S, P
  <2> QED
    BY <1>3, <1>5 DEF Picked
<1> HIDE DEF clean
<1>8. clean \in Seq(Token) /\ \A n \in 1..Len(clean) : clean[n] \in S
  <2> HIDE DEF S
  <2>1. Len(clean) \in Nat /\ clean = [n \in 1..Len(clean) |-> clean[n]] /\ \A n \in 1..Len(clean) : clean[n] \in S
    BY <1>7
  <2>2. \A n \in 1..Len(clean) : clean[n] \in Token
    BY <1>6, <2>1
  <2> QED
    BY <2>1, <2>2
<1>9. h = SubSeq(clean, 1, IF Len(clean) > HookMax THEN HookMax ELSE Len(clean))
  BY <1>1 DEF CapLen, clean
<1> DEFINE k == IF Len(clean) > HookMax THEN HookMax ELSE Len(clean)
<1>10. Len(clean) \in Nat /\ k \in 0..Len(clean) /\ k <= HookMax
  BY <1>2, <1>7
<1>11. h = SubSeq(clean, 1, k)
  BY <1>9
<1> HIDE DEF k, S
<1>12. h \in Seq(Token) /\ Len(h) = k /\ \A n \in 1..k : h[n] = clean[n]
  BY <1>8, <1>10, <1>11
<1>13. \A n \in 1..k : h[n] \in S
  BY <1>8, <1>10, <1>12
<1> QED
  BY <1>10, <1>12, <1>13 DEF S

\* t is a list line with m for its name and its key, and the hook h.
IsLine(t, m, h) ==
  /\ t \in Seq(Token) /\ Len(h) \in Nat /\ Len(t) = Len(h) + 6
  /\ t[1] = Dash /\ t[2] = m /\ t[3] = Bar
  /\ \A x \in 1..Len(h) : t[3 + x] = h[x]
  /\ t[Len(h) + 4] = Bar /\ t[Len(h) + 5] = m /\ t[Len(h) + 6] = Break

LEMMA FlattenOne == ASSUME NEW T, NEW s \in Seq(T) PROVE FlattenSeq(<<s>>) = s
<1>1. <<s>> \in Seq(Seq(T)) /\ Len(<<s>>) = 1 /\ <<s>>[1] = s
  OBVIOUS
<1>2. PICK f : Joins(f, <<s>>, T)
  BY <1>1, JoinsExist
<1>3. FlattenSeq(<<s>>) = f[1]
  BY <1>1, <1>2, FlattenIs
<1>4. f[0] = <<>> /\ f[1] = f[0] \o s
  <2>1. 1 \in 1..1 /\ 1 - 1 = 0
    OBVIOUS
  <2> QED
    BY <1>1, <1>2, <2>1 DEF Joins, JoinsTo
<1>5. <<>> \o s = s
  OBVIOUS
<1> QED
  BY <1>3, <1>4, <1>5

LEMMA KeyText == ASSUME NEW m \in Mems PROVE FlattenSeq(Key(m)) = <<m>> /\ Head(FlattenSeq(Key(m))) = m
<1>1. <<m>> \in Seq(Mems) /\ Head(<<m>>) = m
  OBVIOUS
<1>2. FlattenSeq(<< <<m>> >>) = <<m>>
  BY <1>1, FlattenOne
<1> QED
  BY <1>1, <1>2 DEF Key

LEMMA LineSerialized ==
  ASSUME NEW m \in Mems, NEW h \in Hooks
  PROVE  IsLine(SerializeLine(LineOf(m, h)), m, h)
<1>1. h \in Seq(Token)
  BY HookPlain
<1>2. m \in Token /\ Dash \in Token /\ Bar \in Token /\ Break \in Token
  BY DEF Token
<1>3. SerializeLine(LineOf(m, h)) = <<Dash>> \o <<m>> \o <<Bar>> \o h \o <<Bar>> \o <<m>> \o <<Break>>
  BY KeyText DEF SerializeLine, LineOf
<1> DEFINE a == <<Dash>> \o <<m>> \o <<Bar>>
<1> DEFINE b == a \o h
<1> DEFINE c == b \o <<Bar>>
<1> DEFINE d == c \o <<m>>
<1> DEFINE t == d \o <<Break>>
<1>4. a \in Seq(Token) /\ Len(a) = 3 /\ a[1] = Dash /\ a[2] = m /\ a[3] = Bar
  BY <1>2
<1> HIDE DEF a
<1>5. Len(h) \in Nat /\ b \in Seq(Token) /\ Len(b) = Len(h) + 3 /\ b[1] = Dash /\ b[2] = m /\ b[3] = Bar
      /\ \A x \in 1..Len(h) : b[3 + x] = h[x]
  <2>1. b \in Seq(Token) /\ After(a, h, b)
    BY <1>1, <1>4, Concat, Zenon
  <2> HIDE DEF b
  <2> QED
    BY <1>4, <2>1 DEF After
<1> HIDE DEF b
<1>6. c \in Seq(Token) /\ Len(c) = Len(h) + 4 /\ c[1] = Dash /\ c[2] = m /\ c[3] = Bar
      /\ (\A x \in 1..Len(h) : c[3 + x] = h[x]) /\ c[Len(h) + 4] = Bar
  BY <1>2, <1>5
<1> HIDE DEF c
<1>7. d \in Seq(Token) /\ Len(d) = Len(h) + 5 /\ d[1] = Dash /\ d[2] = m /\ d[3] = Bar
      /\ (\A x \in 1..Len(h) : d[3 + x] = h[x]) /\ d[Len(h) + 4] = Bar /\ d[Len(h) + 5] = m
  BY <1>2, <1>5, <1>6
<1> HIDE DEF d
<1>8. IsLine(t, m, h)
  BY <1>2, <1>5, <1>7 DEF IsLine
<1> QED
  BY <1>3, <1>8 DEF a, b, c, d

\* Its one Break is its last token.
LEMMA LineBreaks ==
  ASSUME NEW m \in Mems, NEW h \in Hooks, NEW t, IsLine(t, m, h), NEW x \in 1..Len(t), t[x] = Break
  PROVE  x = Len(t)
<1>1. m # Break /\ m # Bar
  BY IndexAssumption
<1>2. \A i \in 1..Len(h) : h[i] # Break
  BY HookPlain
<1>3. Len(h) \in Nat /\ Len(t) = Len(h) + 6
  BY DEF IsLine
<1>4. x # 1 /\ x # 2 /\ x # 3 /\ x # Len(h) + 4 /\ x # Len(h) + 5
  BY <1>1, MarksDiffer DEF IsLine
<1>5. ASSUME x \in 4..Len(h) + 3 PROVE FALSE
  <2>1. x - 3 \in 1..Len(h) /\ 3 + (x - 3) = x
    BY <1>3, <1>5
  <2>2. t[x] = h[x - 3]
    BY <2>1 DEF IsLine
  <2> QED
    BY <1>2, <2>1, <2>2
<1> QED
  BY <1>3, <1>4, <1>5

LEMMA LineParsed ==
  ASSUME NEW m \in Mems, NEW h \in Hooks, NEW t, IsLine(t, m, h)
  PROVE  ParseLine(SubSeq(t, 1, Len(t) - 1)) = LineOf(m, h)
<1> DEFINE raw == SubSeq(t, 1, Len(t) - 1)
<1> DEFINE rest == Tail(raw)
<1> DEFINE e == <<2, Len(h) + 3>>
<1>1. m # Break /\ m # Bar /\ h \in Seq(Token) /\ \A i \in 1..Len(h) : h[i] # Bar
  BY HookPlain, IndexAssumption
<1>2. Len(h) \in Nat /\ t \in Seq(Token) /\ Len(t) = Len(h) + 6
  BY DEF IsLine
<1>3. raw \in Seq(Token) /\ Len(raw) = Len(h) + 5 /\ \A x \in 1..Len(h) + 5 : raw[x] = t[x]
  BY <1>2
<1> HIDE DEF raw
<1>4. raw # <<>> /\ Head(raw) = Dash
  BY <1>2, <1>3 DEF IsLine
<1>5. rest \in Seq(Token) /\ Len(rest) = Len(h) + 4 /\ \A x \in 1..Len(h) + 4 : rest[x] = t[x + 1]
  BY <1>2, <1>3
<1> HIDE DEF rest
<1>6. /\ rest[1] = m /\ rest[2] = Bar /\ rest[Len(h) + 3] = Bar /\ rest[Len(h) + 4] = m
      /\ \A x \in 1..Len(h) : rest[2 + x] = h[x]
  <2>1. /\ rest[1] = t[2] /\ rest[2] = t[3] /\ rest[Len(h) + 3] = t[Len(h) + 4]
        /\ rest[Len(h) + 4] = t[Len(h) + 5]
    BY <1>2, <1>5
  <2>2. \A x \in 1..Len(h) : rest[2 + x] = t[3 + x]
    BY <1>2, <1>5
  <2> QED
    BY <2>1, <2>2 DEF IsLine
<1> DEFINE P == {i \in 1..Len(rest) : rest[i] = Bar}
<1>7. P = {2, Len(h) + 3}
  <2>1. ASSUME NEW i \in 1..Len(rest), rest[i] = Bar PROVE i = 2 \/ i = Len(h) + 3
    <3>1. i # 1 /\ i # Len(h) + 4
      BY <1>1, <1>6, <2>1
    <3>2. ASSUME i \in 3..Len(h) + 2 PROVE FALSE
      <4>1. i - 2 \in 1..Len(h) /\ 2 + (i - 2) = i
        BY <1>2, <3>2
      <4> QED
        BY <1>1, <1>6, <2>1, <4>1
    <3> QED
      BY <1>2, <1>5, <3>1, <3>2
  <2>2. 2 \in 1..Len(rest) /\ Len(h) + 3 \in 1..Len(rest)
    BY <1>2, <1>5
  <2> QED
    BY <1>6, <2>1, <2>2
<1>8. e \in Seq(Nat) /\ Len(e) = 2 /\ e[1] = 2 /\ e[2] = Len(h) + 3
  BY <1>2
<1> HIDE DEF e
<1>9. Rising(e, P)
  <2>1. e[1] \in P /\ e[2] \in P /\ \A p \in P : p = e[1] \/ p = e[2]
    BY <1>7, <1>8
  <2>2. e \in Seq(P)
    <3> HIDE DEF P
    <3>1. e = [i \in 1..2 |-> e[i]] /\ \A i \in 1..2 : e[i] \in P
      BY <1>8, <2>1
    <3> QED
      BY <3>1
  <2>3. e[1] < e[2]
    BY <1>2, <1>8
  <2> HIDE DEF P
  <2> QED
    BY <1>8, <2>1, <2>2, <2>3 DEF Rising
<1> DEFINE fields == Split(rest, Bar)
<1>10. fields = Pieces(rest, e)
  BY <1>5, <1>9, SplitIs
<1>11. /\ Len(fields) = 3 /\ fields[1] = SubSeq(rest, 1, 1) /\ fields[2] = SubSeq(rest, 3, Len(h) + 2)
       /\ fields[3] = SubSeq(rest, Len(h) + 4, Len(h) + 4)
  <2> HIDE DEF fields
  <2>1. Len(e) + 1 = 3 /\ 1 \in 1..3 /\ 2 \in 1..3 /\ 3 \in 1..3 /\ Len(e) \in Nat
    BY <1>8
  <2>2. fields[1] = SubSeq(rest, 1, e[1] - 1)
    BY <1>10, <2>1, PieceAt
  <2>3. fields[2] = SubSeq(rest, e[1] + 1, e[2] - 1)
    <3>1. 2 - 1 = 1
      OBVIOUS
    <3> QED
      BY <1>10, <2>1, <3>1, PieceAt
  <2>4. fields[3] = SubSeq(rest, e[2] + 1, Len(rest))
    <3>1. 3 - 1 = 2
      OBVIOUS
    <3> QED
      BY <1>10, <2>1, <3>1, PieceAt
  <2>5. /\ e[1] - 1 = 1 /\ e[1] + 1 = 3 /\ e[2] - 1 = Len(h) + 2 /\ e[2] + 1 = Len(h) + 4
        /\ Len(rest) = Len(h) + 4
    BY <1>2, <1>5, <1>8
  <2>6. Len(fields) = 3
    BY <1>10, <2>1, PieceAt
  <2> QED
    BY <2>2, <2>3, <2>4, <2>5, <2>6
<1>12. DOMAIN fields = 1..3
  <2> HIDE DEF fields
  <2>1. Len(e) + 1 = 3 /\ Len(e) \in Nat
    BY <1>8
  <2> QED
    BY <1>10, <2>1, PieceAt
<1> HIDE DEF fields
<1>13. fields[1] = <<m>>
  <2>1. 1 \in 1..Len(rest)
    BY <1>2, <1>5
  <2> QED
    BY <1>5, <1>6, <1>11, <2>1, OneToken
<1>14. fields[2] = h
  <2> DEFINE g == SubSeq(rest, 3, Len(h) + 2)
  <2>1. g \in Seq(Token) /\ Len(g) = Len(h) /\ \A x \in 1..Len(h) : g[x] = rest[2 + x]
    BY <1>2, <1>5
  <2> HIDE DEF g
  <2>2. \A x \in 1..Len(h) : g[x] = h[x]
    BY <1>6, <2>1
  <2>3. g = h
    BY <1>1, <2>1, <2>2
  <2> QED
    BY <1>11, <2>3 DEF g
<1>15. fields[3] = <<m>>
  <2>1. Len(h) + 4 \in 1..Len(rest)
    BY <1>2, <1>5
  <2>2. SubSeq(rest, Len(h) + 4, Len(h) + 4) = <<rest[Len(h) + 4]>>
    BY <1>5, <2>1, OneToken, Zenon
  <2> QED
    BY <1>6, <1>11, <2>2
<1>16. SubSeq(fields, 3, Len(fields)) = Key(m)
  <2>1. fields \in Seq({fields[1], fields[2], fields[3]})
    <3>1. \A i \in 1..3 : fields[i] \in {fields[1], fields[2], fields[3]}
      OBVIOUS
    <3>2. fields = [i \in 1..3 |-> fields[i]]
      BY <1>9, <1>12, <1>10 DEF Pieces
    <3> QED
      BY <3>1, <3>2
  <2>2. 3 \in 1..Len(fields)
    BY <1>11
  <2> QED
    BY <1>11, <1>15, <2>1, <2>2, OneToken DEF Key
<1>17. ParseLine(raw) = [name |-> fields[1], hook |-> fields[2], key |-> SubSeq(fields, 3, Len(fields))]
  BY <1>4, <1>11 DEF ParseLine, fields, rest
<1> QED
  BY <1>13, <1>14, <1>16, <1>17 DEF LineOf, raw

(***************************************************************************)
(* A whole file.  Canon is the lists the code writes: one line per memory. *)
(***************************************************************************)
Canon ==
  {ls \in Seq({LineOf(m, h) : m \in Mems, h \in Hooks}) :
     \A i, j \in 1..Len(ls) : ls[i].key = ls[j].key => i = j}

LEMMA CanonLines ==
  ASSUME NEW ls \in Canon
  PROVE  /\ Len(ls) \in Nat /\ DOMAIN ls = 1..Len(ls) /\ ls = [k \in 1..Len(ls) |-> ls[k]]
         /\ \A k \in 1..Len(ls) : \E m \in Mems, h \in Hooks : ls[k] = LineOf(m, h)
         /\ \A i, j \in 1..Len(ls) : ls[i].key = ls[j].key => i = j
<1> DEFINE S == {LineOf(m, h) : m \in Mems, h \in Hooks}
<1>1. ls \in Seq(S) /\ \A i, j \in 1..Len(ls) : ls[i].key = ls[j].key => i = j
  BY DEF Canon
<1>2. Len(ls) \in Nat /\ DOMAIN ls = 1..Len(ls) /\ ls = [k \in 1..Len(ls) |-> ls[k]]
      /\ \A k \in 1..Len(ls) : ls[k] \in S
  <2> HIDE DEF S
  <2> QED
    BY <1>1
<1> QED
  BY <1>1, <1>2

\* The text of a list: the header, and then f[N], the lines up to the last.
IsText(text, ss, f, ls, N) ==
  /\ Ends(f, ss, Token, N) /\ Len(ls) = N
  /\ \A k \in 1..N : \E m \in Mems, h \in Hooks : ls[k] = LineOf(m, h) /\ IsLine(ss[k], m, h)
  /\ text \in Seq(Token) /\ Len(text) = Len(f[N]) + 2
  /\ text[1] = Title /\ text[2] = Break
  /\ \A x \in 1..Len(f[N]) : text[2 + x] = f[N][x]

LEMMA TextSerialized ==
  ASSUME NEW ls \in Canon
  PROVE  \E ss, f : IsText(SerializeIndex(ls), ss, f, ls, Len(ls))
<1> DEFINE N == Len(ls)
<1> DEFINE ss == [k \in 1..N |-> SerializeLine(ls[k])]
<1>1. N \in Nat /\ DOMAIN ls = 1..N /\ \A k \in 1..N : \E m \in Mems, h \in Hooks : ls[k] = LineOf(m, h)
  BY CanonLines
<1>2. \A k \in 1..N : \E m \in Mems, h \in Hooks : ls[k] = LineOf(m, h) /\ IsLine(SerializeLine(ls[k]), m, h)
  <2> HIDE DEF N
  <2> QED
    BY <1>1, LineSerialized
<1>3. \A k \in 1..N : SerializeLine(ls[k]) \in Seq(Token)
  BY <1>2 DEF IsLine
<1>4. ss \in Seq(Seq(Token)) /\ Len(ss) = N /\ \A k \in 1..N : ss[k] = SerializeLine(ls[k])
  <2> HIDE DEF N
  <2> QED
    BY <1>1, <1>3
<1>5. SerializeIndex(ls) = Header \o <<Break>> \o FlattenSeq(ss)
  BY <1>1 DEF SerializeIndex
<1> HIDE DEF ss
<1>6. PICK f : Joins(f, ss, Token)
  BY <1>4, JoinsExist
<1>7. Ends(f, ss, Token, N) /\ FlattenSeq(ss) = f[N]
  BY <1>4, <1>6, JoinsEnds, FlattenIs
<1> DEFINE start == Header \o <<Break>>
<1>8. start \in Seq(Token) /\ Len(start) = 2 /\ start[1] = Title /\ start[2] = Break
  <2>1. Title \in Token /\ Break \in Token
    BY DEF Token
  <2>2. Header = <<Title>>
    BY DEF Header
  <2>3. \A a \in Token, b \in Token :
          /\ <<a>> \o <<b>> \in Seq(Token) /\ Len(<<a>> \o <<b>>) = 2
          /\ (<<a>> \o <<b>>)[1] = a /\ (<<a>> \o <<b>>)[2] = b
    OBVIOUS
  <2> QED
    BY <2>1, <2>2, <2>3
<1>9. f[N] \in Seq(Token) /\ Len(f[N]) \in Nat
  BY <1>1, <1>7 DEF Ends
<1> DEFINE text == start \o f[N]
<1> HIDE DEF start, N
<1>10. text \in Seq(Token) /\ After(start, f[N], text)
  BY <1>8, <1>9, Concat, Zenon
<1> HIDE DEF text
<1>11. /\ Len(text) = Len(f[N]) + 2 /\ text[1] = Title /\ text[2] = Break
       /\ \A x \in 1..Len(f[N]) : text[2 + x] = f[N][x]
  <2>1. Len(start) = 2 /\ 1 \in 1..2 /\ 2 \in 1..2
    BY <1>8
  <2>2. text[1] = start[1] /\ text[2] = start[2] /\ Len(text) = 2 + Len(f[N])
    BY <1>10, <2>1 DEF After
  <2>3. \A x \in 1..Len(f[N]) : text[2 + x] = f[N][x]
    BY <1>10, <2>1 DEF After
  <2> QED
    BY <1>8, <1>9, <2>2, <2>3
<1>12. IsText(text, ss, f, ls, N)
  BY <1>2, <1>4, <1>7, <1>10, <1>11 DEF IsText, N
<1>13. SerializeIndex(ls) = text
  BY <1>5, <1>7 DEF text, start
<1> QED
  BY <1>12, <1>13 DEF N

LEMMA Later ==
  ASSUME NEW a \in Nat, NEW b \in Nat, NEW d \in Nat, NEW c, c = b + d, d >= 6, a <= b
  PROVE  2 + a < 2 + c
OBVIOUS

LEMMA Between ==
  ASSUME NEW a \in Nat, NEW b \in Nat, NEW x \in Nat, NEW c, c = a + b, x > a, x <= c
  PROVE  x - a \in 1..b /\ x = a + (x - a)
OBVIOUS

\* Where its lines end.
LineEnds(f, N) == [n \in 1..N + 1 |-> 2 + Len(f[n - 1])]

LEMMA TextBreaks ==
  ASSUME NEW text, NEW ss, NEW f, NEW ls, NEW N, IsText(text, ss, f, ls, N)
  PROVE  Rising(LineEnds(f, N), {i \in 1..Len(text) : text[i] = Break})
<1> DEFINE P == {i \in 1..Len(text) : text[i] = Break}
<1> DEFINE e == LineEnds(f, N)
<1>1. Ends(f, ss, Token, N)
  BY DEF IsText
<1>2. N \in Nat /\ Len(f[0]) = 0 /\ Len(f[N]) \in Nat /\ \A k \in 0..N : Len(f[k]) \in Nat
  BY <1>1 DEF Ends
<1>3. Len(e) = N + 1 /\ e = [n \in 1..N + 1 |-> e[n]] /\ \A n \in 1..N + 1 : e[n] = 2 + Len(f[n - 1]) /\ n - 1 \in 0..N
  BY <1>2 DEF LineEnds
<1> HIDE DEF e
<1>4. /\ Len(text) = Len(f[N]) + 2 /\ text[1] = Title /\ text[2] = Break
      /\ \A x \in 1..Len(f[N]) : text[2 + x] = f[N][x]
  BY DEF IsText
<1>5. ASSUME NEW k \in 1..N
      PROVE  /\ Len(ss[k]) \in Nat /\ Len(ss[k]) >= 6 /\ Len(f[k]) \in Nat /\ Len(f[k]) = Len(f[k - 1]) + Len(ss[k])
             /\ k - 1 \in 0..N /\ k \in 0..N /\ Len(f[k - 1]) \in Nat
             /\ ss[k][Len(ss[k])] = Break
             /\ \A x \in 1..Len(ss[k]) : ss[k][x] = Break => x = Len(ss[k])
             /\ PlacedIn(ss[k], f[N], Len(f[k - 1]))
  <2>1. PICK m \in Mems, h \in Hooks : IsLine(ss[k], m, h)
    BY DEF IsText
  <2>2. Len(h) \in Nat /\ Len(ss[k]) = Len(h) + 6 /\ ss[k][Len(h) + 6] = Break
    BY <2>1 DEF IsLine
  <2>3. After(f[k - 1], ss[k], f[k])
    BY <1>1 DEF Ends
  <2>4. \A x \in 1..Len(ss[k]) : ss[k][x] = Break => x = Len(ss[k])
    BY <2>1, LineBreaks
  <2>5. PlacedIn(ss[k], f[N], Len(f[k - 1]))
    BY <1>1, EndsPlaced, Zenon
  <2>6. k - 1 \in 0..N /\ k \in 0..N /\ Len(f[k - 1]) \in Nat /\ Len(f[k]) \in Nat
    BY <1>2
  <2>7. Len(f[k]) = Len(f[k - 1]) + Len(ss[k])
    BY <2>3 DEF After
  <2>8. Len(ss[k]) \in Nat /\ Len(ss[k]) >= 6 /\ ss[k][Len(ss[k])] = Break
    BY <2>2
  <2> QED
    BY <2>4, <2>5, <2>6, <2>7, <2>8
<1>6. ASSUME NEW n \in 1..N + 1 PROVE e[n] \in P
  <2>1. CASE n = 1
    <3>1. e[n] = 2
      BY <1>2, <1>3, <2>1
    <3>2. 2 \in 1..Len(text)
      BY <1>2, <1>4
    <3> QED
      BY <1>4, <3>1, <3>2
  <2>2. CASE n # 1
    <3> DEFINE k == n - 1
    <3>1. k \in 1..N /\ e[n] = 2 + Len(f[k])
      BY <1>2, <1>3, <2>2
    <3> HIDE DEF k
    <3>2. /\ Len(ss[k]) \in 1..Len(ss[k]) /\ Len(f[k]) = Len(f[k - 1]) + Len(ss[k])
          /\ ss[k][Len(ss[k])] = Break /\ PlacedIn(ss[k], f[N], Len(f[k - 1]))
      <4>1. Len(ss[k]) \in Nat /\ Len(ss[k]) >= 6
        BY <1>5, <3>1
      <4>2. Len(ss[k]) \in 1..Len(ss[k])
        BY <4>1
      <4> QED
        BY <1>5, <3>1, <4>2
    <3>3. Len(f[k]) \in 1..Len(f[N]) /\ f[N][Len(f[k])] = Break
      BY <3>2 DEF PlacedIn
    <3>4. text[2 + Len(f[k])] = Break
      BY <1>4, <3>3
    <3>5. 2 + Len(f[k]) \in 1..Len(text)
      <4>1. Len(text) = Len(f[N]) + 2 /\ Len(f[N]) \in Nat
        BY <1>2, <1>4
      <4> QED
        BY <3>3, <4>1
    <3> QED
      BY <3>1, <3>4, <3>5
  <2> QED
    BY <2>1, <2>2
<1>7. ASSUME NEW i \in 1..N + 1, NEW j \in 1..N + 1, i < j PROVE e[i] < e[j]
  <2> DEFINE k == j - 1
  <2>1. k \in 1..N /\ i - 1 \in 0..N /\ k - 1 \in i - 1..N /\ k - 1 \in 0..N
    BY <1>2, <1>7
  <2>2. e[j] = 2 + Len(f[k]) /\ e[i] = 2 + Len(f[i - 1])
    BY <1>3
  <2> HIDE DEF k
  <2>3. Extends(f[i - 1], f[k - 1])
    BY <1>1, <2>1, EndsGrow, Zenon
  <2>4. Len(f[k]) \in Nat /\ Len(f[k]) = Len(f[k - 1]) + Len(ss[k]) /\ Len(ss[k]) >= 6 /\ Len(ss[k]) \in Nat
    BY <1>5, <2>1
  <2>5. Len(f[i - 1]) \in Nat /\ Len(f[k - 1]) \in Nat
    BY <1>2, <2>1
  <2>6. Len(f[i - 1]) <= Len(f[k - 1])
    BY <2>3 DEF Extends
  <2>7. 2 + Len(f[i - 1]) < 2 + Len(f[k])
    BY <2>4, <2>5, <2>6, Later, Zenon
  <2> QED
    BY <2>2, <2>7
<1>8. ASSUME NEW p \in P PROVE \E n \in 1..N + 1 : e[n] = p
  <2>1. p \in 1..Len(text) /\ text[p] = Break /\ p # 1
    BY <1>4, MarksDiffer
  <2>2. CASE p = 2
    <3>1. 1 \in 1..N + 1 /\ e[1] = 2
      BY <1>2, <1>3
    <3> QED
      BY <2>2, <3>1
  <2>3. CASE p # 2
    <3> DEFINE x == p - 2
    <3>1. x \in 1..Len(f[N]) /\ p = 2 + x
      <4>1. Len(text) = Len(f[N]) + 2 /\ Len(f[N]) \in Nat
        BY <1>2, <1>4
      <4>2. p \in 1..Len(f[N]) + 2
        BY <2>1, <4>1
      <4> QED
        BY <2>1, <2>3, <4>1, <4>2
    <3> HIDE DEF x
    <3>2. PICK k \in 1..N : x > Len(f[k - 1]) /\ x <= Len(f[k])
      BY <1>1, <3>1, EndsCover, Zenon
    <3> DEFINE y == x - Len(f[k - 1])
    <3>3. y \in 1..Len(ss[k]) /\ x = Len(f[k - 1]) + y
      <4>1. /\ Len(f[k]) = Len(f[k - 1]) + Len(ss[k])
            /\ Len(ss[k]) \in Nat /\ Len(f[k - 1]) \in Nat
        BY <1>5
      <4>2. x \in Nat
        BY <3>1
      <4> QED
        BY <3>2, <4>1, <4>2, Between, Zenon
    <3> HIDE DEF y
    <3>4. ss[k][y] = Break
      <4>1. f[N][x] = ss[k][y]
        BY <1>5, <3>3 DEF PlacedIn
      <4>2. text[p] = f[N][x]
        BY <1>4, <3>1
      <4> QED
        BY <2>1, <4>1, <4>2
    <3>5. x = Len(f[k])
      BY <1>5, <3>3, <3>4
    <3>6. k + 1 \in 1..N + 1 /\ (k + 1) - 1 = k
      BY <1>2
    <3>7. e[k + 1] = p
      BY <1>3, <3>1, <3>5, <3>6
    <3> QED
      BY <3>6, <3>7
  <2> QED
    BY <2>2, <2>3
<1>9. e \in Seq(P)
  <2> HIDE DEF P, e
  <2>1. N + 1 \in Nat /\ e = [n \in 1..N + 1 |-> e[n]]
    BY <1>2, <1>3
  <2> QED
    BY <1>6, <2>1
<1>10. Rising(e, P)
  <2> HIDE DEF P
  <2> QED
    BY <1>3, <1>7, <1>8, <1>9 DEF Rising
<1> QED
  BY <1>10 DEF e

LEMMA Part ==
  ASSUME NEW T, NEW s \in Seq(T), NEW n \in Nat, NEW L \in Nat, n + L <= Len(s)
  PROVE  /\ SubSeq(s, n + 1, n + L) \in Seq(T) /\ Len(SubSeq(s, n + 1, n + L)) = L
         /\ \A x \in 1..L : SubSeq(s, n + 1, n + L)[x] = s[n + x]
<1>1. Len(s) \in Nat /\ n + 1 \in Nat /\ n + L \in Nat /\ (n + L) - (n + 1) + 1 = L
  OBVIOUS
<1>2. \A x \in 1..L : (n + 1) + x - 1 = n + x /\ n + x \in 1..Len(s)
  BY <1>1
<1>3. SubSeq(s, n + 1, n + L) \in Seq(T)
  BY <1>1
<1>4. SubSeq(s, n + 1, n + L) = [x \in 1..L |-> s[n + x]]
  BY <1>1, <1>2
<1> QED
  BY <1>1, <1>2, <1>3, <1>4

LEMMA PlacedPart ==
  ASSUME NEW T, NEW b \in Seq(T), NEW c \in Seq(T), NEW n \in Nat, PlacedIn(b, c, n), Len(b) >= 1
  PROVE  SubSeq(c, n + 1, n + Len(b) - 1) = SubSeq(b, 1, Len(b) - 1)
<1> DEFINE u == SubSeq(c, n + 1, n + Len(b) - 1)
<1> DEFINE v == SubSeq(b, 1, Len(b) - 1)
<1> DEFINE L == Len(b) - 1
<1>1. Len(b) \in Nat /\ Len(c) \in Nat /\ n + Len(b) <= Len(c) /\ L \in Nat
  <2>1. Len(b) \in Nat /\ Len(c) \in Nat
    OBVIOUS
  <2>2. Len(b) \in 1..Len(b)
    BY <2>1
  <2>3. n + Len(b) \in 1..Len(c)
    BY <2>2 DEF PlacedIn
  <2> QED
    BY <2>1, <2>3
<1>2. u \in Seq(T) /\ Len(u) = L /\ \A x \in 1..L : u[x] = c[n + x]
  <2>1. n + L <= Len(c) /\ n + Len(b) - 1 = n + L
    BY <1>1
  <2>2. u = SubSeq(c, n + 1, n + L)
    BY <2>1
  <2> HIDE DEF u, L
  <2> QED
    BY <1>1, <2>1, <2>2, Part
<1>3. v \in Seq(T) /\ Len(v) = L /\ \A x \in 1..L : v[x] = b[x]
  <2>1. L <= Len(b)
    BY <1>1
  <2> HIDE DEF L
  <2>2. v = SubSeq(b, 1, L)
    BY DEF L
  <2> HIDE DEF v
  <2> QED
    BY <1>1, <2>1, <2>2
<1>4. \A x \in 1..L : c[n + x] = b[x]
  BY <1>1 DEF PlacedIn
<1> HIDE DEF u, v, L
<1>5. \A x \in 1..L : u[x] = v[x]
  BY <1>2, <1>3, <1>4
<1>6. u = v
  BY <1>2, <1>3, <1>5
<1> QED
  BY <1>6 DEF u, v

LEMMA Shifted == ASSUME NEW a \in Nat, NEW b \in Nat, NEW c, c = a + b PROVE (2 + c) - 1 = (2 + a) + b - 1
OBVIOUS

LEMMA NoLine == ParseLine(<<>>).key = NoKey /\ ParseLine(<<Title>>).key = NoKey
<1>1. <<Title>> # <<>> /\ Head(<<Title>>) = Title
  OBVIOUS
<1>2. Title # Dash
  BY MarksDiffer
<1>3. ParseLine(<<Title>>) = [name |-> <<>>, hook |-> <<>>, key |-> NoKey]
  BY <1>1, <1>2 DEF ParseLine
<1>4. ParseLine(<<>>) = [name |-> <<>>, hook |-> <<>>, key |-> NoKey]
  BY DEF ParseLine
<1> QED
  BY <1>3, <1>4

\* Cut at its Breaks, a text gives the header, the lines, and nothing.
LEMMA TextSplit ==
  ASSUME NEW text, NEW ss, NEW f, NEW ls, NEW N, IsText(text, ss, f, ls, N),
         NEW raws, raws = Split(text, Break)
  PROVE  /\ N \in Nat /\ DOMAIN raws = 1..N + 2
         /\ ParseLine(raws[1]).key = NoKey /\ ParseLine(raws[N + 2]).key = NoKey
         /\ \A k \in 1..N : ParseLine(raws[k + 1]) = ls[k]
<1> DEFINE e == LineEnds(f, N)
<1>1. Ends(f, ss, Token, N) /\ text \in Seq(Token)
  BY DEF IsText
<1>2. N \in Nat /\ Len(f[0]) = 0 /\ Len(f[N]) \in Nat /\ \A k \in 0..N : Len(f[k]) \in Nat
  BY <1>1 DEF Ends
<1>3. Len(e) = N + 1 /\ \A n \in 1..N + 1 : e[n] = 2 + Len(f[n - 1])
  BY <1>2 DEF LineEnds
<1>4. raws = Pieces(text, e)
  BY <1>1, TextBreaks, SplitIs
<1> HIDE DEF e
<1>5. Len(e) \in Nat /\ Len(e) + 1 = N + 2
  BY <1>2, <1>3
<1>6. /\ DOMAIN raws = 1..N + 2
      /\ \A n \in 1..N + 2 : raws[n] = SubSeq(text, IF n = 1 THEN 1 ELSE e[n - 1] + 1,
                                              IF n = N + 2 THEN Len(text) ELSE e[n] - 1)
  BY <1>4, <1>5, PieceAt
<1>7. ParseLine(raws[1]).key = NoKey
  <2>1. 1 \in 1..N + 2 /\ 1 # N + 2 /\ 1 \in 1..N + 1 /\ e[1] - 1 = 1
    BY <1>2, <1>3
  <2>2. raws[1] = SubSeq(text, 1, 1)
    BY <1>6, <2>1
  <2>3. 1 \in 1..Len(text)
    BY <1>2 DEF IsText
  <2>4. SubSeq(text, 1, 1) = <<text[1]>>
    BY <1>1, <2>3, OneToken, Zenon
  <2>5. raws[1] = <<Title>>
    BY <2>2, <2>4 DEF IsText
  <2> QED
    BY <2>5, NoLine
<1>8. ParseLine(raws[N + 2]).key = NoKey
  <2>1. N + 2 \in 1..N + 2 /\ N + 2 # 1 /\ (N + 2) - 1 = N + 1 /\ N + 1 \in 1..N + 1 /\ (N + 1) - 1 = N
    BY <1>2
  <2>2. e[N + 1] = 2 + Len(f[N])
    BY <1>3, <2>1
  <2>3. raws[N + 2] = SubSeq(text, e[N + 1] + 1, Len(text))
    BY <1>6, <2>1
  <2>4. Len(text) = Len(f[N]) + 2 /\ Len(text) \in Nat
    BY <1>2 DEF IsText
  <2>5. e[N + 1] + 1 = Len(text) + 1
    BY <1>2, <2>2, <2>4
  <2>6. SubSeq(text, Len(text) + 1, Len(text)) = <<>>
    BY <1>1, <2>4
  <2>7. raws[N + 2] = <<>>
    BY <2>3, <2>5, <2>6
  <2> QED
    BY <2>7, NoLine
<1>9. ASSUME NEW k \in 1..N PROVE ParseLine(raws[k + 1]) = ls[k]
  <2>1. PICK m \in Mems, h \in Hooks : ls[k] = LineOf(m, h) /\ IsLine(ss[k], m, h)
    BY DEF IsText
  <2>2. ss[k] \in Seq(Token) /\ Len(h) \in Nat /\ Len(ss[k]) = Len(h) + 6
    BY <2>1 DEF IsLine
  <2>3. k - 1 \in 0..N /\ Len(f[k - 1]) \in Nat
    BY <1>2
  <2>4. PlacedIn(ss[k], f[N], Len(f[k - 1]))
    BY <1>1, EndsPlaced, Zenon
  <2> DEFINE n == 2 + Len(f[k - 1])
  <2>5. PlacedIn(ss[k], text, n)
    <3>1. ASSUME NEW x \in 1..Len(ss[k]) PROVE n + x \in 1..Len(text) /\ text[n + x] = ss[k][x]
      <4> DEFINE y == Len(f[k - 1]) + x
      <4>1. y \in 1..Len(f[N]) /\ f[N][y] = ss[k][x]
        BY <2>4 DEF PlacedIn
      <4>2. n + x = 2 + y
        BY <2>2, <2>3
      <4> HIDE DEF y, n
      <4>3. text[2 + y] = f[N][y] /\ Len(text) = Len(f[N]) + 2
        BY <4>1 DEF IsText
      <4>4. 2 + y \in 1..Len(f[N]) + 2
        BY <1>2, <4>1
      <4> QED
        BY <4>1, <4>2, <4>3, <4>4
    <3> HIDE DEF n
    <3> QED
      BY <3>1 DEF PlacedIn
  <2>6. n \in Nat
    BY <2>3
  <2>7. SubSeq(text, n + 1, n + Len(ss[k]) - 1) = SubSeq(ss[k], 1, Len(ss[k]) - 1)
    <3> HIDE DEF n
    <3>1. Len(ss[k]) >= 1
      BY <2>2
    <3> QED
      BY <1>1, <2>2, <2>5, <2>6, <3>1, PlacedPart, Zenon
  <2>8. k + 1 \in 1..N + 2 /\ k + 1 # 1 /\ k + 1 # N + 2 /\ (k + 1) - 1 = k /\ k \in 1..N + 1 /\ k + 1 \in 1..N + 1
    BY <1>2
  <2>9. raws[k + 1] = SubSeq(text, e[k] + 1, e[k + 1] - 1)
    BY <1>6, <2>8
  <2>10. e[k] = n /\ e[k + 1] = 2 + Len(f[k])
    BY <1>3, <2>8
  <2>11. After(f[k - 1], ss[k], f[k])
    BY <1>1 DEF Ends
  <2>12. Len(f[k]) = Len(f[k - 1]) + Len(ss[k])
    BY <2>11 DEF After
  <2>13. e[k + 1] - 1 = n + Len(ss[k]) - 1
    <3>1. Len(ss[k]) \in Nat
      BY <2>2
    <3>2. (2 + Len(f[k])) - 1 = n + Len(ss[k]) - 1
      BY <2>3, <2>12, <3>1, Shifted, Zenon
    <3> QED
      BY <2>10, <3>2
  <2>14. ParseLine(SubSeq(ss[k], 1, Len(ss[k]) - 1)) = LineOf(m, h)
    BY <2>1, LineParsed
  <2> HIDE DEF n
  <2>15. raws[k + 1] = SubSeq(ss[k], 1, Len(ss[k]) - 1)
    BY <2>7, <2>9, <2>10, <2>13
  <2> QED
    BY <2>1, <2>14, <2>15
<1> QED
  BY <1>2, <1>6, <1>7, <1>8, <1>9

\* The parser keeps the lines between, in their order.
LEMMA ParseSplit ==
  ASSUME NEW text, NEW ls \in Canon, NEW N, N = Len(ls), DOMAIN Split(text, Break) = 1..N + 2,
         ParseLine(Split(text, Break)[1]).key = NoKey, ParseLine(Split(text, Break)[N + 2]).key = NoKey,
         \A k \in 1..N : ParseLine(Split(text, Break)[k + 1]) = ls[k]
  PROVE  ParseIndex(text) = ls
<1> DEFINE raws == Split(text, Break)
<1> DEFINE all == [i \in 1..N + 2 |-> [at |-> i, line |-> ParseLine(raws[i])]]
<1> DEFINE keyed == {a \in ToSet(all) : a.line.key # NoKey}
<1> DEFINE first == {a \in keyed : ~\E b \in keyed : b.at < a.at /\ b.line.key = a.line.key}
<1>1. N \in Nat
  BY CanonLines
<1>2. \A i \in 1..N + 2 : all[i].at = i /\ all[i].line = ParseLine(raws[i])
  OBVIOUS
<1>3. Len(all) = N + 2 /\ all \in Seq(ToSet(all)) /\ ToSet(all) = {all[i] : i \in 1..N + 2}
  <2>1. N + 2 \in Nat /\ DOMAIN all = 1..N + 2 /\ Len(all) = N + 2
    BY <1>1
  <2>2. ToSet(all) = {all[i] : i \in 1..N + 2}
    BY <2>1 DEF ToSet
  <2>3. all = [i \in 1..N + 2 |-> all[i]]
    OBVIOUS
  <2> HIDE DEF all
  <2>4. \A i \in 1..N + 2 : all[i] \in ToSet(all)
    BY <2>2
  <2> QED
    BY <2>1, <2>2, <2>3, <2>4
<1>4. ParseIndex(text) = LET kept == Only(all, first) IN [i \in DOMAIN kept |-> kept[i].line]
  BY DEF ParseIndex
<1> HIDE DEF all, raws
<1>5. all[1].line.key = NoKey /\ all[N + 2].line.key = NoKey
  BY <1>1, <1>2 DEF raws
<1>6. \A k \in 1..N : all[k + 1].line = ls[k] /\ all[k + 1].at = k + 1
  BY <1>1, <1>2 DEF raws
<1>7. ASSUME NEW k \in 1..N PROVE ls[k].key # NoKey
  <2>1. PICK m \in Mems, h \in Hooks : ls[k] = LineOf(m, h)
    BY CanonLines
  <2>2. <<m>> # <<>>
    OBVIOUS
  <2>3. << <<m>> >>[1] = <<m>> /\ << <<>> >>[1] = <<>>
    OBVIOUS
  <2> QED
    BY <2>1, <2>2, <2>3 DEF LineOf, Key, NoKey
<1>8. \A i \in 1..N + 2 : all[i] \in keyed <=> i \in 2..N + 1
  <2>1. ASSUME NEW i \in 1..N + 2 PROVE all[i].line.key # NoKey <=> i \in 2..N + 1
    <3>1. CASE i \in 2..N + 1
      <4>1. i - 1 \in 1..N /\ (i - 1) + 1 = i
        BY <1>1, <3>1
      <4> QED
        BY <1>6, <1>7, <3>1, <4>1
    <3>2. CASE i \notin 2..N + 1
      <4>1. i = 1 \/ i = N + 2
        BY <1>1, <3>2
      <4> QED
        BY <1>5, <3>2, <4>1
    <3> QED
      BY <3>1, <3>2
  <2> QED
    BY <1>3, <2>1
<1>9. \A i, j \in 2..N + 1 : all[i].line.key = all[j].line.key => i = j
  <2>1. SUFFICES ASSUME NEW i \in 2..N + 1, NEW j \in 2..N + 1, all[i].line.key = all[j].line.key PROVE i = j
    OBVIOUS
  <2>2. i - 1 \in 1..N /\ j - 1 \in 1..N /\ (i - 1) + 1 = i /\ (j - 1) + 1 = j
    BY <1>1
  <2>3. ls[i - 1].key = ls[j - 1].key
    BY <1>6, <2>1, <2>2
  <2>4. i - 1 = j - 1
    BY <2>2, <2>3, CanonLines
  <2> QED
    BY <2>2, <2>4
<1>10. \A i \in 1..N + 2 : all[i] \in first <=> i \in 2..N + 1
  <2>1. SUFFICES ASSUME NEW i \in 2..N + 1, NEW b \in keyed, b.at < all[i].at, b.line.key = all[i].line.key
                 PROVE  FALSE
    BY <1>8
  <2>2. PICK j \in 1..N + 2 : b = all[j]
    BY <1>3
  <2>3. j \in 2..N + 1
    BY <1>8, <2>2
  <2>4. i = j
    BY <1>9, <2>1, <2>2, <2>3
  <2>5. i \in 1..N + 2 /\ i \in Nat
    BY <1>1
  <2>6. all[i].at = i
    BY <1>2, <2>5
  <2> QED
    BY <2>1, <2>2, <2>4, <2>5, <2>6
<1> HIDE DEF first
<1> DEFINE e == [n \in 1..N |-> n + 1]
<1> DEFINE P == {i \in 1..Len(all) : all[i] \in first}
<1>11. P = 2..N + 1
  BY <1>1, <1>3, <1>10
<1>12. Rising(e, P)
  <2> HIDE DEF P
  <2>1. Len(e) = N /\ \A n \in 1..N : e[n] = n + 1
    BY <1>1
  <2>2. \A n \in 1..N : n + 1 \in 2..N + 1
    BY <1>1
  <2>3. e \in Seq(P)
    BY <1>1, <1>11, <2>2
  <2> HIDE DEF e
  <2>4. \A i, j \in 1..Len(e) : i < j => e[i] < e[j]
    BY <1>1, <2>1
  <2>5. ASSUME NEW p \in P PROVE \E i \in 1..Len(e) : e[i] = p
    <3>1. p - 1 \in 1..N /\ (p - 1) + 1 = p
      BY <1>1, <1>11
    <3>2. e[p - 1] = p
      BY <2>1, <3>1
    <3> QED
      BY <2>1, <3>1, <3>2
  <2> QED
    BY <2>3, <2>4, <2>5 DEF Rising
<1>13. Only(all, first) = Picked(all, e)
  <2> HIDE DEF e
  <2> QED
    BY <1>3, <1>12, OnlyIs
<1>14. Picked(all, e) = [n \in 1..N |-> all[n + 1]]
  BY <1>1 DEF Picked
<1>15. ParseIndex(text) = [n \in 1..N |-> all[n + 1].line]
  <2> DEFINE kept == Only(all, first)
  <2>1. kept = [n \in 1..N |-> all[n + 1]]
    BY <1>13, <1>14
  <2>2. ParseIndex(text) = [i \in DOMAIN kept |-> kept[i].line]
    BY <1>4
  <2> HIDE DEF kept
  <2>3. DOMAIN kept = 1..N /\ \A n \in 1..N : kept[n].line = all[n + 1].line
    BY <2>1
  <2> QED
    BY <2>2, <2>3
<1>16. \A n \in 1..N : all[n + 1].line = ls[n]
  BY <1>6
<1>17. ls = [n \in 1..N |-> ls[n]]
  BY CanonLines
<1> QED
  BY <1>15, <1>16, <1>17

\* Parsing the text of a list of at most one line a memory gives the list back, whatever its
\* hooks hold: serializeIndex and parseIndex lose and add nothing.
THEOREM ParseSerialize == ASSUME NEW ls \in Canon PROVE ParseIndex(SerializeIndex(ls)) = ls
<1>1. PICK ss, f : IsText(SerializeIndex(ls), ss, f, ls, Len(ls))
  BY TextSerialized
<1> DEFINE text == SerializeIndex(ls)
<1> HIDE DEF text
<1>2. IsText(text, ss, f, ls, Len(ls))
  BY <1>1 DEF text
<1>3. /\ DOMAIN Split(text, Break) = 1..Len(ls) + 2
      /\ ParseLine(Split(text, Break)[1]).key = NoKey /\ ParseLine(Split(text, Break)[Len(ls) + 2]).key = NoKey
      /\ \A k \in 1..Len(ls) : ParseLine(Split(text, Break)[k + 1]) = ls[k]
  BY <1>2, TextSplit
<1>4. ParseIndex(text) = ls
  BY <1>3, ParseSplit
<1> QED
  BY <1>4 DEF text

\* An empty file lists nothing.
LEMMA ParseEmpty == ParseIndex(<<>>) = <<>>
<1> DEFINE raws == Split(<<>>, Break)
<1> DEFINE P == {i \in 1..Len(<<>>) : <<>>[i] = Break}
<1>1. P = {}
  OBVIOUS
<1>2. Rising(<<>>, P)
  BY <1>1 DEF Rising
<1>3. raws = Pieces(<<>>, <<>>)
  <2> HIDE DEF P
  <2>1. <<>> \in Seq(Token)
    OBVIOUS
  <2> QED
    BY <1>2, <2>1, SplitIs DEF P
<1>4. Len(<<>>) = 0
  OBVIOUS
<1>5. DOMAIN raws = 1..1 /\ raws[1] = SubSeq(<<>>, 1, 0)
  BY <1>3, <1>4 DEF Pieces
<1>6. raws[1] = <<>>
  BY <1>5
<1> HIDE DEF raws
<1> DEFINE all == [i \in 1..1 |-> [at |-> i, line |-> ParseLine(raws[i])]]
<1> DEFINE keyed == {a \in ToSet(all) : a.line.key # NoKey}
<1> DEFINE first == {a \in keyed : ~\E b \in keyed : b.at < a.at /\ b.line.key = a.line.key}
<1>7. all[1].line.key = NoKey /\ all \in Seq(ToSet(all)) /\ Len(all) = 1 /\ ToSet(all) = {all[1]}
  BY <1>6, NoLine DEF ToSet
<1>8. ParseIndex(<<>>) = LET kept == Only(all, first) IN [i \in DOMAIN kept |-> kept[i].line]
  BY <1>5 DEF ParseIndex, raws
<1> HIDE DEF all
<1>9. first = {}
  BY <1>7
<1> HIDE DEF first
<1>10. Only(all, first) = Picked(all, <<>>)
  <2>1. {i \in 1..Len(all) : all[i] \in first} = {}
    BY <1>9
  <2>2. Rising(<<>>, {i \in 1..Len(all) : all[i] \in first})
    BY <2>1 DEF Rising
  <2> QED
    BY <1>7, <2>2, OnlyIs
<1>11. Picked(all, <<>>) = <<>>
  BY DEF Picked
<1> QED
  BY <1>8, <1>10, <1>11

(***************************************************************************)
(* What a write does to the list.                                          *)
(***************************************************************************)
LEMMA CanonBy ==
  ASSUME NEW n \in Nat, NEW b, b = [k \in 1..n |-> b[k]],
         \A k \in 1..n : \E m \in Mems, h \in Hooks : b[k] = LineOf(m, h),
         \A i, j \in 1..n : b[i].key = b[j].key => i = j
  PROVE  b \in Canon /\ Len(b) = n
<1> DEFINE S == {LineOf(m, h) : m \in Mems, h \in Hooks}
<1>1. \A k \in 1..n : b[k] \in S
  OBVIOUS
<1>2. b \in Seq(S) /\ Len(b) = n
  <2> HIDE DEF S
  <2> QED
    BY <1>1
<1> QED
  BY <1>2 DEF Canon

LEMMA KeysDiffer == ASSUME NEW m \in Mems, NEW n \in Mems, Key(m) = Key(n) PROVE m = n
<1>1. FlattenSeq(Key(m)) = <<m>> /\ FlattenSeq(Key(n)) = <<n>>
  BY KeyText
<1>2. <<m>>[1] = m /\ <<n>>[1] = n
  OBVIOUS
<1> QED
  BY <1>1, <1>2

LEMMA Removed ==
  ASSUME NEW T, NEW s \in Seq(T), NEW i \in 1..Len(s)
  PROVE  RemoveAt(s, i) = [x \in 1..Len(s) - 1 |-> IF x < i THEN s[x] ELSE s[x + 1]]
<1> DEFINE a == SubSeq(s, 1, i - 1)
<1> DEFINE b == SubSeq(s, i + 1, Len(s))
<1> DEFINE c == a \o b
<1>1. Len(s) \in Nat /\ i \in Nat /\ i - 1 \in Nat /\ Len(s) - i \in Nat /\ i + (Len(s) - i) = Len(s)
  OBVIOUS
<1>2. a \in Seq(T) /\ Len(a) = i - 1 /\ \A x \in 1..i - 1 : a[x] = s[x]
  <2>1. 0 + (i - 1) <= Len(s) /\ 0 + (i - 1) = i - 1 /\ 0 + 1 = 1
    BY <1>1
  <2>2. /\ SubSeq(s, 0 + 1, 0 + (i - 1)) \in Seq(T) /\ Len(SubSeq(s, 0 + 1, 0 + (i - 1))) = i - 1
        /\ \A x \in 1..i - 1 : SubSeq(s, 0 + 1, 0 + (i - 1))[x] = s[0 + x]
    BY <1>1, <2>1, Part
  <2> QED
    BY <1>1, <2>1, <2>2
<1>3. b \in Seq(T) /\ Len(b) = Len(s) - i /\ \A x \in 1..Len(s) - i : b[x] = s[i + x]
  <2> DEFINE L == Len(s) - i
  <2>1. L \in Nat /\ i + L = Len(s) /\ i + L <= Len(s)
    BY <1>1
  <2> HIDE DEF L
  <2>2. /\ SubSeq(s, i + 1, i + L) \in Seq(T) /\ Len(SubSeq(s, i + 1, i + L)) = L
        /\ \A x \in 1..L : SubSeq(s, i + 1, i + L)[x] = s[i + x]
    BY <1>1, <2>1, Part
  <2>3. b = SubSeq(s, i + 1, i + L)
    BY <2>1
  <2> HIDE DEF b
  <2> QED
    BY <2>2, <2>3 DEF L
<1> HIDE DEF a, b
<1>4. c \in Seq(T) /\ After(a, b, c)
  BY <1>2, <1>3, Concat, Zenon
<1> HIDE DEF c
<1>5. Len(c) = Len(s) - 1
  <2>1. Len(c) = (i - 1) + (Len(s) - i)
    BY <1>2, <1>3, <1>4 DEF After
  <2> QED
    BY <1>1, <2>1
<1>6. ASSUME NEW x \in 1..Len(s) - 1 PROVE c[x] = IF x < i THEN s[x] ELSE s[x + 1]
  <2>1. CASE x < i
    <3>1. x \in 1..i - 1
      BY <1>1, <2>1
    <3>2. x \in 1..Len(a) /\ a[x] = s[x]
      BY <1>2, <3>1
    <3>3. c[x] = a[x]
      BY <1>4, <3>2 DEF After
    <3> QED
      BY <2>1, <3>2, <3>3
  <2>2. CASE ~(x < i)
    <3> DEFINE y == x - (i - 1)
    <3>1. y \in 1..Len(s) - i /\ x = (i - 1) + y /\ i + y = x + 1
      BY <1>1, <2>2
    <3> HIDE DEF y
    <3>2. y \in 1..Len(b) /\ b[y] = s[x + 1]
      BY <1>3, <3>1
    <3>3. c[Len(a) + y] = b[y]
      BY <1>4, <3>2 DEF After
    <3>4. c[x] = b[y]
      BY <1>2, <3>1, <3>3
    <3> QED
      BY <2>2, <3>2, <3>4
  <2> QED
    BY <2>1, <2>2
<1>7. c = [x \in 1..Len(c) |-> c[x]]
  BY <1>4
<1>8. c = [x \in 1..Len(s) - 1 |-> IF x < i THEN s[x] ELSE s[x + 1]]
  BY <1>5, <1>6, <1>7
<1> QED
  BY <1>8 DEF RemoveAt, a, b, c

LEMMA Appended ==
  ASSUME NEW n \in Nat, NEW a, a = [k \in 1..n |-> a[k]], NEW x
  PROVE  /\ Append(a, x) = [k \in 1..n + 1 |-> Append(a, x)[k]]
         /\ Append(a, x)[n + 1] = x /\ \A k \in 1..n : Append(a, x)[k] = a[k]
<1> DEFINE S == {a[k] : k \in 1..n} \union {x}
<1>1. (\A k \in 1..n : a[k] \in S) /\ x \in S
  OBVIOUS
<1> HIDE DEF S
<1>2. a \in Seq(S) /\ Len(a) = n
  BY <1>1
<1> DEFINE b == Append(a, x)
<1>3. b \in Seq(S) /\ Len(b) = n + 1 /\ b[n + 1] = x /\ \A k \in 1..n : b[k] = a[k]
  BY <1>1, <1>2
<1> HIDE DEF b
<1>4. b = [k \in 1..n + 1 |-> b[k]]
  BY <1>3
<1> QED
  BY <1>3, <1>4 DEF b

Added(a, b) ==
  \E m \in Mems, h \in Hooks : (\A i \in 1..Len(a) : a[i].key # Key(m)) /\ b = Append(a, LineOf(m, h))
Replaced(a, b) ==
  \E i \in 1..Len(a), m \in Mems, h \in Hooks :
     a[i].key = Key(m) /\ b = [k \in 1..Len(a) |-> IF k = i THEN LineOf(m, h) ELSE a[k]]
Dropped(a, b) == \E i \in 1..Len(a) : b = RemoveAt(a, i)
Moved(a, b) == b = a \/ Added(a, b) \/ Replaced(a, b) \/ Dropped(a, b)

LEMMA AddedCanon == ASSUME NEW a \in Canon, NEW b, Added(a, b) PROVE b \in Canon /\ Len(b) = Len(a) + 1
<1>1. PICK m \in Mems, h \in Hooks : (\A i \in 1..Len(a) : a[i].key # Key(m)) /\ b = Append(a, LineOf(m, h))
  BY DEF Added
<1> DEFINE N == Len(a)
<1> DEFINE l == LineOf(m, h)
<1>2. /\ N \in Nat /\ a = [k \in 1..N |-> a[k]]
      /\ \A k \in 1..N : \E mm \in Mems, hh \in Hooks : a[k] = LineOf(mm, hh)
      /\ \A i, j \in 1..N : a[i].key = a[j].key => i = j
  BY CanonLines
<1>3. l.key = Key(m)
  BY DEF LineOf
<1>5. b = [k \in 1..N + 1 |-> b[k]] /\ b[N + 1] = l /\ \A k \in 1..N : b[k] = a[k]
  <2>1. b = Append(a, l)
    BY <1>1
  <2> HIDE DEF N, l
  <2> QED
    BY <1>2, <2>1, Appended
<1>6. \A k \in 1..N + 1 : k = N + 1 \/ k \in 1..N
  BY <1>2
<1>7. ASSUME NEW k \in 1..N + 1 PROVE \E mm \in Mems, hh \in Hooks : b[k] = LineOf(mm, hh)
  <2> HIDE DEF N
  <2> QED
    BY <1>2, <1>5, <1>6
<1>8. ASSUME NEW i \in 1..N + 1, NEW j \in 1..N + 1, b[i].key = b[j].key PROVE i = j
  <2> HIDE DEF N, l
  <2>1. \A k \in 1..N : a[k].key # Key(m)
    BY <1>1 DEF N
  <2> QED
    BY <1>2, <1>3, <1>5, <1>6, <1>8, <2>1
<1>9. N + 1 \in Nat
  BY <1>2
<1> HIDE DEF N
<1>10. b \in Canon /\ Len(b) = N + 1
  BY <1>5, <1>7, <1>8, <1>9, CanonBy
<1> QED
  BY <1>10 DEF N

LEMMA ReplacedCanon == ASSUME NEW a \in Canon, NEW b, Replaced(a, b) PROVE b \in Canon /\ Len(b) = Len(a)
<1>1. PICK i \in 1..Len(a), m \in Mems, h \in Hooks :
        a[i].key = Key(m) /\ b = [k \in 1..Len(a) |-> IF k = i THEN LineOf(m, h) ELSE a[k]]
  BY DEF Replaced
<1> DEFINE N == Len(a)
<1>2. /\ N \in Nat /\ \A k \in 1..N : \E mm \in Mems, hh \in Hooks : a[k] = LineOf(mm, hh)
      /\ \A p, q \in 1..N : a[p].key = a[q].key => p = q
  BY CanonLines
<1>3. \A k \in 1..N : b[k] = IF k = i THEN LineOf(m, h) ELSE a[k]
  BY <1>1
<1>4. \A k \in 1..N : \E mm \in Mems, hh \in Hooks : b[k] = LineOf(mm, hh)
  <2> HIDE DEF N
  <2> QED
    BY <1>2, <1>3
<1>5. \A k \in 1..N : b[k].key = a[k].key
  <2> HIDE DEF N
  <2> QED
    BY <1>1, <1>3 DEF LineOf
<1>6. b = [k \in 1..N |-> b[k]]
  BY <1>1
<1>7. \A p, q \in 1..N : b[p].key = b[q].key => p = q
  BY <1>2, <1>5
<1> HIDE DEF N
<1>8. b \in Canon /\ Len(b) = N
  BY <1>2, <1>4, <1>6, <1>7, CanonBy
<1> QED
  BY <1>8 DEF N

LEMMA DroppedAt ==
  ASSUME NEW a \in Canon, NEW i \in 1..Len(a)
  PROVE  RemoveAt(a, i) = [x \in 1..Len(a) - 1 |-> IF x < i THEN a[x] ELSE a[x + 1]]
<1> DEFINE S == {LineOf(m, h) : m \in Mems, h \in Hooks}
<1>1. a \in Seq(S)
  BY DEF Canon
<1> HIDE DEF S
<1> QED
  BY <1>1, Removed

LEMMA DroppedCanon == ASSUME NEW a \in Canon, NEW b, Dropped(a, b) PROVE b \in Canon /\ Len(b) = Len(a) - 1
<1>1. PICK i \in 1..Len(a) : b = [x \in 1..Len(a) - 1 |-> IF x < i THEN a[x] ELSE a[x + 1]]
  BY DroppedAt DEF Dropped
<1> DEFINE N == Len(a)
<1> DEFINE at(x) == IF x < i THEN x ELSE x + 1
<1>2. /\ N \in Nat /\ \A k \in 1..N : \E mm \in Mems, hh \in Hooks : a[k] = LineOf(mm, hh)
      /\ \A p, q \in 1..N : a[p].key = a[q].key => p = q
  BY CanonLines
<1>3. N - 1 \in Nat /\ \A x \in 1..N - 1 : at(x) \in 1..N
  BY <1>2
<1>4. \A x \in 1..N - 1 : b[x] = a[at(x)]
  BY <1>1
<1>5. \A x, y \in 1..N - 1 : at(x) = at(y) => x = y
  BY <1>2
<1>6. b = [x \in 1..N - 1 |-> b[x]]
  BY <1>1
<1> HIDE DEF N, at
<1>7. \A x \in 1..N - 1 : \E mm \in Mems, hh \in Hooks : b[x] = LineOf(mm, hh)
  BY <1>2, <1>3, <1>4
<1>8. \A x, y \in 1..N - 1 : b[x].key = b[y].key => x = y
  BY <1>2, <1>3, <1>4, <1>5
<1>9. b \in Canon /\ Len(b) = N - 1
  BY <1>3, <1>6, <1>7, <1>8, CanonBy
<1> QED
  BY <1>9 DEF N

LEMMA MovedCanon == ASSUME NEW a \in Canon, NEW b, Moved(a, b) PROVE b \in Canon
BY AddedCanon, ReplacedCanon, DroppedCanon DEF Moved

(***************************************************************************)
(* Texts is what the code writes to the file, and what it computes from    *)
(* one of them is one again, whose list has moved by at most one line.     *)
(***************************************************************************)
Texts == {<<>>} \union {SerializeIndex(ls) : ls \in Canon}

LEMMA TextParsed ==
  ASSUME NEW text \in Texts
  PROVE  ParseIndex(text) \in Canon /\ text \in {<<>>, SerializeIndex(ParseIndex(text))}
<1>1. CASE text = <<>>
  <2>1. <<>> \in Canon
    BY DEF Canon
  <2> QED
    BY <1>1, <2>1, ParseEmpty
<1>2. CASE \E ls \in Canon : text = SerializeIndex(ls)
  <2>1. PICK ls \in Canon : text = SerializeIndex(ls)
    BY <1>2
  <2>2. ParseIndex(text) = ls
    BY <2>1, ParseSerialize
  <2> QED
    BY <2>1, <2>2
<1> QED
  BY <1>1, <1>2 DEF Texts

LEMMA TextMoved ==
  ASSUME NEW text \in Texts, NEW ls, Moved(ParseIndex(text), ls)
  PROVE  SerializeIndex(ls) \in Texts /\ Moved(ParseIndex(text), ParseIndex(SerializeIndex(ls)))
<1>1. ls \in Canon
  BY TextParsed, MovedCanon, Zenon
<1>2. ParseIndex(SerializeIndex(ls)) = ls
  BY <1>1, ParseSerialize
<1> QED
  BY <1>1, <1>2, Zenon DEF Texts

\* The line of m is replaced, or is the new last one.
PutLine(a, m, h) ==
  IF Positions(a, Key(m)) = {} THEN Append(a, LineOf(m, h))
  ELSE [i \in DOMAIN a |-> IF a[i].key = Key(m) THEN LineOf(m, h) ELSE a[i]]

LEMMA UpsertPuts ==
  ASSUME NEW text, NEW m, NEW brief
  PROVE  UpsertIndexLine(text, m, brief)
           = SerializeIndex(PutLine(ParseIndex(text), m, CapLen(Sanitized(brief), HookMax)))
BY Zenon DEF UpsertIndexLine, PutLine, LineOf

LEMMA PutMoves ==
  ASSUME NEW a \in Canon, NEW m \in Mems, NEW h \in Hooks
  PROVE  Moved(a, PutLine(a, m, h))
<1> DEFINE l == LineOf(m, h)
<1> DEFINE b == PutLine(a, m, h)
<1>1. DOMAIN a = 1..Len(a) /\ \A i, j \in 1..Len(a) : a[i].key = a[j].key => i = j
  BY CanonLines
<1>2. ASSUME Positions(a, Key(m)) = {} PROVE Moved(a, b)
  <2>1. \A i \in 1..Len(a) : a[i].key # Key(m)
    BY <1>1, <1>2 DEF Positions
  <2>2. b = Append(a, l)
    BY <1>2 DEF PutLine
  <2>3. Added(a, b)
    BY <2>1, <2>2, Zenon DEF Added
  <2> HIDE DEF b
  <2> QED
    BY <2>3 DEF Moved
<1>3. ASSUME Positions(a, Key(m)) # {} PROVE Moved(a, b)
  <2>1. PICK p \in 1..Len(a) : a[p].key = Key(m)
    BY <1>1, <1>3 DEF Positions
  <2>2. \A k \in 1..Len(a) : a[k].key = Key(m) <=> k = p
    BY <1>1, <2>1
  <2> HIDE DEF l
  <2>3. b = [k \in 1..Len(a) |-> IF k = p THEN l ELSE a[k]]
    BY <1>1, <1>3, <2>2 DEF PutLine, l
  <2>4. Replaced(a, b)
    BY <2>1, <2>3 DEF Replaced, l
  <2> HIDE DEF b
  <2> QED
    BY <2>4 DEF Moved
<1> HIDE DEF b
<1>4. Moved(a, b)
  BY <1>2, <1>3
<1> QED
  BY <1>4 DEF b

LEMMA Upserted ==
  ASSUME NEW text \in Texts, NEW m \in Mems, NEW brief \in Descriptions
  PROVE  UpsertIndexLine(text, m, brief) \in Texts
         /\ Moved(ParseIndex(text), ParseIndex(UpsertIndexLine(text, m, brief)))
<1> DEFINE h == CapLen(Sanitized(brief), HookMax)
<1>1. h \in Hooks /\ ParseIndex(text) \in Canon
  BY TextParsed DEF Hooks
<1> HIDE DEF h
<1>2. Moved(ParseIndex(text), PutLine(ParseIndex(text), m, h))
  BY <1>1, PutMoves
<1> QED
  BY <1>2, UpsertPuts, TextMoved DEF h

LEMMA LineRemoved ==
  ASSUME NEW text \in Texts, NEW m \in Mems
  PROVE  RemoveIndexLine(text, m) \in Texts /\ Moved(ParseIndex(text), ParseIndex(RemoveIndexLine(text, m)))
<1> DEFINE a == ParseIndex(text)
<1> DEFINE P == Positions(a, Key(m))
<1>1. CASE P = {}
  BY <1>1 DEF RemoveIndexLine, Moved
<1>2. CASE P # {}
  <2> DEFINE i == CHOOSE i \in P : TRUE
  <2>1. i \in P
    BY <1>2
  <2> HIDE DEF i
  <2>2. i \in 1..Len(a)
    BY <2>1, TextParsed, CanonLines DEF Positions
  <2>3. RemoveIndexLine(text, m) = SerializeIndex(RemoveAt(a, i))
    BY <1>2 DEF RemoveIndexLine, i
  <2>4. Moved(a, RemoveAt(a, i))
    BY <2>2 DEF Moved, Dropped
  <2> QED
    BY <2>3, <2>4, TextMoved
<1> QED
  BY <1>1, <1>2

(***************************************************************************)
(* What a reader finds, and that it moves as the list does.                *)
(***************************************************************************)
Shown(ls) == [i \in DOMAIN ls |-> [mem |-> Head(FlattenSeq(ls[i].key)), hook |-> ls[i].hook]]

LEMMA ListingShows == \A text : Listing(text) = Shown(ParseIndex(text))
BY DEF Listing, Shown

LEMMA ShownLines ==
  ASSUME NEW ls \in Canon
  PROVE  /\ Shown(ls) = [k \in 1..Len(ls) |-> Shown(ls)[k]] /\ Len(ls) \in Nat /\ DOMAIN Shown(ls) = 1..Len(ls)
         /\ \A k \in 1..Len(ls), m \in Mems, h \in Hooks :
              ls[k] = LineOf(m, h) => Shown(ls)[k] = [mem |-> m, hook |-> h]
<1>1. Len(ls) \in Nat /\ DOMAIN ls = 1..Len(ls)
  BY CanonLines
<1>2. /\ Shown(ls) = [k \in 1..Len(ls) |-> Shown(ls)[k]]
      /\ \A k \in 1..Len(ls) : Shown(ls)[k] = [mem |-> Head(FlattenSeq(ls[k].key)), hook |-> ls[k].hook]
  BY <1>1 DEF Shown
<1>3. ASSUME NEW m \in Mems, NEW h \in Hooks
      PROVE  Head(FlattenSeq(LineOf(m, h).key)) = m /\ LineOf(m, h).hook = h
  BY KeyText DEF LineOf
<1> QED
  BY <1>1, <1>2, <1>3

LEMMA ShownMember ==
  ASSUME NEW ls \in Canon, NEW k \in 1..Len(ls)
  PROVE  \E m \in Mems, h \in Hooks : ls[k].key = Key(m) /\ Shown(ls)[k] = [mem |-> m, hook |-> h]
<1>1. PICK m \in Mems, h \in Hooks : ls[k] = LineOf(m, h)
  BY CanonLines
<1>2. ls[k].key = Key(m)
  BY <1>1 DEF LineOf
<1>3. Shown(ls)[k] = [mem |-> m, hook |-> h]
  BY <1>1, ShownLines
<1> QED
  BY <1>2, <1>3

LEMMA Longer ==
  ASSUME NEW n \in Nat, NEW s, NEW t, NEW x, s = [k \in 1..n |-> s[k]], t = [k \in 1..n + 1 |-> t[k]],
         t[n + 1] = x, \A k \in 1..n : t[k] = s[k]
  PROVE  t = Append(s, x)
<1>1. /\ Append(s, x) = [k \in 1..n + 1 |-> Append(s, x)[k]]
      /\ Append(s, x)[n + 1] = x /\ \A k \in 1..n : Append(s, x)[k] = s[k]
  BY Appended
<1>2. \A k \in 1..n + 1 : k = n + 1 \/ k \in 1..n
  OBVIOUS
<1>3. \A k \in 1..n + 1 : t[k] = Append(s, x)[k]
  BY <1>1, <1>2
<1> QED
  BY <1>1, <1>3

LEMMA AddedShown ==
  ASSUME NEW a \in Canon, NEW b, Added(a, b), seen = Shown(a), seen' = Shown(b)
  PROVE  \E e \in Lists!Entry : Lists!AddEntry(e)
<1>1. PICK m \in Mems, h \in Hooks : (\A i \in 1..Len(a) : a[i].key # Key(m)) /\ b = Append(a, LineOf(m, h))
  BY DEF Added
<1> DEFINE e == [mem |-> m, hook |-> h]
<1> DEFINE n == Len(a)
<1>2. b \in Canon /\ Len(b) = n + 1 /\ n \in Nat
  BY AddedCanon, CanonLines
<1>3. e \in Lists!Entry
  BY DEF Lists!Entry, Hooks
<1>4. ASSUME NEW i \in DOMAIN seen PROVE seen[i].mem # e.mem
  <2>1. i \in 1..Len(a)
    BY ShownLines
  <2>2. PICK mm \in Mems, hh \in Hooks : a[i].key = Key(mm) /\ seen[i] = [mem |-> mm, hook |-> hh]
    BY <2>1, ShownMember
  <2>3. mm # m
    BY <1>1, <2>1, <2>2
  <2> QED
    BY <2>2, <2>3
<1> HIDE DEF e, n
<1>5. a = [k \in 1..n |-> a[k]] /\ seen = [k \in 1..n |-> seen[k]] /\ seen' = [k \in 1..n + 1 |-> seen'[k]]
  BY <1>2, CanonLines, ShownLines DEF n
<1>6. b[n + 1] = LineOf(m, h) /\ \A k \in 1..n : b[k] = a[k]
  BY <1>1, <1>2, <1>5, Appended
<1>7. seen'[n + 1] = e
  <2>1. n + 1 \in 1..Len(b)
    BY <1>2
  <2> QED
    BY <1>2, <1>6, <2>1, ShownLines DEF e
<1>8. ASSUME NEW k \in 1..n PROVE seen'[k] = seen[k]
  <2>1. k \in 1..Len(b) /\ k \in 1..Len(a)
    BY <1>2 DEF n
  <2>2. PICK mm \in Mems, hh \in Hooks : a[k] = LineOf(mm, hh)
    BY <2>1, CanonLines
  <2>3. seen[k] = [mem |-> mm, hook |-> hh]
    BY <2>1, <2>2, ShownLines
  <2>4. seen'[k] = [mem |-> mm, hook |-> hh]
    BY <1>2, <1>6, <2>1, <2>2, ShownLines
  <2> QED
    BY <2>3, <2>4
<1>9. seen' = Append(seen, e)
  <2>1. /\ n \in Nat /\ seen = [k \in 1..n |-> seen[k]] /\ seen' = [k \in 1..n + 1 |-> seen'[k]]
        /\ seen'[n + 1] = e /\ \A k \in 1..n : seen'[k] = seen[k]
    BY <1>2, <1>5, <1>7, <1>8
  <2> QED
    BY <2>1, Longer
<1> QED
  BY <1>3, <1>4, <1>9 DEF Lists!AddEntry

LEMMA ReplacedShown ==
  ASSUME NEW a \in Canon, NEW b, Replaced(a, b), seen = Shown(a), seen' = Shown(b)
  PROVE  \E i \in DOMAIN seen : \E h \in Hooks : Lists!ReplaceEntry(i, h)
<1>1. PICK i \in 1..Len(a), m \in Mems, h \in Hooks :
        a[i].key = Key(m) /\ b = [k \in 1..Len(a) |-> IF k = i THEN LineOf(m, h) ELSE a[k]]
  BY DEF Replaced
<1> DEFINE n == Len(a)
<1>2. b \in Canon /\ Len(b) = n /\ n \in Nat
  BY ReplacedCanon, CanonLines
<1>3. \A k \in 1..n : b[k] = IF k = i THEN LineOf(m, h) ELSE a[k]
  BY <1>1
<1>4. seen = [k \in 1..n |-> seen[k]] /\ seen' = [k \in 1..n |-> seen'[k]] /\ DOMAIN seen = 1..n
  BY <1>2, ShownLines
<1>5. PICK hh \in Hooks : seen[i] = [mem |-> m, hook |-> hh]
  <2>1. PICK mm \in Mems, hh \in Hooks : a[i].key = Key(mm) /\ seen[i] = [mem |-> mm, hook |-> hh]
    BY ShownMember
  <2>2. mm = m
    BY <1>1, <2>1, KeysDiffer
  <2> QED
    BY <2>1, <2>2
<1>6. seen'[i] = [mem |-> m, hook |-> h]
  <2>1. b[i] = LineOf(m, h) /\ i \in 1..Len(b)
    BY <1>2, <1>3
  <2> QED
    BY <1>2, <2>1, ShownLines
<1>7. ASSUME NEW k \in 1..n, k # i PROVE seen'[k] = seen[k]
  <2>1. k \in 1..Len(b) /\ k \in 1..Len(a) /\ b[k] = a[k]
    BY <1>2, <1>3, <1>7
  <2>2. PICK mm \in Mems, gg \in Hooks : a[k] = LineOf(mm, gg)
    BY <2>1, CanonLines
  <2>3. seen[k] = [mem |-> mm, hook |-> gg]
    BY <2>1, <2>2, ShownLines
  <2>4. seen'[k] = [mem |-> mm, hook |-> gg]
    BY <1>2, <2>1, <2>2, ShownLines
  <2> QED
    BY <2>3, <2>4
<1> HIDE DEF n
<1>8. i \in DOMAIN seen
  BY <1>4 DEF n
<1>9. seen' = [seen EXCEPT ![i].hook = h]
  <2>1. [seen[i] EXCEPT !.hook = h] = seen'[i]
    BY <1>5, <1>6
  <2>2. [seen EXCEPT ![i].hook = h] = [k \in 1..n |-> IF k = i THEN [seen[i] EXCEPT !.hook = h] ELSE seen[k]]
    BY <1>4
  <2>3. \A k \in 1..n : seen'[k] = IF k = i THEN [seen[i] EXCEPT !.hook = h] ELSE seen[k]
    BY <1>7, <2>1
  <2> QED
    BY <1>4, <2>2, <2>3
<1> QED
  BY <1>8, <1>9 DEF Lists!ReplaceEntry

LEMMA DroppedShown ==
  ASSUME NEW a \in Canon, NEW b, Dropped(a, b), seen = Shown(a), seen' = Shown(b)
  PROVE  \E i \in DOMAIN seen : Lists!DropEntry(i)
<1>1. PICK i \in 1..Len(a) : b = [x \in 1..Len(a) - 1 |-> IF x < i THEN a[x] ELSE a[x + 1]]
  BY DroppedAt DEF Dropped
<1> DEFINE n == Len(a)
<1> DEFINE at(x) == IF x < i THEN x ELSE x + 1
<1>2. b \in Canon /\ Len(b) = n - 1 /\ n \in Nat /\ \A x \in 1..n - 1 : at(x) \in 1..n
  BY DroppedCanon, CanonLines
<1>3. \A x \in 1..n - 1 : b[x] = a[at(x)]
  BY <1>1
<1>4. seen = [k \in 1..n |-> seen[k]] /\ seen' = [k \in 1..n - 1 |-> seen'[k]] /\ DOMAIN seen = 1..n
  BY <1>2, ShownLines
<1>5. ASSUME NEW x \in 1..n - 1 PROVE seen'[x] = seen[at(x)]
  <2> HIDE DEF at
  <2>1. x \in 1..Len(b) /\ at(x) \in 1..Len(a) /\ b[x] = a[at(x)]
    BY <1>2, <1>3
  <2>2. PICK m \in Mems, h \in Hooks : a[at(x)] = LineOf(m, h)
    BY <2>1, CanonLines
  <2>3. seen[at(x)] = [mem |-> m, hook |-> h]
    BY <2>1, <2>2, ShownLines
  <2>4. seen'[x] = [mem |-> m, hook |-> h]
    BY <1>2, <2>1, <2>2, ShownLines
  <2> QED
    BY <2>3, <2>4
<1>6. seen' = [x \in 1..n - 1 |-> IF x < i THEN seen[x] ELSE seen[x + 1]]
  BY <1>4, <1>5
<1>7. RemoveAt(seen, i) = [x \in 1..n - 1 |-> IF x < i THEN seen[x] ELSE seen[x + 1]]
  <2> DEFINE S == {seen[k] : k \in 1..n}
  <2>1. \A k \in 1..n : seen[k] \in S
    OBVIOUS
  <2> HIDE DEF S
  <2>2. seen \in Seq(S) /\ Len(seen) = n
    <3> HIDE DEF n
    <3> QED
      BY <1>2, <1>4, <2>1
  <2> QED
    BY <2>2, Removed
<1>8. i \in DOMAIN seen
  BY <1>4
<1> HIDE DEF n, at
<1>9. seen' = RemoveAt(seen, i)
  BY <1>6, <1>7, Zenon
<1> QED
  BY <1>8, <1>9, Zenon DEF Lists!DropEntry, Lists!RemoveAt, RemoveAt

LEMMA MovedShown ==
  ASSUME NEW a \in Canon, NEW b, Moved(a, b), seen = Shown(a), seen' = Shown(b)
  PROVE  [Lists!ListNext]_seen
<1>1. ASSUME Added(a, b) PROVE Lists!ListNext
  BY <1>1, AddedShown DEF Lists!ListNext
<1>2. ASSUME Replaced(a, b) PROVE Lists!ListNext
  BY <1>2, ReplacedShown DEF Lists!ListNext, Hooks
<1>3. ASSUME Dropped(a, b) PROVE Lists!ListNext
  BY <1>3, DroppedShown DEF Lists!ListNext
<1>4. b = a => seen' = seen
  OBVIOUS
<1> QED
  BY <1>1, <1>2, <1>3, <1>4 DEF Moved

(***************************************************************************)
(* The file is always one of these texts, the write in progress moves its  *)
(* list by at most one line, and a reader finds that list.                 *)
(***************************************************************************)
IndexInv ==
  /\ BackUpInv
  /\ writes \in 0..MaxWrites /\ stops \in 0..MaxStops
  /\ DOMAIN disk \subseteq {Main, Bak, Tmp(Main), Tmp(Bak)}
  /\ GetFolder(Main) \in Texts /\ seen = Listing(GetFolder(Main))
  /\ op.pc # "idle" => op.new \in Texts /\ Moved(ParseIndex(GetFolder(Main)), ParseIndex(op.new))

IndexStep == [Lists!ListNext]_seen

LEMMA IndexStart == ASSUME IndexInit PROVE IndexInv /\ Lists!ListInit
<1>1. BackUpInv
  BY DEF IndexInit, BackUpInv, NoWrite, Steps
<1>2. GetFolder(Main) = <<>> /\ DOMAIN disk = {}
  BY DEF IndexInit, GetFolder, Exists
<1>3. Listing(<<>>) = <<>>
  <2>1. Shown(<<>>) = <<>>
    BY DEF Shown
  <2> QED
    BY <2>1, ParseEmpty, ListingShows
<1>4. MaxWrites \in Nat /\ MaxStops \in Nat
  BY IndexAssumption
<1>5. op.pc = "idle" /\ seen = <<>> /\ writes = 0 /\ stops = 0
  BY DEF IndexInit, NoWrite
<1> QED
  BY <1>1, <1>2, <1>3, <1>4, <1>5 DEF IndexInv, Texts, Lists!ListInit

LEMMA BegunMoves ==
  ASSUME IndexInv, NEW new \in Texts, Moved(ParseIndex(GetFolder(Main)), ParseIndex(new)), Begin(new)
  PROVE  IndexInv' /\ IndexStep
<1>1. BackUpInv'
  BY BeginKeeps DEF IndexInv
<1>2. writes' \in 0..MaxWrites /\ stops' \in 0..MaxStops
  BY IndexAssumption DEF IndexInv, Begin
<1>3. disk' = disk /\ seen' = seen /\ op'.new = new /\ GetFolder(Main)' = GetFolder(Main)
  BY DEF Begin, NoWrite, GetFolder, Exists
<1> QED
  BY <1>1, <1>2, <1>3 DEF IndexInv, IndexStep

LEMMA Beginnings ==
  ASSUME IndexInv, Upsert \/ RemoveLine \/ Commit
  PROVE  IndexInv' /\ IndexStep
<1>1. GetFolder(Main) \in Texts
  BY DEF IndexInv
<1>2. CASE Upsert
  BY <1>1, <1>2, Upserted, BegunMoves DEF Upsert
<1>3. CASE RemoveLine
  <2>1. disk[Main] = GetFolder(Main)
    BY <1>3 DEF RemoveLine, GetFolder
  <2> QED
    BY <1>1, <1>3, <2>1, LineRemoved, BegunMoves DEF RemoveLine
<1>4. CASE Commit
  BY <1>1, <1>4, BegunMoves DEF Commit, Moved
<1> QED
  BY <1>2, <1>3, <1>4

\* A step that leaves the file, the reader's list and the new content alone.
LEMMA FileStays ==
  ASSUME IndexInv, BackUpInv', op' = op \/ op'.pc = "idle" \/ (op.pc # "idle" /\ op'.new = op.new),
         GetFolder(Main)' = GetFolder(Main), seen' = seen, writes' = writes, stops' \in 0..MaxStops,
         DOMAIN disk' \subseteq {Main, Bak, Tmp(Main), Tmp(Bak)}
  PROVE  IndexInv' /\ IndexStep
<1>1. Tmp(Main)' = Tmp(Main) /\ Tmp(Bak)' = Tmp(Bak) /\ Main' = Main /\ Bak' = Bak
  OBVIOUS
<1>2. op'.pc # "idle" => op'.new \in Texts /\ Moved(ParseIndex(GetFolder(Main)'), ParseIndex(op'.new))
  BY DEF IndexInv
<1> QED
  BY <1>2 DEF IndexInv, IndexStep

LEMMA BackUpMoves == ASSUME IndexInv, BackUp PROVE IndexInv' /\ IndexStep
<1>1. BackUpInv'
  BY BackUpKeeps DEF IndexInv
<1>2. op.pc # "idle" /\ op'.new = op.new
  BY DEF BackUp, BackUpInv, IndexInv
<1>3. GetFolder(Main)' = GetFolder(Main)
  BY DEF BackUp, GetFolder, Exists
<1>4. disk' = disk /\ seen' = seen /\ writes' = writes /\ stops' = stops
  BY DEF BackUp
<1>5. stops \in 0..MaxStops /\ DOMAIN disk \subseteq {Main, Bak, Tmp(Main), Tmp(Bak)}
  BY DEF IndexInv
<1> QED
  BY <1>1, <1>2, <1>3, <1>4, <1>5, FileStays

LEMMA TmpMoves == ASSUME IndexInv, OpenTmp \/ WriteTmp PROVE IndexInv' /\ IndexStep
<1>1. BackUpInv' /\ op.pc \in {"open", "write"} /\ Target \in {Main, Bak}
  BY TmpKeeps, Targets DEF IndexInv, OpenTmp, WriteTmp
<1>2. op'.new = op.new /\ writes' = writes /\ stops' = stops
  BY DEF OpenTmp, WriteTmp, BackUpInv, IndexInv
<1>3. PICK text : disk' = With(disk, Tmp(Target), text) /\ Shows(Tmp(Target), text)
  BY DEF OpenTmp, WriteTmp
<1>4. Tmp(Target) # Main
  BY <1>1, PathsDiffer
<1>5. seen' = seen
  BY <1>3, <1>4 DEF Shows
<1>6. (Main \in DOMAIN disk' <=> Main \in DOMAIN disk) /\ (Main \in DOMAIN disk => disk'[Main] = disk[Main])
      /\ DOMAIN disk' = DOMAIN disk \union {Tmp(Target)}
  BY <1>3, <1>4 DEF With
<1>7. GetFolder(Main)' = GetFolder(Main)
  BY <1>6 DEF GetFolder, Exists
<1>8. stops \in 0..MaxStops /\ DOMAIN disk' \subseteq {Main, Bak, Tmp(Main), Tmp(Bak)}
  BY <1>1, <1>6 DEF IndexInv
<1> QED
  BY <1>1, <1>2, <1>5, <1>7, <1>8, FileStays

LEMMA RenameMoves == ASSUME IndexInv, Rename PROVE IndexInv' /\ IndexStep
<1>1. /\ BackUpInv' /\ op.pc = "rename" /\ disk[Tmp(Target)] = Data /\ (CopyFirst \/ FileOnly)
      /\ Target \in {Main, Bak}
  BY RenameKeeps, Targets DEF IndexInv, Rename, BackUpInv
<1>2. /\ DOMAIN disk' = (DOMAIN disk \ {Tmp(Target)}) \union {Target} /\ disk'[Target] = Data
      /\ \A path \in DOMAIN disk' : path # Target => disk'[path] = disk[path]
  BY <1>1 DEF Rename, With, Without
<1>3. writes' = writes /\ stops' = stops /\ stops \in 0..MaxStops /\ writes \in 0..MaxWrites
      /\ DOMAIN disk' \subseteq {Main, Bak, Tmp(Main), Tmp(Bak)}
  BY <1>1, <1>2 DEF IndexInv, Rename
<1>4. Shows(Target, Data)
  BY <1>1 DEF Rename
<1>5. ASSUME CopyFirst PROVE IndexInv' /\ IndexStep
  <2>1. Target = Bak /\ Len(op.puts) = 2
    BY <1>1, <1>5, Targets DEF IndexInv
  <2>2. op'.new = op.new
    BY <2>1 DEF Rename, IndexInv, BackUpInv
  <2>3. seen' = seen
    BY <1>4, <2>1, PathsDiffer DEF Shows
  <2>4. (Main \in DOMAIN disk' <=> Main \in DOMAIN disk) /\ (Main \in DOMAIN disk => disk'[Main] = disk[Main])
    BY <1>2, <2>1, PathsDiffer
  <2>5. GetFolder(Main)' = GetFolder(Main)
    BY <2>4 DEF GetFolder, Exists
  <2> QED
    BY <1>1, <1>3, <2>2, <2>3, <2>5, FileStays
<1>6. ASSUME FileOnly PROVE IndexInv' /\ IndexStep
  <2>1. Target = Main /\ Data = op.new /\ Len(op.puts) = 1
    BY <1>1, <1>6, Targets DEF IndexInv
  <2>2. op' = NoWrite
    BY <2>1 DEF Rename
  <2>3. GetFolder(Main)' = op.new
    BY <1>2, <2>1 DEF GetFolder, Exists
  <2>4. seen' = Listing(op.new)
    BY <1>4, <2>1 DEF Shows
  <2>5. op.new \in Texts /\ Moved(ParseIndex(GetFolder(Main)), ParseIndex(op.new))
        /\ GetFolder(Main) \in Texts /\ seen = Listing(GetFolder(Main))
    BY <1>1 DEF IndexInv
  <2>6. IndexInv'
    BY <1>1, <1>3, <2>2, <2>3, <2>4, <2>5 DEF IndexInv, NoWrite
  <2> DEFINE a == ParseIndex(GetFolder(Main))
  <2> DEFINE b == ParseIndex(op.new)
  <2>7. a \in Canon /\ seen = Shown(a) /\ seen' = Shown(b) /\ Moved(a, b)
    BY <2>4, <2>5, TextParsed, ListingShows
  <2> HIDE DEF a, b
  <2>8. IndexStep
    BY <2>7, MovedShown DEF IndexStep
  <2> QED
    BY <2>6, <2>8
<1> QED
  BY <1>1, <1>5, <1>6

LEMMA StopMoves == ASSUME IndexInv, StopWrite \/ UNCHANGED indexVars PROVE IndexInv' /\ IndexStep
<1>1. BackUpInv'
  BY StopKeeps, IndexStutter DEF IndexInv
<1>2. op' = op \/ op'.pc = "idle"
  BY DEF StopWrite, indexVars, NoWrite
<1>3. disk' = disk /\ seen' = seen /\ writes' = writes
  BY DEF StopWrite, indexVars
<1>4. stops' \in 0..MaxStops
  BY IndexAssumption DEF StopWrite, indexVars, IndexInv
<1>5. GetFolder(Main)' = GetFolder(Main) /\ DOMAIN disk' \subseteq {Main, Bak, Tmp(Main), Tmp(Bak)}
  BY <1>3 DEF GetFolder, Exists, IndexInv
<1> QED
  BY <1>1, <1>2, <1>3, <1>4, <1>5, FileStays

LEMMA IndexKept == ASSUME IndexInv, [IndexNext]_indexVars PROVE IndexInv' /\ IndexStep
BY Beginnings, BackUpMoves, TmpMoves, RenameMoves, StopMoves DEF IndexNext

LEMMA IndexShape == ASSUME IndexInv PROVE WellFormed
<1> DEFINE lines == ParseIndex(GetFolder(Main))
<1>1. lines \in Canon /\ GetFolder(Main) \in {<<>>, SerializeIndex(lines)}
  BY TextParsed DEF IndexInv
<1>2. Exists(Main) => disk[Main] = GetFolder(Main)
  BY DEF GetFolder
<1> HIDE DEF lines
<1>3. ASSUME NEW i \in DOMAIN lines
      PROVE  (\E m \in Mems : lines[i].key = Key(m) /\ lines[i].name = <<m>>) /\ Len(lines[i].hook) <= HookMax
  <2>1. i \in 1..Len(lines)
    BY <1>1, CanonLines
  <2>2. PICK m \in Mems, h \in Hooks : lines[i] = LineOf(m, h)
    BY <1>1, <2>1, CanonLines
  <2>3. Len(h) <= HookMax
    BY HookPlain
  <2>4. lines[i].key = Key(m) /\ lines[i].name = <<m>> /\ lines[i].hook = h
    BY <2>2 DEF LineOf
  <2> QED
    BY <2>3, <2>4
<1>4. op.pc \in {"idle", "prev", "open", "write", "rename"}
  BY DEF IndexInv, BackUpInv, Steps
<1> QED
  BY <1>1, <1>2, <1>3, <1>4, Zenon DEF WellFormed, IndexInv, lines

\* What the code last wrote to long-term-memory.md is empty or the text of the list it parses to,
\* with one line for a memory, whatever text the briefs and hooks hold, marks of the format
\* included, for every hookMaxLen and wherever a write is cut short.
THEOREM WellFormedKept == IndexSpec => []WellFormed
<1>1. IndexInit => IndexInv
  BY IndexStart
<1>2. IndexInv /\ [IndexNext]_indexVars => IndexInv'
  BY IndexKept
<1>3. IndexInv => WellFormed
  BY IndexShape
<1> QED
  BY <1>1, <1>2, <1>3, PTL DEF IndexSpec

\* Each write of long-term-memory.md is, for its readers, one change of one entry of the list or
\* none: the file with its temporary file and its rename implements IndexLines.
THEOREM IndexAtomicKept == IndexSpec => IndexAtomic
<1>1. IndexInit => IndexInv /\ Lists!ListInit
  BY IndexStart
<1>2. IndexInv /\ [IndexNext]_indexVars => IndexInv'
  BY IndexKept
<1>3. IndexInv /\ [IndexNext]_indexVars => [Lists!ListNext]_seen
  BY IndexKept DEF IndexStep
<1> QED
  BY <1>1, <1>2, <1>3, PTL DEF IndexSpec, IndexAtomic, Lists!ListSpec

(***************************************************************************)
(* Putting a line that is there changes nothing.                           *)
(***************************************************************************)
LEMMA PutAgain ==
  ASSUME NEW a \in Canon, NEW m \in Mems, NEW h \in Hooks
  PROVE  PutLine(PutLine(a, m, h), m, h) = PutLine(a, m, h)
<1> DEFINE l == LineOf(m, h)
<1> DEFINE b == PutLine(a, m, h)
<1>1. l.key = Key(m)
  BY DEF LineOf
<1>2. DOMAIN a = 1..Len(a) /\ Len(a) \in Nat /\ a = [k \in 1..Len(a) |-> a[k]]
  BY CanonLines
<1>3. /\ b = [k \in DOMAIN b |-> b[k]] /\ \E k \in DOMAIN b : b[k] = l
      /\ \A k \in DOMAIN b : b[k].key = Key(m) => b[k] = l
  <2>1. CASE Positions(a, Key(m)) = {}
    <3>1. \A k \in 1..Len(a) : a[k].key # Key(m)
      BY <1>2, <2>1 DEF Positions
    <3>2. b = Append(a, l)
      BY <2>1 DEF PutLine
    <3> HIDE DEF b, l
    <3>3. b = [k \in 1..Len(a) + 1 |-> b[k]] /\ b[Len(a) + 1] = l /\ \A k \in 1..Len(a) : b[k] = a[k]
      BY <1>2, <3>2, Appended
    <3>4. DOMAIN b = 1..Len(a) + 1 /\ Len(a) + 1 \in 1..Len(a) + 1
          /\ \A k \in 1..Len(a) + 1 : k = Len(a) + 1 \/ k \in 1..Len(a)
      BY <1>2, <3>3
    <3> QED
      BY <3>1, <3>3, <3>4
  <2>2. CASE Positions(a, Key(m)) # {}
    <3>1. PICK p \in 1..Len(a) : a[p].key = Key(m)
      BY <1>2, <2>2 DEF Positions
    <3>2. b = [k \in 1..Len(a) |-> IF a[k].key = Key(m) THEN l ELSE a[k]]
      BY <1>2, <2>2 DEF PutLine
    <3> HIDE DEF b, l
    <3> QED
      BY <1>1, <3>1, <3>2
  <2> QED
    BY <2>1, <2>2
<1> HIDE DEF b, l
<1>4. Positions(b, Key(m)) # {}
  BY <1>1, <1>3 DEF Positions
<1>5. PutLine(b, m, h) = [i \in DOMAIN b |-> IF b[i].key = Key(m) THEN l ELSE b[i]]
  BY <1>4 DEF PutLine, l
<1>6. PutLine(b, m, h) = b
  BY <1>3, <1>5
<1> QED
  BY <1>6 DEF b

\* Upserting the same line twice gives the same text as once (index.go:94-95, D-07: "idempotent:
\* re-upserting yields identical bytes"), for every file the code has written.
THEOREM UpsertIdempotent ==
  ASSUME NEW text \in Texts, NEW m \in Mems, NEW brief \in Descriptions
  PROVE  UpsertIndexLine(UpsertIndexLine(text, m, brief), m, brief) = UpsertIndexLine(text, m, brief)
<1> DEFINE h == CapLen(Sanitized(brief), HookMax)
<1> DEFINE a == ParseIndex(text)
<1> DEFINE b == PutLine(a, m, h)
<1> DEFINE once == UpsertIndexLine(text, m, brief)
<1>1. once = SerializeIndex(b) /\ UpsertIndexLine(once, m, brief) = SerializeIndex(PutLine(ParseIndex(once), m, h))
  BY UpsertPuts, Zenon
<1>2. a \in Canon /\ h \in Hooks
  BY TextParsed DEF Hooks
<1> HIDE DEF a, h, once
<1>3. b \in Canon
  BY <1>2, PutMoves, MovedCanon
<1>4. ParseIndex(once) = b
  BY <1>1, <1>3, ParseSerialize
<1>5. PutLine(b, m, h) = b
  BY <1>2, PutAgain
<1> HIDE DEF b
<1> QED
  BY <1>1, <1>4, <1>5 DEF once
=============================================================================
