-------------------------- MODULE HandleFileProofs --------------------------
(***************************************************************************)
(* Proofs about FileIo, for any paths, contents, word size and bounds, and *)
(* about HandleTable, for any number of threads, objects, slots and        *)
(* descriptors, and any handle word that has room for the slot indices.    *)
(***************************************************************************)
EXTENDS FileIo, HandleTable, TLAPS

(* FileIo.  A descriptor as open_file leaves it.                           *)
Descriptor == [name : Paths, access : Access, flags : {0, 1, 2}, pos : 0..MaxLen]

(* A file that is there has bytes, no more than MaxLen of them.            *)
Stored(c) == c \in Seq(Nat) /\ Len(c) <= MaxLen

FilesTyped ==
  /\ disk = [n \in Paths |-> disk[n]]
  /\ \A n \in Paths : disk[n] = NoFile \/ Stored(disk[n])
  /\ open \in Seq(Descriptor) /\ asked \in Seq(Int) /\ Len(asked) = Len(open)

(* A descriptor has the flags of the access it was opened with, and its    *)
(* file is there.                                                          *)
DescriptorsOpened ==
  \A f \in 1..Len(open) :
    /\ open[f].flags = AccessFlags(open[f].access)
    /\ disk[open[f].name] # NoFile
    /\ f \notin astray => open[f].pos = asked[f]

AnswerIsTrue == answer.given \/ answer.is < WordMod => answer.told = answer.is

FilesInv == FilesTyped /\ DescriptorsOpened /\ AnswerIsTrue

(* Two words put together again are the number they were made from, when   *)
(* the high one is given or the number fits into the low one.              *)
LEMMA ToldIsSize ==
  ASSUME NEW size \in Nat, NEW given \in BOOLEAN, given \/ size < WordMod
  PROVE  Told(size, given) = size
<1>1. WordMod \in Nat \ {0}
  BY FilesAssumption
<1>2. size = ((size \div WordMod) * WordMod) + (size % WordMod) /\ size % WordMod \in 0..WordMod - 1
      /\ size \div WordMod \in Int
  BY <1>1
<1>3. (size % WordMod) % WordMod = size % WordMod
  BY <1>1, <1>2
<1>4. CASE given
  BY <1>4, <1>2 DEF Told, Join
<1>5. CASE ~given
  BY <1>5, <1>1 DEF Told, Join
<1> QED
  BY <1>4, <1>5

(* A function on 1..n is a sequence of n elements. *)
LEMMA AsSequence ==
  ASSUME NEW n \in Nat, NEW S, NEW w \in [1..n -> S]
  PROVE  w \in Seq(S) /\ Len(w) = n
OBVIOUS

(* One element of a sequence is replaced. *)
LEMMA Replaced ==
  ASSUME NEW S, NEW s \in Seq(S), NEW f \in 1..Len(s), NEW e \in S
  PROVE  /\ [s EXCEPT ![f] = e] \in Seq(S) /\ Len([s EXCEPT ![f] = e]) = Len(s)
         /\ \A g \in 1..Len(s) : [s EXCEPT ![f] = e][g] = (IF g = f THEN e ELSE s[g])
OBVIOUS

(* write: what a file becomes. *)
LEMMA WrittenStored ==
  ASSUME NEW c \in Seq(Nat), Len(c) <= MaxLen, NEW pos \in Nat, NEW b \in Nat, pos + 1 <= MaxLen
  PROVE  Stored(Written(c, pos, <<b>>))
<1> DEFINE n == IF pos + 1 > Len(c) THEN pos + 1 ELSE Len(c)
           w == Written(c, pos, <<b>>)
<1>1. n \in Nat /\ n <= MaxLen
  BY FilesAssumption
<1>2. w = [i \in 1..n |-> IF i \in (pos + 1)..(pos + 1) THEN <<b>>[i - pos]
                          ELSE IF i <= Len(c) THEN c[i] ELSE 0]
  BY SMT, Z3 DEF Written
<1>3. \A i \in 1..n : (IF i \in (pos + 1)..(pos + 1) THEN <<b>>[i - pos]
                          ELSE IF i <= Len(c) THEN c[i] ELSE 0) \in Nat
  BY <1>1
<1>4. w \in [1..n -> Nat]
  BY <1>2, <1>3, SMTT(30), Z3T(30)
<1>5. w \in Seq(Nat) /\ Len(w) = n
  <2> HIDE DEF w, n
  <2> QED
    BY <1>1, <1>4, AsSequence
<1> QED
  BY <1>1, <1>5, SMT, Z3 DEF Stored

(* open: the flags of an access, and what they let the host do. *)
LEMMA FlagsOfAccess ==
  ASSUME NEW access \in Access
  PROVE  /\ AccessFlags(access) \in {0, 1, 2}
         /\ Has(AccessFlags(access), O_WRONLY) \/ Has(AccessFlags(access), O_RDWR)
              => "GENERIC_WRITE" \in access
<1>1. CASE access = {"GENERIC_READ", "GENERIC_WRITE"}
  BY <1>1 DEF AccessFlags
<1>2. CASE access = {"GENERIC_WRITE"}
  BY <1>2 DEF AccessFlags
<1>3. CASE access # {"GENERIC_READ", "GENERIC_WRITE"} /\ access # {"GENERIC_WRITE"}
  BY <1>3 DEF AccessFlags, Has, O_WRONLY, O_RDWR
<1> QED
  BY <1>1, <1>2, <1>3

(* No disposition sets the host's O_TRUNC: a file that is opened keeps its  *)
(* contents.                                                                *)
LEMMA OpenKeeps ==
  ASSUME NEW access \in Access, NEW disp \in Dispositions, NEW file
  PROVE  LET flags == AccessFlags(access) + DispositionFlags(disp) IN
         OpenLeaves(file, flags) = IF file = NoFile THEN << >> ELSE file
<1>1. PICK a \in {0, 1, 2} : a = AccessFlags(access)
  BY FlagsOfAccess
<1>2. PICK d \in {192, 576, 0, 64, 512} : d = DispositionFlags(disp)
  BY DEF Dispositions, DispositionFlags
<1>3. ~Has(a + d, O_TRUNC)
  BY DEF Has, O_TRUNC
<1> QED
  BY <1>1, <1>2, <1>3 DEF OpenLeaves

(* What FilesInv says of one open file. *)
LEMMA OpenFileIs ==
  ASSUME FilesInv, NEW f \in 1..Len(open)
  PROVE  /\ open[f] \in Descriptor /\ asked[f] \in Int
         /\ Stored(Content(f)) /\ Len(Content(f)) \in 0..MaxLen
<1>1. open[f] \in Descriptor /\ asked[f] \in Int
  BY DEF FilesInv, FilesTyped
<1>2. Stored(Content(f))
  BY <1>1, Zenon DEF FilesInv, FilesTyped, DescriptorsOpened, Descriptor, Content
<1> QED
  BY <1>1, <1>2 DEF Stored

LEMMA FilesInitInv == FilesInit => FilesInv
<1> SUFFICES ASSUME FilesInit PROVE FilesInv
  OBVIOUS
<1>1. disk = [n \in Paths |-> disk[n]]
  BY Zenon DEF FilesInit
<1>2. \A n \in Paths : disk[n] = NoFile \/ Stored(disk[n])
  BY FilesAssumption DEF FilesInit, Stored
<1>3. open \in Seq(Descriptor) /\ asked \in Seq(Int) /\ Len(asked) = Len(open) /\ Len(open) = 0
  BY DEF FilesInit
<1>4. AnswerIsTrue
  BY DEF FilesInit, AnswerIsTrue, NoAnswer
<1> QED
  BY <1>1, <1>2, <1>3, <1>4 DEF FilesInv, FilesTyped, DescriptorsOpened

(* A step of the thunk of one open file that moves its pointer. *)
LEMMA PointerStep ==
  ASSUME FilesInv, NEW f \in 1..Len(open), NEW p \in 0..MaxLen, NEW q \in Int,
         f \notin astray' => p = q, \A g \in 1..Len(open) : g # f => (g \in astray' <=> g \in astray),
         open' = [open EXCEPT ![f].pos = p], asked' = [asked EXCEPT ![f] = q],
         disk' = [n \in Paths |-> disk'[n]],
         \A n \in Paths : disk'[n] = NoFile \/ Stored(disk'[n]),
         \A n \in Paths : disk'[n] = NoFile => disk[n] = NoFile
  PROVE  FilesTyped' /\ DescriptorsOpened'
<1>1. open \in Seq(Descriptor) /\ asked \in Seq(Int) /\ Len(asked) = Len(open)
  BY Zenon DEF FilesInv, FilesTyped
<1> DEFINE r == [open[f] EXCEPT !.pos = p]
<1>a. open[f] \in Descriptor
  BY <1>1, SMT, Z3
<1>b. r \in Descriptor /\ open' = [open EXCEPT ![f] = r]
  BY <1>a, SMTT(30), Z3T(30) DEF Descriptor
<1>c. /\ r.flags = open[f].flags /\ r.access = open[f].access
      /\ r.name = open[f].name /\ r.pos = p
  BY <1>a DEF Descriptor
<1> HIDE DEF r
<1>d. /\ [open EXCEPT ![f] = r] \in Seq(Descriptor) /\ Len([open EXCEPT ![f] = r]) = Len(open)
      /\ \A g \in 1..Len(open) : [open EXCEPT ![f] = r][g] = (IF g = f THEN r ELSE open[g])
  BY <1>1, <1>b, Replaced, SMT, Z3
<1>2. open' \in Seq(Descriptor) /\ Len(open') = Len(open)
      /\ \A g \in 1..Len(open) : open'[g] = (IF g = f THEN r ELSE open[g])
  BY <1>b, <1>d, Zenon
<1>3. asked' \in Seq(Int) /\ Len(asked') = Len(asked)
  BY <1>1
<1>4. ASSUME NEW g \in 1..Len(open)
      PROVE  /\ open'[g].flags = open[g].flags /\ open'[g].access = open[g].access
             /\ open'[g].name = open[g].name /\ open[g].name \in Paths
             /\ open'[g].pos = IF g = f THEN p ELSE open[g].pos
             /\ asked'[g] = IF g = f THEN q ELSE asked[g]
  <2>1. open[g] \in Descriptor /\ asked'[g] = (IF g = f THEN q ELSE asked[g])
    BY <1>1, SMT, Z3
  <2>2. open[g].name \in Paths
    BY <2>1 DEF Descriptor
  <2> QED
    BY <1>2, <1>c, <2>1, <2>2, SMT, Z3
<1>5. FilesTyped'
  BY <1>1, <1>2, <1>3, Zenon DEF FilesTyped, Stored
<1>6. DescriptorsOpened'
  <2> SUFFICES ASSUME NEW g \in 1..Len(open)
               PROVE  /\ open'[g].flags = AccessFlags(open'[g].access)
                      /\ disk'[open'[g].name] # NoFile
                      /\ g \notin astray' => open'[g].pos = asked'[g]
    BY <1>2, Zenon DEF DescriptorsOpened
  <2>1. CASE g = f
    BY <1>4, <2>1, SMT, Z3 DEF FilesInv, DescriptorsOpened
  <2>2. CASE g # f
    BY <1>4, <2>2, SMT, Z3 DEF FilesInv, DescriptorsOpened
  <2> QED
    BY <2>1, <2>2, SMT, Z3
<1> QED
  BY <1>5, <1>6

LEMMA OpenStep ==
  ASSUME FilesInv, NEW name \in Paths, NEW access \in Access, NEW disp \in Dispositions,
         open_file(name, access, disp)
  PROVE  /\ FilesInv'
         /\ \A n \in Paths : disk[n] # NoFile => disk'[n] = disk[n]
<1> DEFINE flags == AccessFlags(access) + DispositionFlags(disp)
           ok == OpenSucceeds(disk[name], flags)
           fd == [name |-> name, access |-> access, flags |-> AccessFlags(access), pos |-> 0]
<1>0. disk = [n \in Paths |-> disk[n]] /\ open \in Seq(Descriptor) /\ asked \in Seq(Int)
      /\ Len(asked) = Len(open)
  BY Zenon DEF FilesInv, FilesTyped
<1>1. OpenLeaves(disk[name], flags) = IF disk[name] = NoFile THEN << >> ELSE disk[name]
  BY OpenKeeps, ZenonT(40)
<1>2. \A n \in Paths : disk'[n] = IF n = name /\ ok /\ disk[name] = NoFile THEN << >> ELSE disk[n]
  BY <1>0, <1>1, Zenon DEF open_file
<1>3. disk' = [n \in Paths |-> disk'[n]]
  BY <1>0, Zenon DEF open_file
<1>4. \A n \in Paths : disk'[n] = NoFile \/ Stored(disk'[n])
  <2>1. Stored(<< >>)
    BY FilesAssumption DEF Stored
  <2> QED
    BY <1>2, <2>1, Zenon DEF FilesInv, FilesTyped
<1>5. AnswerIsTrue'
  BY DEF open_file, AnswerIsTrue, NoAnswer
<1>6. \A n \in Paths : disk[n] # NoFile => disk'[n] = disk[n]
  BY <1>2, Zenon
<1>7. CASE ~ok
  <2>1. open' = open /\ asked' = asked /\ astray' = astray
    BY <1>7, Zenon DEF open_file
  <2>2. disk' = disk
    <3>1. \A n \in Paths : disk'[n] = disk[n]
      BY <1>2, <1>7, Zenon
    <3> QED
      BY <1>0, <1>3, <3>1, Zenon
  <2> QED
    BY <1>5, <1>6, <2>1, <2>2, Zenon DEF FilesInv, FilesTyped, DescriptorsOpened, Stored
<1>8. CASE ok
  <2>1. open' = Append(open, fd) /\ asked' = Append(asked, 0) /\ astray' = astray
    BY <1>8, Zenon DEF open_file
  <2>2. fd \in Descriptor
    BY FlagsOfAccess, FilesAssumption DEF Descriptor
  <2>3. disk'[name] # NoFile
    <3>1. << >> # NoFile
      BY DEF NoFile
    <3> QED
      BY <1>2, <1>8, <3>1, Zenon
  <2>4. open' \in Seq(Descriptor) /\ asked' \in Seq(Int) /\ Len(asked') = Len(open')
        /\ Len(open') = Len(open) + 1
    <3> HIDE DEF fd
    <3> QED
      BY <1>0, <2>1, <2>2, SMT, Z3
  <2>5. ASSUME NEW g \in 1..Len(open')
        PROVE  \/ g \in 1..Len(open) /\ open'[g] = open[g] /\ asked'[g] = asked[g]
                  /\ open[g].name \in Paths
               \/ open'[g] = fd /\ asked'[g] = 0
    <3> HIDE DEF fd
    <3>1. g \in 1..Len(open) \/ g = Len(open) + 1
      BY <1>0, <2>4, SMT, Z3
    <3>2. g \in 1..Len(open) => open[g] \in Descriptor
      BY <1>0
    <3>3. g \in 1..Len(open) => open[g].name \in Paths
      BY <3>2 DEF Descriptor
    <3> QED
      BY <1>0, <2>1, <3>1, <3>3, SMT, Z3
  <2>6. FilesTyped'
    BY <1>3, <1>4, <2>4, Zenon DEF FilesTyped, Stored
  <2>7. DescriptorsOpened'
    <3> SUFFICES ASSUME NEW g \in 1..Len(open')
                 PROVE  /\ open'[g].flags = AccessFlags(open'[g].access)
                        /\ disk'[open'[g].name] # NoFile
                        /\ g \notin astray' => open'[g].pos = asked'[g]
      BY Zenon DEF DescriptorsOpened
    <3>1. CASE g \in 1..Len(open) /\ open'[g] = open[g] /\ asked'[g] = asked[g]
               /\ open[g].name \in Paths
      BY <1>6, <2>1, <3>1, Zenon DEF FilesInv, DescriptorsOpened
    <3>2. CASE open'[g] = fd /\ asked'[g] = 0
      BY <2>3, <3>2
    <3> QED
      BY <2>5, <3>1, <3>2, SMT, Z3
  <2> QED
    BY <1>5, <1>6, <2>6, <2>7 DEF FilesInv
<1> QED
  BY <1>7, <1>8

(* ReadFile: each pointer moves by what there is to read from it. *)
LEMMA ReadStep ==
  ASSUME FilesInv, NEW f \in 1..Len(open), NEW count \in 1..2, ReadFile(f, count)
  PROVE  FilesInv' /\ disk' = disk
<1> DEFINE n == Available(f, open[f].pos, count)
           p == open[f].pos + n
           m == Available(f, asked[f], count)
           q == asked[f] + m
<1>1. /\ open[f].pos \in 0..MaxLen /\ asked[f] \in Int
      /\ Len(Content(f)) \in 0..MaxLen
  BY OpenFileIs, SMT, Z3 DEF Descriptor
<1>2. n \in Nat /\ p \in 0..MaxLen
  <2>1. PICK len \in 0..MaxLen, pos \in 0..MaxLen : len = Len(Content(f)) /\ pos = open[f].pos
    BY <1>1, SMT, Z3
  <2>2. n = (IF pos >= len THEN 0 ELSE IF count <= len - pos THEN count ELSE len - pos)
    BY <2>1, SMT, Z3 DEF Available, Smaller
  <2>3. n \in Nat /\ pos + n \in 0..MaxLen
    <3> HIDE DEF n
    <3>1. len \in Nat /\ pos \in Nat /\ count \in Nat /\ MaxLen \in Nat /\ len <= MaxLen /\ pos <= MaxLen
      BY FilesAssumption
    <3> QED
      BY <2>2, <3>1, SMT, Z3
  <2> QED
    BY <2>1, <2>3, Zenon
<1>3. f \notin astray => open[f].pos = asked[f]
  BY Zenon DEF FilesInv, DescriptorsOpened
<1>4. q \in Int /\ (f \notin astray => p = q)
  <2>1. PICK len \in Nat, at \in Int : len = Len(Content(f)) /\ at = asked[f]
    BY <1>1, SMT, Z3
  <2>2. m = (IF at >= len THEN 0 ELSE IF count <= len - at THEN count ELSE len - at)
    BY <2>1, SMT, Z3 DEF Available, Smaller
  <2>3. m \in Int
    <3> HIDE DEF m
    <3> QED
      BY <2>2, SMT, Z3
  <2>4. q \in Int
    <3> HIDE DEF m
    <3> QED
      BY <1>1, <2>3, SMT, Z3
  <2>5. f \notin astray => p = q
    BY <1>3, Zenon
  <2> QED
    BY <2>4, <2>5
<1>5. /\ open' = [open EXCEPT ![f].pos = p] /\ asked' = [asked EXCEPT ![f] = q]
      /\ disk' = disk /\ answer' = NoAnswer /\ astray' = astray
  BY DEF ReadFile
<1>6. FilesTyped' /\ DescriptorsOpened'
  <2> HIDE DEF n, m, p, q
  <2>1. /\ disk' = [x \in Paths |-> disk'[x]]
        /\ \A x \in Paths : disk'[x] = NoFile \/ Stored(disk'[x])
        /\ \A x \in Paths : disk'[x] = NoFile => disk[x] = NoFile
    BY <1>5, Zenon DEF FilesInv, FilesTyped
  <2> QED
    BY <1>2, <1>4, <1>5, <2>1, PointerStep, Zenon
<1>7. AnswerIsTrue'
  BY <1>5 DEF AnswerIsTrue, NoAnswer
<1> QED
  BY <1>5, <1>6, <1>7, Zenon DEF FilesInv

(* WriteFile: both pointers move by what is written, into the file that the *)
(* descriptor was opened for, with the access that it was opened with.      *)
LEMMA WriteStep ==
  ASSUME FilesInv, NEW f \in 1..Len(open), NEW b \in Byte, WriteFile(f, <<b>>)
  PROVE  /\ FilesInv'
         /\ \A m \in Paths : m # open[f].name => disk'[m] = disk[m]
         /\ open'[f].pos > open[f].pos /\ "GENERIC_WRITE" \in open[f].access
<1> DEFINE p == open[f].pos + 1
           q == asked[f] + 1
           c == Written(Content(f), open[f].pos, <<b>>)
<1>0. open[f] \in Descriptor /\ b \in Nat /\ Stored(Content(f))
  BY OpenFileIs, FilesAssumption, SMT, Z3
<1>1. /\ open[f].pos \in 0..MaxLen /\ asked[f] \in Int /\ open[f].name \in Paths
      /\ open[f].access \in Access
  BY OpenFileIs, SMT, Z3 DEF Descriptor
<1>2. p \in 0..MaxLen
  BY <1>1, FilesAssumption, SMT, Z3 DEF WriteFile
<1>3. f \notin astray => open[f].pos = asked[f]
  BY Zenon DEF FilesInv, DescriptorsOpened
<1>4. q \in Int /\ (f \notin astray => p = q)
  BY <1>1, <1>3
<1>5. /\ open' = [open EXCEPT ![f].pos = p] /\ asked' = [asked EXCEPT ![f] = q]
      /\ answer' = NoAnswer /\ astray' = astray
  BY DEF WriteFile
<1>6. disk' = [disk EXCEPT ![open[f].name] = c]
  BY Zenon DEF WriteFile, Content
<1>7. Stored(c)
  <2>1. open[f].pos \in Nat /\ open[f].pos + 1 <= MaxLen
    BY <1>1, <1>2, FilesAssumption, SMT, Z3
  <2>2. Content(f) \in Seq(Nat) /\ Len(Content(f)) <= MaxLen
    BY <1>0, Zenon DEF Stored
  <2> QED
    BY <1>0, <2>1, <2>2, WrittenStored, Zenon
<1>8. c # NoFile
  <2>1. NoFile \notin Seq(Nat)
    BY DEF NoFile
  <2> QED
    BY <1>7, <2>1, Zenon DEF Stored
<1>9. /\ disk' = [m \in Paths |-> disk'[m]]
      /\ \A m \in Paths : disk'[m] = IF m = open[f].name THEN c ELSE disk[m]
  <2> HIDE DEF c
  <2>1. disk = [m \in Paths |-> disk[m]]
    BY Zenon DEF FilesInv, FilesTyped
  <2> QED
    BY <1>1, <1>6, <2>1, Zenon
<1>10. FilesTyped' /\ DescriptorsOpened'
  <2> HIDE DEF p, q, c
  <2>1. /\ \A m \in Paths : disk'[m] = NoFile \/ Stored(disk'[m])
        /\ \A m \in Paths : disk'[m] = NoFile => disk[m] = NoFile
    BY <1>7, <1>8, <1>9, Zenon DEF FilesInv, FilesTyped
  <2> QED
    BY <1>2, <1>4, <1>5, <1>9, <2>1, PointerStep, Zenon
<1>11. AnswerIsTrue'
  BY <1>5, SMT, Z3 DEF AnswerIsTrue, NoAnswer
<1>12. open'[f].pos > open[f].pos
  <2>1. open \in Seq(Descriptor)
    BY Zenon DEF FilesInv, FilesTyped
  <2>2. open'[f] = [open[f] EXCEPT !.pos = p]
    <3> HIDE DEF p
    <3> QED
      BY <1>5, <2>1, SMT, Z3
  <2>3. open'[f].pos = p
    BY <1>0, <2>2 DEF Descriptor
  <2> QED
    BY <1>1, <2>3
<1>13. "GENERIC_WRITE" \in open[f].access
  <2>1. open[f].flags = AccessFlags(open[f].access)
    BY Zenon DEF FilesInv, DescriptorsOpened
  <2> QED
    BY <1>1, <2>1, FlagsOfAccess, Zenon DEF WriteFile, Writable
<1> QED
  BY <1>9, <1>10, <1>11, <1>12, <1>13, Zenon DEF FilesInv

(* Joining the words as SetFilePointer does gives the distance Win32 means, *)
(* unless the low word is negative and alone.                               *)
LEMMA DistanceIsMeant ==
  ASSUME NEW low \in Lows, NEW high \in Int, NEW given \in BOOLEAN,
         given \/ high = 0, given \/ low >= 0
  PROVE  Distance(low, high) = Win32Distance(low, high, given)
<1>1. WordMod \in Nat \ {0} /\ low \in Int /\ -WordMod <= low /\ low < WordMod
  BY FilesAssumption DEF Lows
<1>2. low % WordMod = IF low < 0 THEN low + WordMod ELSE low
  <2> DEFINE r == low % WordMod
             k == low \div WordMod
  <2>1. r \in 0..WordMod - 1 /\ k \in Int /\ low = WordMod * k + r
    BY <1>1
  <2> HIDE DEF r, k
  <2>2. CASE k >= 1
    <3>1. WordMod * k >= WordMod
      BY <1>1, <2>1, <2>2
    <3> QED
      BY <1>1, <2>1, <3>1
  <2>3. CASE k = 0
    BY <1>1, <2>1, <2>3 DEF r
  <2>4. CASE k = -1
    BY <1>1, <2>1, <2>4 DEF r
  <2>5. CASE k <= -2
    <3>1. WordMod * k <= -(WordMod + WordMod)
      BY <1>1, <2>1, <2>5
    <3> QED
      BY <1>1, <2>1, <3>1
  <2> QED
    BY <2>1, <2>2, <2>3, <2>4, <2>5
<1>3. Distance(low, high) = high * WordMod + (IF low < 0 THEN low + WordMod ELSE low)
  BY <1>2, Zenon DEF Distance, Join
<1>4. CASE given
  BY <1>3, <1>4 DEF Win32Distance
<1>5. CASE ~given
  BY <1>1, <1>3, <1>5 DEF Win32Distance
<1> QED
  BY <1>4, <1>5

(* SetFilePointer: a file that is not astray after the call was given a     *)
(* distance that both rules read alike, from an origin they agree on.       *)
LEMMA SeekStep ==
  ASSUME FilesInv, NEW f \in 1..Len(open), NEW low \in Lows, NEW high \in Int,
         NEW given \in BOOLEAN, given \/ high = 0, NEW method \in Methods,
         SetFilePointer(f, low, high, given, method)
  PROVE  FilesInv' /\ disk' = disk
<1> DEFINE d == Distance(low, high)
           off == Origin(f, open[f].pos, method) + d
           p == Moved(f, open[f].pos, d, method)
           to == Win32Target(f, low, high, given, method)
           q == Win32Moved(f, low, high, given, method)
<1>1. /\ open[f].pos \in 0..MaxLen /\ asked[f] \in Int
      /\ Len(Content(f)) \in 0..MaxLen
  BY OpenFileIs, SMT, Z3 DEF Descriptor
<1>2. d \in Int /\ Win32Distance(low, high, given) \in Int
  BY FilesAssumption DEF Distance, Join, Win32Distance, Lows
<1>3. /\ off <= MaxLen
      /\ open' = [open EXCEPT ![f].pos = p] /\ asked' = [asked EXCEPT ![f] = q]
      /\ astray' = Astray(f, low, high, given, method)
      /\ answer' = (IF off < 0 THEN NoAnswer
                    ELSE [told |-> Told(off, given), is |-> off, given |-> given])
      /\ disk' = disk
  BY DEF SetFilePointer
<1>4. f \notin astray => open[f].pos = asked[f]
  BY Zenon DEF FilesInv, DescriptorsOpened
<1>5. /\ Origin(f, open[f].pos, method) \in Nat /\ to \in Int
      /\ to = (IF method = "FILE_CURRENT" THEN asked[f] ELSE Origin(f, open[f].pos, method))
              + Win32Distance(low, high, given)
      /\ method = "FILE_CURRENT" => Origin(f, open[f].pos, method) = open[f].pos
  <2>1. CASE method = "FILE_BEGIN"
    BY <2>1, <1>2 DEF Origin, Win32Target
  <2>2. CASE method = "FILE_CURRENT"
    BY <2>2, <1>1, <1>2, SMT, Z3 DEF Origin, Win32Target
  <2>3. CASE method = "FILE_END"
    BY <2>3, <1>1, <1>2, SMT, Z3 DEF Origin, Win32Target
  <2> QED
    BY <2>1, <2>2, <2>3, SMT, Z3 DEF Methods
<1>6. off \in Int /\ p = (IF off < 0 THEN open[f].pos ELSE off)
  <2> HIDE DEF d
  <2> QED
    BY <1>2, <1>5, SMT, Z3 DEF Moved
<1>7. p \in 0..MaxLen
  <2> HIDE DEF d, off, p
  <2> QED
    BY <1>1, <1>3, <1>6, SMT, Z3
<1>8. q = (IF to < 0 THEN asked[f] ELSE to) /\ q \in Int
  <2>1. q = (IF to < 0 THEN asked[f] ELSE to)
    BY Zenon DEF Win32Moved
  <2> HIDE DEF q, to
  <2> QED
    BY <1>1, <1>5, <2>1
<1>9. ASSUME f \notin astray' PROVE p = q
  <2>1. /\ given \/ low >= 0
        /\ f \notin astray \/ (method # "FILE_CURRENT" /\ to >= 0)
    <3>1. given \/ ~(low < 0)
      BY <1>3, <1>9, Zenon DEF Astray
    <3>2. low \in Int
      BY FilesAssumption DEF Lows
    <3>3. f \notin astray \/ (method # "FILE_CURRENT" /\ to >= 0)
      BY <1>3, <1>9, Zenon DEF Astray
    <3> QED
      BY <3>1, <3>2, <3>3
  <2>2. d = Win32Distance(low, high, given)
    BY <2>1, DistanceIsMeant
  <2>3. to = off
    <3> HIDE DEF d, to
    <3> QED
      BY <1>1, <1>4, <1>5, <2>1, <2>2
  <2> HIDE DEF d, p, q, off, to
  <2>4. CASE f \notin astray
    BY <1>4, <1>6, <1>8, <2>3, <2>4
  <2>5. CASE to >= 0
    BY <1>5, <1>6, <1>8, <2>3, <2>5
  <2> QED
    BY <2>1, <2>4, <2>5
<1>10. \A g \in 1..Len(open) : g # f => (g \in astray' <=> g \in astray)
  BY <1>3, Zenon DEF Astray
<1>11. FilesTyped' /\ DescriptorsOpened'
  <2> HIDE DEF d, off, p, q, to
  <2>1. /\ disk' = [m \in Paths |-> disk'[m]]
        /\ \A m \in Paths : disk'[m] = NoFile \/ Stored(disk'[m])
        /\ \A m \in Paths : disk'[m] = NoFile => disk[m] = NoFile
    BY <1>3, Zenon DEF FilesInv, FilesTyped
  <2> QED
    BY <1>3, <1>7, <1>8, <1>9, <1>10, <2>1, PointerStep, Zenon
<1>12. AnswerIsTrue'
  <2> HIDE DEF d, off, p, q, to
  <2>1. CASE off < 0
    BY <1>3, <2>1, SMT, Z3 DEF AnswerIsTrue, NoAnswer
  <2>2. CASE ~(off < 0)
    <3>1. off \in Nat
      BY <1>6, <2>2
    <3>2. PICK size \in Nat : size = off
      BY <3>1, SMT, Z3
    <3>3. given \/ size < WordMod => Told(size, given) = size
      BY ToldIsSize
    <3>4. answer' = [told |-> Told(size, given), is |-> size, given |-> given]
      BY <1>3, <2>2, <3>2
    <3> QED
      BY <3>3, <3>4, SMT, Z3 DEF AnswerIsTrue
  <2> QED
    BY <2>1, <2>2, SMT, Z3
<1> QED
  BY <1>3, <1>11, <1>12, Zenon DEF FilesInv

LEMMA SizeStep ==
  ASSUME FilesInv, NEW f \in 1..Len(open), NEW given \in BOOLEAN, GetFileSize(f, given)
  PROVE  FilesInv' /\ disk' = disk
<1>1. PICK size \in Nat : size = Len(Content(f))
  BY OpenFileIs
<1>2. given \/ size < WordMod => Told(size, given) = size
  BY ToldIsSize, SMT, Z3
<1>3. answer' = [told |-> Told(size, given), is |-> size, given |-> given]
  BY <1>1, SMT, Z3 DEF GetFileSize
<1>4. AnswerIsTrue'
  BY <1>2, <1>3, SMT, Z3 DEF AnswerIsTrue
<1>5. disk' = disk /\ open' = open /\ asked' = asked /\ astray' = astray
  BY DEF GetFileSize
<1> QED
  BY <1>4, <1>5, Zenon DEF FilesInv, FilesTyped, DescriptorsOpened, Stored

LEMMA CallStep ==
  ASSUME FilesInv, NEW f \in 1..Len(open), Call(f)
  PROVE  FilesInv' /\ ChangesByWriting
<1>2. ASSUME disk' = disk PROVE ChangesByWriting
  BY <1>2, Zenon DEF ChangesByWriting
<1>3. CASE \E count \in 1..2 : ReadFile(f, count)
  BY <1>2, <1>3, ReadStep, Zenon
<1>4. CASE \E b \in Byte : WriteFile(f, <<b>>)
  <2>1. /\ FilesInv'
        /\ \A m \in Paths : m # open[f].name => disk'[m] = disk[m]
        /\ open'[f].pos > open[f].pos /\ "GENERIC_WRITE" \in open[f].access
    BY <1>4, WriteStep, Zenon
  <2> QED
    BY <2>1, Zenon DEF ChangesByWriting
<1>5. CASE \E low \in Lows, high \in {-1, 0}, method \in Methods :
             SetFilePointer(f, low, high, TRUE, method)
  <2>1. PICK low \in Lows, high \in {-1, 0}, method \in Methods :
          SetFilePointer(f, low, high, TRUE, method)
    BY <1>5, Zenon
  <2>2. high \in Int /\ TRUE \in BOOLEAN
    OBVIOUS
  <2> QED
    BY <1>2, <2>1, <2>2, SeekStep, Zenon
<1>6. CASE \E low \in Lows, method \in Methods : SetFilePointer(f, low, 0, FALSE, method)
  <2>1. PICK low \in Lows, method \in Methods : SetFilePointer(f, low, 0, FALSE, method)
    BY <1>6, Zenon
  <2>2. 0 \in Int /\ FALSE \in BOOLEAN
    OBVIOUS
  <2> QED
    BY <1>2, <2>1, <2>2, SeekStep, Zenon
<1>7. CASE \E given \in BOOLEAN : GetFileSize(f, given)
  BY <1>2, <1>7, SizeStep, Zenon
<1> QED
  BY <1>3, <1>4, <1>5, <1>6, <1>7, Zenon DEF Call

LEMMA FilesStep == FilesInv /\ [FilesNext]_file_vars => FilesInv' /\ [ChangesByWriting]_file_vars
<1> SUFFICES ASSUME FilesInv, [FilesNext]_file_vars
             PROVE  FilesInv' /\ [ChangesByWriting]_file_vars
  OBVIOUS
<1>1. CASE UNCHANGED file_vars
  BY <1>1, Zenon DEF file_vars, FilesInv, FilesTyped, DescriptorsOpened, Stored, AnswerIsTrue
<1>2. CASE \E name \in Paths, access \in Access, disp \in Dispositions :
             open_file(name, access, disp)
  BY <1>2, OpenStep, Zenon DEF ChangesByWriting
<1>3. CASE \E f \in 1..Len(open) : Call(f)
  BY <1>3, CallStep, Zenon
<1> QED
  BY <1>1, <1>2, <1>3, Zenon DEF FilesNext

(* file_io.rs, ReadFile, WriteFile and SetFilePointer: the pointer of every *)
(* open file is where Win32's own rule puts it, except from a negative low  *)
(* word without a high word until the next move from the beginning or the   *)
(* end, and what the guest is told of a position or size is so.             *)
THEOREM PointersFollow == FilesSpec => []PointersFollowTheGuest
<1>1. FilesInv => PointersFollowTheGuest
  <2> SUFFICES ASSUME FilesInv PROVE PointersFollowTheGuest
    OBVIOUS
  <2>1. \A n \in Paths : disk[n] = NoFile \/ disk[n] \in Seq(Nat)
    BY Zenon DEF FilesInv, FilesTyped, Stored
  <2>2. \A f \in 1..Len(open) : open[f].name \in Paths /\ open[f].pos \in 0..MaxLen
    BY OpenFileIs DEF Descriptor
  <2> QED
    BY <2>1, <2>2, Zenon
       DEF FilesInv, FilesTyped, DescriptorsOpened, AnswerIsTrue, PointersFollowTheGuest, FilesTypeOK
<1> QED
  BY <1>1, FilesInitInv, FilesStep, PTL DEF FilesSpec

(* file_io.rs, WriteFile and open_file: no contents change but by a write   *)
(* through a handle that was opened for writing.                            *)
THEOREM ChangesAreWrites == FilesSpec => FilesChangeByWriting
BY FilesInitInv, FilesStep, PTL DEF FilesSpec, FilesChangeByWriting
-----------------------------------------------------------------------------
(* HandleTable. *)

(* A slot of the table is free, or holds a created object; a File in it has *)
(* its descriptor open, and no object is in two slots.                      *)
SlotsHold ==
  /\ \A i \in 1..Len(slots) :
       slots[i] # FreeSlot =>
         /\ slots[i].id \in 1..created
         /\ slots[i].fd # NoFd => host[slots[i].fd] = slots[i].id
  /\ \A i, j \in 1..Len(slots) :
       slots[i].id = slots[j].id /\ slots[i].id # 0 => i = j

(* A CreateFile call between open() and insert has a descriptor of its own, *)
(* and an object that nobody else has met.                                  *)
OpenedApart ==
  \A t \in Threads :
    /\ pc[t] # "idle" => reg[t].id \in 1..created /\ reg[t].fd \in HostFds
    /\ pc[t] = "opened" =>
         /\ host[reg[t].fd] = reg[t].id
         /\ \A i \in 1..Len(slots) : slots[i].id # reg[t].id
         /\ \A u \in Threads \ {t} : pc[u] # "idle" => reg[u].id # reg[t].id

(* No descriptor leaks. *)
NoLeak ==
  \A fd \in HostFds :
    host[fd] # 0 =>
      \/ \E t \in Threads : pc[t] = "opened" /\ reg[t].fd = fd
      \/ \E i \in 1..Len(slots) : slots[i].fd = fd

(* Without DuplicateHandle every open handle is the one of its object's slot. *)
HandlesLead ==
  ~duplicated =>
    \A o \in Objects :
      /\ refs[o] <= 1
      /\ refs[o] > 0 =>
           \E i \in 1..Len(slots) :
             slots[i].id = o /\ handle_of[o] = pack(i - 1, slots[i].gen)

(* The inductive invariant. *)
IInv ==
  /\ HandlesTypeOK /\ Len(slots) <= MaxSlots
  /\ SlotsHold /\ OpenedApart /\ NoLeak /\ FileOpReachesItsFile /\ HandlesLead
-----------------------------------------------------------------------------
(* unpack undoes pack: the index and the generation of a handle are those   *)
(* that it was packed from.                                                 *)
LEMMA UnpackPack ==
  ASSUME ConstantsFit, NEW g \in Nat, NEW i \in 1..MaxSlots
  PROVE  /\ pack(i - 1, g) \in Nat /\ pack(i - 1, g) >= Base
         /\ generation_of(pack(i - 1, g)) = g
         /\ index_of(pack(i - 1, g)) = i - 1
<1> DEFINE r == (i - 1) + Base
           h == g * Shift + r
           q == h \div Shift
           m == h % Shift
<1>1. Shift \in Nat /\ Base \in Nat /\ r \in Nat /\ r < Shift /\ Shift > 0 /\ r >= Base
  BY DEF ConstantsFit
<1>2. g * Shift \in Nat
  BY <1>1, SMT, Z3
<1>3. h \in Nat /\ h >= Base
  BY <1>1, <1>2, SMT, Z3
<1>4. q \in Int /\ m \in 0..(Shift - 1) /\ h = Shift * q + m
  <2> HIDE DEF h
  <2> QED
    BY <1>1, <1>3, SMT, Z3
<1>5. Shift * (q - g) = r - m
  <2>1. Shift * q = h - m
    <3> HIDE DEF q, m, h, r
    <3> QED
      BY <1>1, <1>3, <1>4, SMT, Z3
  <2> HIDE DEF q, m, r
  <2> QED
    BY <1>1, <1>2, <1>4, <2>1, SMT, Z3
<1>6. q = g
  <2>1. r - m < Shift /\ r - m > -Shift
    <3> HIDE DEF q, m, h, r
    <3> QED
      BY <1>1, <1>4, SMT, Z3
  <2>2. PICK d \in Int : d = q - g
    BY <1>4
  <2>3. Shift * d < Shift /\ Shift * d > -Shift
    <3> HIDE DEF q, m, h, r
    <3> QED
      BY <1>5, <2>1, <2>2, Zenon
  <2>4. d < 1
    <3> SUFFICES ASSUME d >= 1 PROVE FALSE
      OBVIOUS
    <3>1. Shift * d >= Shift * 1
      BY <1>1, Z3
    <3> QED
      BY <1>1, <2>3, <3>1, SMT, Z3
  <2>5. d > -1
    <3> SUFFICES ASSUME d <= -1 PROVE FALSE
      OBVIOUS
    <3>1. Shift * d <= -Shift
      BY <1>1, Z3
    <3> QED
      BY <1>1, <2>3, <3>1, SMT, Z3
  <2> HIDE DEF q
  <2> QED
    BY <1>4, <2>2, <2>4, <2>5, SMT, Z3
<1>7. m = r
  <2> HIDE DEF q, m, h, r
  <2> QED
    BY <1>1, <1>4, <1>5, <1>6, SMT, Z3
<1> QED
  BY <1>1, <1>3, <1>6, <1>7, SMT, Z3 DEF pack, generation_of, index_of

(* A handle that was packed for a full slot names this slot and no other. *)
LEMMA GetPacked ==
  ASSUME ConstantsFit, HandlesTypeOK, Len(slots) <= MaxSlots,
         NEW i \in 1..Len(slots), slots[i] # FreeSlot
  PROVE  /\ \A j \in 1..Len(slots) : Names(pack(i - 1, slots[i].gen), j) <=> j = i
         /\ get(pack(i - 1, slots[i].gen)) = slots[i]
<1>1. slots[i] \in Slot /\ i \in 1..MaxSlots /\ Len(slots) \in Nat
  BY DEF HandlesTypeOK, ConstantsFit
<1>2. slots[i].gen \in Nat
  BY <1>1, Zenon DEF Slot
<1> DEFINE h == pack(i - 1, slots[i].gen)
<1>3. h >= Base /\ generation_of(h) = slots[i].gen /\ index_of(h) = i - 1
  BY <1>1, <1>2, UnpackPack, Zenon
<1> HIDE DEF h
<1>4. \A j \in 1..Len(slots) : Names(h, j) <=> j = i
  BY <1>1, <1>3 DEF Names
<1>5. get(h) = slots[i]
  <2>1. (CHOOSE j \in 1..Len(slots) : Names(h, j)) = i
    BY <1>4, Zenon
  <2> QED
    BY <1>4, <2>1, Zenon DEF get
<1> QED
  BY <1>4, <1>5, Zenon DEF h

(* What insert does: object id is put into slot i, which was free or is new, *)
(* and its handle leads there.                                               *)
Inserted(id, fd, i) ==
  /\ slots' \in Seq(Slot) /\ Len(slots') <= MaxSlots
  /\ i \in 1..Len(slots') /\ \A j \in 1..Len(slots) : j \in 1..Len(slots')
  /\ \A j \in 1..Len(slots') : j \in 1..Len(slots) \/ j = i
  /\ slots'[i].id = id /\ slots'[i].fd = fd /\ slots'[i] # FreeSlot
  /\ \A j \in 1..Len(slots) : j # i => slots'[j] = slots[j]
  /\ i \in 1..Len(slots) => slots[i] = FreeSlot
  /\ handle_of' = [handle_of EXCEPT ![id] = pack(i - 1, slots'[i].gen)]
  /\ pack(i - 1, slots'[i].gen) \in Nat

LEMMA InsertEffect ==
  ASSUME ConstantsFit, HandlesTypeOK, Len(slots) <= MaxSlots,
         NEW id \in Objects, NEW fd \in HostFds \cup {NoFd}, insert(id, fd)
  PROVE  \E i \in Nat : Inserted(id, fd, i)
<1> USE DEF NoFd
<1>0. slots \in Seq(Slot) /\ Len(slots) \in Nat /\ id \in 0..MaxObjects /\ id # 0
  BY SMT, Z3 DEF HandlesTypeOK, Objects, ConstantsFit
<1>1. \A g \in Nat : [gen |-> g, id |-> id, fd |-> fd] \in Slot
  BY <1>0, Zenon DEF Slot
<1>2. CASE \E i \in 1..Len(slots) :
             /\ IsFirstFree(i)
             /\ slots' = [slots EXCEPT ![i] = [gen |-> NewGen(slots[i]), id |-> id, fd |-> fd]]
             /\ handle_of' = [handle_of EXCEPT ![id] = pack(i - 1, NewGen(slots[i]))]
  <2>1. PICK i \in 1..Len(slots) :
             /\ IsFirstFree(i)
             /\ slots' = [slots EXCEPT ![i] = [gen |-> NewGen(slots[i]), id |-> id, fd |-> fd]]
             /\ handle_of' = [handle_of EXCEPT ![id] = pack(i - 1, NewGen(slots[i]))]
    BY <1>2, Zenon
  <2>2. NewGen(slots[i]) = 1 /\ slots[i] = FreeSlot
    BY <2>1, Zenon DEF IsFirstFree, NewGen
  <2>3. PICK s \in Slot : s = [gen |-> 1, id |-> id, fd |-> fd]
    BY <1>1, Zenon
  <2>4. s # FreeSlot /\ s.gen = 1 /\ s.id = id /\ s.fd = fd
    BY <1>0, <2>3, Zenon DEF FreeSlot
  <2>5. slots' = [slots EXCEPT ![i] = s]
    BY <2>1, <2>2, <2>3, Zenon
  <2>6. slots' \in Seq(Slot) /\ Len(slots') = Len(slots) /\ slots'[i] = s
        /\ \A j \in 1..Len(slots) : j # i => slots'[j] = slots[j]
    BY <1>0, <2>5, SMT, Z3
  <2>7. pack(i - 1, 1) \in Nat
    BY <1>0, UnpackPack DEF ConstantsFit
  <2>8. Inserted(id, fd, i)
    BY <1>0, <2>1, <2>2, <2>4, <2>6, <2>7, Zenon DEF Inserted
  <2> QED
    BY <2>8
<1>3. CASE /\ Len(slots) < MaxSlots
           /\ slots' = Append(slots, [gen |-> 1, id |-> id, fd |-> fd])
           /\ handle_of' = [handle_of EXCEPT ![id] = pack(Len(slots), 1)]
  <2>1. PICK i \in Nat : i = Len(slots) + 1
    BY <1>0
  <2>3. PICK s \in Slot : s = [gen |-> 1, id |-> id, fd |-> fd]
    BY <1>1, Zenon
  <2>4. s # FreeSlot /\ s.gen = 1 /\ s.id = id /\ s.fd = fd
    BY <1>0, <2>3, Zenon DEF FreeSlot
  <2>6. slots' \in Seq(Slot) /\ Len(slots') = i /\ slots'[i] = s
        /\ \A j \in 1..Len(slots) : slots'[j] = slots[j]
    BY <1>0, <1>3, <2>1, <2>3, SMT, Z3
  <2>7. pack(i - 1, 1) \in Nat /\ i - 1 = Len(slots)
    <3>1. i \in 1..MaxSlots
      BY <1>0, <1>3, <2>1, SMT, Z3 DEF ConstantsFit
    <3> QED
      BY <1>0, <2>1, <3>1, UnpackPack, SMT, Z3
  <2>8. /\ i <= MaxSlots /\ i \notin 1..Len(slots)
        /\ \A j \in 1..i : j \in 1..Len(slots) \/ j = i
        /\ \A j \in 1..Len(slots) : j \in 1..i
    BY <1>0, <1>3, <2>1, SMT, Z3 DEF ConstantsFit
  <2>9. Inserted(id, fd, i)
    <3>1. handle_of' = [handle_of EXCEPT ![id] = pack(i - 1, slots'[i].gen)]
      BY <1>3, <2>4, <2>6, <2>7, Zenon
    <3>2. pack(i - 1, slots'[i].gen) \in Nat
      BY <2>4, <2>6, <2>7, Zenon
    <3>3. i \in 1..Len(slots') /\ Len(slots') <= MaxSlots
      BY <1>0, <2>1, <2>6, <2>8, SMT, Z3
    <3>4. (\A j \in 1..Len(slots') : j \in 1..Len(slots) \/ j = i)
          /\ \A j \in 1..Len(slots) : j \in 1..Len(slots')
      BY <2>6, <2>8, Zenon
    <3> QED
      BY <2>4, <2>6, <2>8, <3>1, <3>2, <3>3, <3>4, Zenon DEF Inserted
  <2> QED
    BY <2>9, Zenon
<1> QED
  BY <1>2, <1>3, Zenon DEF insert

(* What remove does to a full slot. *)
Removed(i) ==
  /\ i \in 1..Len(slots) /\ slots[i] # FreeSlot
  /\ slots' \in Seq(Slot) /\ Len(slots') = Len(slots) /\ slots'[i] = FreeSlot
  /\ \A j \in 1..Len(slots) : j # i => slots'[j] = slots[j]
  /\ host' = IF slots[i].fd = NoFd THEN host ELSE [host EXCEPT ![slots[i].fd] = 0]

LEMMA RemoveEffect ==
  ASSUME HandlesTypeOK, ConstantsFit, NEW h \in Nat, remove(h)
  PROVE  \/ UNCHANGED <<slots, host>> /\ ~\E j \in 1..Len(slots) : Names(h, j)
         \/ \E i \in 1..Len(slots) : Names(h, i) /\ Removed(i)
<1>1. CASE \E j \in 1..Len(slots) : Names(h, j)
  <2>1. PICK i \in 1..Len(slots) : i = CHOOSE j \in 1..Len(slots) : Names(h, j)
    BY <1>1, Zenon
  <2>2. Names(h, i)
    BY <1>1, <2>1, Zenon
  <2>3. slots' = [slots EXCEPT ![i] = FreeSlot]
        /\ host' = IF slots[i].fd = NoFd THEN host ELSE [host EXCEPT ![slots[i].fd] = 0]
    BY <1>1, <2>1, Zenon DEF remove
  <2>4. FreeSlot \in Slot
    BY SMT, Z3 DEF FreeSlot, Slot, NoFd, ConstantsFit
  <2>5. slots' \in Seq(Slot) /\ Len(slots') = Len(slots) /\ slots'[i] = FreeSlot
        /\ \A j \in 1..Len(slots) : j # i => slots'[j] = slots[j]
    BY <2>3, <2>4, SMT, Z3 DEF HandlesTypeOK
  <2> QED
    BY <2>2, <2>3, <2>5, Zenon DEF Removed, Names
<1> QED
  BY <1>1, Zenon DEF remove

(* Facts about the slots that every step uses. *)
Facts ==
  /\ Len(slots) \in Nat
  /\ \A i \in 1..Len(slots) :
       /\ slots[i] \in Slot /\ slots[i].gen \in Nat
       /\ slots[i].id \in 0..MaxObjects /\ slots[i].fd \in HostFds \cup {NoFd}
  /\ FreeSlot.id = 0 /\ FreeSlot.fd = NoFd /\ NoFd \notin HostFds
  /\ created \in Nat /\ \A o \in 1..created : o \in Objects

LEMMA SlotFacts == ASSUME HandlesTypeOK, ConstantsFit PROVE Facts
<1>1. Len(slots) \in Nat /\ \A i \in 1..Len(slots) : slots[i] \in Slot
  BY DEF HandlesTypeOK
<1>2. \A s \in Slot : s.gen \in Nat /\ s.id \in 0..MaxObjects /\ s.fd \in HostFds \cup {NoFd}
  BY Zenon DEF Slot
<1>3. FreeSlot.id = 0 /\ FreeSlot.fd = NoFd /\ NoFd \notin HostFds
  BY SMT, Z3 DEF FreeSlot, NoFd, ConstantsFit
<1>4. created \in Nat /\ \A o \in 1..created : o \in Objects
  BY DEF HandlesTypeOK, ConstantsFit, Objects
<1> QED
  BY <1>1, <1>2, <1>3, <1>4, Zenon DEF Facts

(* HandlesInit. *)
LEMMA InitIInv == ASSUME ConstantsFit, HandlesInit PROVE IInv
<1>1. HandlesTypeOK
  <2>1. slots \in Seq(Slot)
    BY SMT, Z3 DEF HandlesInit
  <2>2. reg \in [Threads -> [id : 0..MaxObjects, fd : HostFds \cup {NoFd}]]
    BY SMT, Z3 DEF HandlesInit, NoReg, ConstantsFit
  <2>3. created \in 0..MaxObjects /\ host \in [HostFds -> 0..MaxObjects]
        /\ handle_of \in [Objects -> Nat] /\ refs \in [Objects -> 0..2]
    BY DEF ConstantsFit, HandlesInit
  <2>4. pc \in [Threads -> {"idle", "opened", "io"}] /\ duplicated \in BOOLEAN
    BY Zenon DEF HandlesInit
  <2> QED
    BY <2>1, <2>2, <2>3, <2>4, Zenon DEF HandlesTypeOK
<1>2. Len(slots) = 0 /\ Len(slots) <= MaxSlots /\ 1..Len(slots) = {}
  BY DEF ConstantsFit, HandlesInit
<1>3. SlotsHold /\ NoLeak
  BY <1>2, Zenon DEF HandlesInit, SlotsHold, NoLeak
<1>4. OpenedApart /\ FileOpReachesItsFile
  BY Zenon DEF HandlesInit, OpenedApart, FileOpReachesItsFile
<1>5. HandlesLead
  BY DEF HandlesInit, HandlesLead
<1> QED
  BY <1>1, <1>2, <1>3, <1>4, <1>5, Zenon DEF IInv

(* insert moves no full slot. *)
LEMMA InsertLeads ==
  ASSUME HandlesTypeOK, Facts, HandlesLead, NEW id \in Objects, NEW fd, NEW i \in Nat,
         Inserted(id, fd, i), refs' = [refs EXCEPT ![id] = 1], UNCHANGED duplicated
  PROVE  HandlesLead'
<1> SUFFICES ASSUME ~duplicated, NEW o \in Objects
             PROVE  /\ refs'[o] <= 1
                    /\ refs'[o] > 0 =>
                         \E j \in 1..Len(slots') :
                           slots'[j].id = o /\ handle_of'[o] = pack(j - 1, slots'[j].gen)
  BY Zenon DEF HandlesLead
<1>1. CASE o = id
  <2>1. refs'[o] = 1
    BY <1>1, Zenon DEF HandlesTypeOK
  <2>2. handle_of'[o] = pack(i - 1, slots'[i].gen) /\ slots'[i].id = o /\ i \in 1..Len(slots')
    BY <1>1, Zenon DEF HandlesTypeOK, Inserted
  <2> QED
    BY <2>1, <2>2, SMT, Z3
<1>2. CASE o # id
  <2>1. refs'[o] = refs[o] /\ handle_of'[o] = handle_of[o]
    BY <1>2, Zenon DEF HandlesTypeOK, Inserted
  <2>2. ASSUME NEW j \in 1..Len(slots), slots[j].id = o
        PROVE  j \in 1..Len(slots') /\ slots'[j] = slots[j]
    BY <2>2, SMT, Z3 DEF Facts, Inserted, Objects
  <2> QED
    BY <2>1, <2>2, SMT, Z3 DEF HandlesLead
<1> QED
  BY <1>1, <1>2, Zenon

(* An object that no slot held is in one slot after insert. *)
LEMMA SlotsApart ==
  ASSUME SlotsHold, NEW id, NEW fd, NEW i, Inserted(id, fd, i),
         \A m \in 1..Len(slots) : slots[m].id # id,
         NEW j \in 1..Len(slots'), NEW k \in 1..Len(slots'),
         slots'[j].id = slots'[k].id, slots'[j].id # 0
  PROVE  j = k
<1>1. \A m \in 1..Len(slots') :
        m # i => m \in 1..Len(slots) /\ slots'[m] = slots[m] /\ slots'[m].id # slots'[i].id
  BY Zenon DEF Inserted
<1> QED
  BY <1>1, Zenon DEF SlotsHold

(* CreateEvent and the like put a new object into the table. *)
LEMMA CreateObjectStep ==
  ASSUME ConstantsFit, IInv, NEW t \in Threads, CreateObject(t)
  PROVE  IInv'
<1>0. HandlesTypeOK /\ Len(slots) <= MaxSlots
  BY Zenon DEF IInv
<1>1. PICK id \in Objects : id = created + 1
  BY <1>0, SMT, Z3 DEF CreateObject, HandlesTypeOK, Objects, ConstantsFit
<1>2. created' = id /\ insert(id, NoFd) /\ UNCHANGED <<host, duplicated, pc, reg>>
      /\ refs' = [refs EXCEPT ![id] = 1]
  BY <1>1, Zenon DEF CreateObject, insert
<1>3. PICK i \in Nat : Inserted(id, NoFd, i)
  BY <1>0, <1>2, InsertEffect, Zenon
<1>f. Facts
  BY <1>0, SlotFacts, Zenon
<1>4. id \notin 1..created /\ id \in 1..id /\ id # 0 /\ \A o \in 1..created : o \in 1..id /\ o # id
  BY <1>0, <1>f, <1>1, SMT, Z3 DEF Facts
<1>5. HandlesTypeOK' /\ (Len(slots) <= MaxSlots)'
  <2>1. created' \in 0..MaxObjects /\ refs' \in [Objects -> 0..2]
    BY <1>0, <1>f, <1>2, SMT, Z3 DEF Facts, HandlesTypeOK, Objects
  <2>2. handle_of' \in [Objects -> Nat]
    BY <1>0, <1>f, <1>3, Zenon DEF Facts, HandlesTypeOK, Inserted
  <2> QED
    BY <1>0, <1>f, <1>2, <1>3, <2>1, <2>2, Zenon DEF Facts, HandlesTypeOK, Inserted
<1>a. \A j \in 1..Len(slots) : slots[j].id # id
  BY <1>f, <1>4, Zenon DEF Facts, IInv, SlotsHold
<1>6. SlotsHold'
  <2>1. ASSUME NEW k \in 1..Len(slots'), slots'[k] # FreeSlot
        PROVE  slots'[k].id \in 1..created'
               /\ (slots'[k].fd # NoFd => host'[slots'[k].fd] = slots'[k].id)
    <3>1. CASE k = i
      BY <1>2, <1>3, <1>4, <3>1, Zenon DEF Inserted
    <3>2. CASE k # i
      <4>1. k \in 1..Len(slots) /\ slots'[k] = slots[k]
        BY <1>3, <3>2, Zenon DEF Inserted
      <4> QED
        BY <1>2, <1>4, <2>1, <4>1, Zenon DEF IInv, SlotsHold
    <3> QED
      BY <3>1, <3>2, Zenon
  <2>2. ASSUME NEW j \in 1..Len(slots'), NEW k \in 1..Len(slots'),
               slots'[j].id = slots'[k].id, slots'[j].id # 0
        PROVE  j = k
    BY <1>3, <1>a, <2>2, SlotsApart, Zenon DEF IInv
  <2> QED
    BY <2>1, <2>2, Zenon DEF SlotsHold
<1>7. OpenedApart'
  <2> SUFFICES ASSUME NEW u \in Threads, pc[u] # "idle"
               PROVE  /\ reg[u].id \in 1..id /\ reg[u].fd \in HostFds
                      /\ pc[u] = "opened" =>
                           /\ host[reg[u].fd] = reg[u].id
                           /\ \A k \in 1..Len(slots') : slots'[k].id # reg[u].id
                           /\ \A v \in Threads \ {u} : pc[v] # "idle" => reg[v].id # reg[u].id
    BY <1>2, SMT, Z3 DEF OpenedApart
  <2>1. reg[u].id \in 1..created /\ reg[u].fd \in HostFds
    BY Zenon DEF IInv, OpenedApart
  <2>2. CASE pc[u] = "opened"
    <3>1. /\ host[reg[u].fd] = reg[u].id
          /\ \A k \in 1..Len(slots) : slots[k].id # reg[u].id
          /\ \A v \in Threads \ {u} : pc[v] # "idle" => reg[v].id # reg[u].id
      BY <2>2, Zenon DEF IInv, OpenedApart
    <3>2. \A k \in 1..Len(slots') : slots'[k].id # reg[u].id
      BY <1>3, <1>4, <2>1, <3>1, ZenonT(40) DEF Inserted
    <3> QED
      BY <1>4, <2>1, <3>1, <3>2, Zenon
  <2> QED
    BY <1>4, <2>1, <2>2, ZenonT(40)
<1>8. NoLeak'
  <2>1. ASSUME NEW k \in 1..Len(slots), slots[k].fd # NoFd
        PROVE  k \in 1..Len(slots') /\ slots'[k] = slots[k]
    BY <1>f, <1>3, <2>1, ZenonT(40) DEF Facts, Inserted
  <2> QED
    BY <1>f, <1>2, <2>1, SMTT(30), Z3T(30) DEF Facts, IInv, NoLeak
<1>9. FileOpReachesItsFile'
  BY <1>0, <1>f, <1>2, <1>3, <1>4, SMTT(30), Z3T(30) DEF Facts, IInv, FileOpReachesItsFile, OpenedApart, Inserted
<1>10. HandlesLead'
  BY <1>0, <1>f, <1>2, <1>3, InsertLeads, Zenon DEF IInv
<1> QED
  BY <1>5, <1>6, <1>7, <1>8, <1>9, <1>10, Zenon DEF IInv

(* open() gives a CreateFile call a descriptor that nobody has. *)
LEMMA OpenFileStep ==
  ASSUME ConstantsFit, IInv, NEW t \in Threads, OpenFile(t)
  PROVE  IInv'
<1>0. HandlesTypeOK /\ Len(slots) <= MaxSlots
  BY DEF IInv
<1>1. PICK id \in Objects : id = created + 1
  BY <1>0 DEF OpenFile, HandlesTypeOK, Objects, ConstantsFit
<1>2. PICK fd \in HostFds :
        /\ host[fd] = 0 /\ host' = [host EXCEPT ![fd] = id]
        /\ reg' = [reg EXCEPT ![t] = [id |-> id, fd |-> fd]]
  BY <1>1, Zenon DEF OpenFile, LowestFd
<1>3. created' = id /\ pc[t] = "idle" /\ pc' = [pc EXCEPT ![t] = "opened"]
      /\ UNCHANGED <<slots, handle_of, refs, duplicated>>
  BY <1>1, Zenon DEF OpenFile
<1>f. Facts
  BY <1>0, SlotFacts, Zenon
<1>4. id \notin 1..created /\ id \in Nat /\ id # 0 /\ \A o \in 1..created : o \in 1..id
  BY <1>0, <1>f, <1>1, SMT, Z3 DEF Facts
<1>5. HandlesTypeOK' /\ (Len(slots) <= MaxSlots)'
  BY <1>0, <1>f, <1>2, <1>3, SMT, Z3 DEF Facts, HandlesTypeOK, Objects
<1>6. /\ reg'[t].id = id /\ reg'[t].fd = fd /\ pc'[t] = "opened"
      /\ \A u \in Threads \ {t} : reg'[u] = reg[u] /\ pc'[u] = pc[u]
      /\ host'[fd] = id /\ \A f \in HostFds \ {fd} : host'[f] = host[f]
  BY <1>0, <1>f, <1>2, <1>3, ZenonT(30) DEF Facts, HandlesTypeOK
<1>7. SlotsHold'
  BY <1>0, <1>f, <1>2, <1>3, <1>4, <1>6, SMTT(30), Z3T(30) DEF Facts, IInv, SlotsHold
<1>8. OpenedApart'
  <2>1. \A k \in 1..Len(slots) : slots[k].id # id
    BY <1>f, <1>4, ZenonT(40) DEF Facts, IInv, SlotsHold
  <2>2. ASSUME NEW u \in Threads \ {t}, pc[u] # "idle"
        PROVE  reg[u].id \in 1..created /\ reg[u].fd \in HostFds /\ reg[u].id # id
               /\ reg[u].id \in 1..id /\ (pc[u] = "opened" => reg[u].fd # fd)
    BY <1>2, <1>4, <2>2, SMT, Z3 DEF IInv, OpenedApart
  <2>3. ASSUME NEW u \in Threads, pc'[u] # "idle"
        PROVE  reg'[u].id \in 1..created' /\ reg'[u].fd \in HostFds
    BY <1>3, <1>4, <1>6, <2>2, <2>3, SMT, Z3
  <2>4. ASSUME NEW u \in Threads, pc'[u] = "opened"
        PROVE  /\ host'[reg'[u].fd] = reg'[u].id
               /\ \A k \in 1..Len(slots') : slots'[k].id # reg'[u].id
               /\ \A v \in Threads \ {u} : pc'[v] # "idle" => reg'[v].id # reg'[u].id
    <3>1. CASE u = t
      <4>1. host'[reg'[u].fd] = reg'[u].id /\ reg'[u].id = id
        BY <1>6, <3>1, Zenon
      <4>2. \A v \in Threads \ {u} : pc'[v] # "idle" => reg'[v].id # id
        BY <1>6, <2>2, <3>1, Zenon
      <4> QED
        BY <1>3, <2>1, <4>1, <4>2, Zenon
    <3>2. CASE u # t
      <4>1. pc[u] = "opened" /\ reg'[u] = reg[u]
        BY <1>6, <2>4, <3>2, ZenonT(40)
      <4> QED
        BY <1>3, <1>6, <2>2, <3>2, <4>1, SMT, Z3 DEF IInv, OpenedApart
    <3> QED
      BY <3>1, <3>2, Zenon
  <2> QED
    BY <2>3, <2>4, Zenon DEF OpenedApart
<1>9. NoLeak'
  BY <1>0, <1>f, <1>2, <1>3, <1>6, SMT, Z3 DEF Facts, IInv, NoLeak
<1>10. FileOpReachesItsFile'
  BY <1>0, <1>f, <1>2, <1>3, <1>4, <1>6, SMT, Z3 DEF Facts, IInv, FileOpReachesItsFile, OpenedApart
<1>11. HandlesLead'
  BY <1>0, <1>f, <1>3, SMT, Z3 DEF Facts, IInv, HandlesLead
<1> QED
  BY <1>5, <1>7, <1>8, <1>9, <1>10, <1>11, Zenon DEF IInv

(* CreateFile hands its descriptor and its object over to the table. *)
LEMMA CreateFileStep ==
  ASSUME ConstantsFit, IInv, NEW t \in Threads, CreateFile(t)
  PROVE  IInv'
<1>0. HandlesTypeOK /\ Len(slots) <= MaxSlots /\ pc[t] = "opened"
  BY Zenon DEF IInv, CreateFile
<1>f. Facts
  BY <1>0, SlotFacts, Zenon
<1>1. PICK id \in 1..created, fd \in HostFds :
        id = reg[t].id /\ fd = reg[t].fd /\ host[fd] = id
  BY <1>0, <1>f, SMT, Z3 DEF Facts, IInv, OpenedApart
<1>2. id \in Objects /\ id # 0 /\ insert(id, fd) /\ UNCHANGED <<host, created, duplicated>>
      /\ refs' = [refs EXCEPT ![id] = 1]
      /\ pc' = [pc EXCEPT ![t] = "idle"] /\ reg' = [reg EXCEPT ![t] = NoReg]
  <2>1. id \in Objects /\ id # 0
    BY <1>f, <1>1, SMT, Z3 DEF Facts
  <2>2. insert(id, fd)
    BY <1>1, Zenon DEF CreateFile
  <2> QED
    BY <2>1, <2>2, Zenon DEF CreateFile, insert
<1>3. PICK i \in Nat : Inserted(id, fd, i)
  BY <1>0, <1>f, <1>2, InsertEffect, Zenon DEF Facts
<1>4. pc'[t] = "idle" /\ \A u \in Threads \ {t} : reg'[u] = reg[u] /\ pc'[u] = pc[u]
  BY <1>0, <1>f, <1>2, Zenon DEF Facts, HandlesTypeOK
<1>5. HandlesTypeOK' /\ (Len(slots) <= MaxSlots)'
  <2>1. refs' \in [Objects -> 0..2]
    BY <1>0, <1>f, <1>2, SMT, Z3 DEF Facts, HandlesTypeOK
  <2>2. handle_of' \in [Objects -> Nat]
    BY <1>0, <1>f, <1>3, ZenonT(40) DEF Facts, HandlesTypeOK, Inserted
  <2>3. reg' \in [Threads -> [id : 0..MaxObjects, fd : HostFds \cup {NoFd}]]
    BY <1>0, <1>f, <1>2, SMT, Z3 DEF Facts, HandlesTypeOK, NoReg, ConstantsFit
  <2> QED
    BY <1>0, <1>f, <1>2, <1>3, <2>1, <2>2, <2>3, Zenon DEF Facts, HandlesTypeOK, Inserted
<1>6. \A j \in 1..Len(slots) : slots[j].id # id
  BY <1>0, <1>f, <1>1, SMT, Z3 DEF Facts, IInv, OpenedApart
<1>7. SlotsHold'
  <2>1. ASSUME NEW k \in 1..Len(slots'), slots'[k] # FreeSlot
        PROVE  slots'[k].id \in 1..created'
               /\ (slots'[k].fd # NoFd => host'[slots'[k].fd] = slots'[k].id)
    <3>1. CASE k = i
      BY <1>1, <1>2, <1>3, <3>1, Zenon DEF Inserted
    <3>2. CASE k # i
      <4>1. k \in 1..Len(slots) /\ slots'[k] = slots[k]
        BY <1>3, <3>2, Zenon DEF Inserted
      <4> QED
        BY <1>2, <2>1, <4>1, Zenon DEF IInv, SlotsHold
    <3> QED
      BY <3>1, <3>2, Zenon
  <2>2. ASSUME NEW j \in 1..Len(slots'), NEW k \in 1..Len(slots'),
               slots'[j].id = slots'[k].id, slots'[j].id # 0
        PROVE  j = k
    BY <1>3, <1>6, <2>2, SlotsApart, Zenon DEF IInv
  <2> QED
    BY <2>1, <2>2, Zenon DEF SlotsHold
<1>8. \A u \in Threads \ {t} : pc[u] # "idle" => reg[u].id # id
  BY <1>0, <1>f, <1>1, SMT, Z3 DEF Facts, IInv, OpenedApart
<1>9. OpenedApart'
  <2> SUFFICES ASSUME NEW u \in Threads \ {t}, pc[u] # "idle"
               PROVE  /\ reg[u].id \in 1..created /\ reg[u].fd \in HostFds
                      /\ pc[u] = "opened" =>
                           /\ host[reg[u].fd] = reg[u].id
                           /\ \A k \in 1..Len(slots') : slots'[k].id # reg[u].id
                           /\ \A v \in Threads \ {u, t} : pc[v] # "idle" => reg[v].id # reg[u].id
    BY <1>2, <1>4, SMT, Z3 DEF OpenedApart
  <2>1. CASE pc[u] = "opened"
    BY <1>3, <1>8, <2>1, SMTT(30), Z3T(30) DEF IInv, OpenedApart, Inserted
  <2> QED
    BY <2>1, ZenonT(40) DEF IInv, OpenedApart
<1>10. NoLeak'
  <2> SUFFICES ASSUME NEW f \in HostFds, host[f] # 0
               PROVE  \/ \E u \in Threads : pc'[u] = "opened" /\ reg'[u].fd = f
                      \/ \E k \in 1..Len(slots') : slots'[k].fd = f
    BY <1>2, Zenon DEF NoLeak
  <2>1. CASE f = fd
    BY <1>3, <2>1, Zenon DEF Inserted
  <2>2. CASE f # fd /\ \E u \in Threads : pc[u] = "opened" /\ reg[u].fd = f
    BY <1>1, <1>4, <2>2, Zenon
  <2>3. CASE \E k \in 1..Len(slots) : slots[k].fd = f
    <3>1. PICK k \in 1..Len(slots) : slots[k].fd = f
      BY <2>3, Zenon
    <3>2. k # i
      BY <1>3, <1>f, <3>1, Zenon DEF Inserted, Facts
    <3> QED
      BY <1>3, <3>1, <3>2, Zenon DEF Inserted
  <2> QED
    BY <2>1, <2>2, <2>3, Zenon DEF IInv, NoLeak
<1>11. FileOpReachesItsFile'
  <2> SUFFICES ASSUME NEW u \in Threads, pc'[u] = "io", host[reg'[u].fd] # reg'[u].id
               PROVE  \A k \in 1..Len(slots') : slots'[k].id # reg'[u].id
    BY <1>2, Zenon DEF FileOpReachesItsFile
  <2>1. u \in Threads \ {t} /\ pc[u] = "io" /\ reg'[u] = reg[u] /\ pc[u] # "idle"
    BY <1>4, Zenon
  <2>2. \A k \in 1..Len(slots) : slots[k].id # reg[u].id
    BY <2>1, Zenon DEF IInv, FileOpReachesItsFile
  <2>3. reg[u].id # id
    BY <1>0, <1>1, <2>1, Zenon DEF IInv, OpenedApart
  <2> QED
    BY <1>3, <2>1, <2>2, <2>3, Zenon DEF Inserted
<1>12. HandlesLead'
  BY <1>0, <1>f, <1>2, <1>3, InsertLeads, Zenon DEF IInv
<1> QED
  BY <1>5, <1>7, <1>9, <1>10, <1>11, <1>12, Zenon DEF IInv

(* A file thunk looks its handle up. *)
LEMMA FileOpStep ==
  ASSUME ConstantsFit, IInv, NEW t \in Threads, NEW h \in Nat, NEW op, FileOp(t, h, op)
  PROVE  IInv'
<1>0. HandlesTypeOK /\ Len(slots) <= MaxSlots
  BY Zenon DEF IInv
<1>f. Facts
  BY <1>0, SlotFacts, Zenon
<1>1. PICK i \in 1..Len(slots) : slots[i] = get(h) /\ slots[i].fd # NoFd
  <2>1. CASE \E j \in 1..Len(slots) : Names(h, j)
    <3>1. PICK i \in 1..Len(slots) : i = CHOOSE j \in 1..Len(slots) : Names(h, j)
      BY <2>1, Zenon
    <3> QED
      BY <2>1, <3>1, Zenon DEF FileOp, get
  <2> QED
    BY <1>f, <2>1, Zenon DEF FileOp, get, Facts
<1>2. slots[i] # FreeSlot /\ slots[i].id \in 1..created /\ slots[i].fd \in HostFds
      /\ host[slots[i].fd] = slots[i].id /\ slots[i].id \in 0..MaxObjects
  BY <1>f, <1>1, Zenon DEF IInv, SlotsHold, Facts
<1>3. /\ pc[t] = "idle" /\ pc' = [pc EXCEPT ![t] = "io"]
      /\ reg' = [reg EXCEPT ![t] = [id |-> slots[i].id, fd |-> slots[i].fd]]
      /\ UNCHANGED <<slots, host, created, handle_of, refs, duplicated>>
  BY <1>1, Zenon DEF FileOp
<1>4. /\ pc'[t] = "io" /\ reg'[t].id = slots[i].id /\ reg'[t].fd = slots[i].fd
      /\ \A u \in Threads \ {t} : reg'[u] = reg[u] /\ pc'[u] = pc[u]
  BY <1>0, <1>3, Zenon DEF HandlesTypeOK
<1>5. HandlesTypeOK' /\ (Len(slots) <= MaxSlots)'
  BY <1>0, <1>2, <1>3, ZenonT(30) DEF HandlesTypeOK
<1>6. SlotsHold' /\ HandlesLead'
  BY <1>3, SMT, Z3 DEF IInv, SlotsHold, HandlesLead
<1>7. NoLeak'
  BY <1>3, <1>4, SMTT(30), Z3T(30) DEF IInv, NoLeak
<1>8. OpenedApart'
  BY <1>1, <1>2, <1>3, <1>4, SMTT(30), Z3T(30) DEF IInv, OpenedApart
<1>9. FileOpReachesItsFile'
  BY <1>2, <1>3, <1>4, SMT, Z3 DEF IInv, FileOpReachesItsFile
<1> QED
  BY <1>5, <1>6, <1>7, <1>8, <1>9, Zenon DEF IInv

(* The system call on the descriptor. *)
LEMMA HostCallStep ==
  ASSUME ConstantsFit, IInv, NEW t \in Threads, HostCall(t)
  PROVE  IInv'
<1>0. HandlesTypeOK /\ Len(slots) <= MaxSlots
  BY DEF IInv
<1>1. /\ pc[t] = "io" /\ pc' = [pc EXCEPT ![t] = "idle"] /\ reg' = [reg EXCEPT ![t] = NoReg]
      /\ UNCHANGED <<slots, host, created, handle_of, refs, duplicated>>
  BY Zenon DEF HostCall
<1>2. pc'[t] = "idle" /\ \A u \in Threads \ {t} : reg'[u] = reg[u] /\ pc'[u] = pc[u]
  BY <1>0, <1>1, Zenon DEF HandlesTypeOK
<1>3. HandlesTypeOK' /\ (Len(slots) <= MaxSlots)'
  <2>1. reg' \in [Threads -> [id : 0..MaxObjects, fd : HostFds \cup {NoFd}]]
    BY <1>0, <1>1, SMT, Z3 DEF HandlesTypeOK, NoReg, ConstantsFit
  <2> QED
    BY <1>0, <1>1, <2>1, Zenon DEF HandlesTypeOK
<1>4. SlotsHold' /\ HandlesLead'
  BY <1>1, SMT, Z3 DEF IInv, SlotsHold, HandlesLead
<1>5. NoLeak'
  BY <1>1, <1>2, SMT, Z3 DEF IInv, NoLeak
<1>6. OpenedApart'
  BY <1>1, <1>2, SMT, Z3 DEF IInv, OpenedApart
<1>7. FileOpReachesItsFile'
  BY <1>1, <1>2, SMT, Z3 DEF IInv, FileOpReachesItsFile
<1> QED
  BY <1>3, <1>4, <1>5, <1>6, <1>7, Zenon DEF IInv

(* CloseHandle frees a slot and closes its descriptor, if there is one.     *)
LEMMA CloseHandleStep ==
  ASSUME ConstantsFit, IInv, NEW t \in Threads, NEW o \in Objects, CloseHandle(t, o)
  PROVE  IInv'
<1>0. HandlesTypeOK /\ Len(slots) <= MaxSlots
  BY Zenon DEF IInv
<1>f. Facts
  BY <1>0, SlotFacts, Zenon
<1>p. \A x \in 1..created : x # 0
  OBVIOUS
<1>1. /\ refs[o] > 0 /\ refs' = [refs EXCEPT ![o] = @ - 1]
      /\ UNCHANGED <<created, handle_of, duplicated, pc, reg>>
  BY Zenon DEF CloseHandle
<1>2. PICK h \in Nat : h = handle_of[o] /\ remove(h)
  BY <1>0, Zenon DEF CloseHandle, HandlesTypeOK
<1>3. refs'[o] = refs[o] - 1 /\ refs[o] \in 0..2 /\ refs' \in [Objects -> 0..2]
      /\ \A p \in Objects \ {o} : refs'[p] = refs[p] /\ refs[p] \in 0..2
  BY <1>0, <1>1, SMT, Z3 DEF HandlesTypeOK
<1>4. \/ UNCHANGED <<slots, host>> /\ ~\E j \in 1..Len(slots) : Names(h, j)
      \/ \E i \in 1..Len(slots) : Names(h, i) /\ Removed(i)
  BY <1>0, <1>2, RemoveEffect, Zenon
<1>5. CASE UNCHANGED <<slots, host>>
  <2>1. HandlesTypeOK' /\ (Len(slots) <= MaxSlots)'
    BY <1>0, <1>1, <1>3, <1>5, Zenon DEF HandlesTypeOK
  <2>2. SlotsHold' /\ OpenedApart' /\ NoLeak' /\ FileOpReachesItsFile'
    <3>1. SlotsHold' /\ OpenedApart'
      BY <1>1, <1>5, Zenon DEF IInv, SlotsHold, OpenedApart
    <3>2. NoLeak' /\ FileOpReachesItsFile'
      BY <1>1, <1>5, Zenon DEF IInv, NoLeak, FileOpReachesItsFile
    <3> QED
      BY <3>1, <3>2, Zenon
  <2>3. HandlesLead'
    <3>1. \A p \in Objects : (refs'[p] > 0 => refs[p] > 0) /\ (refs[p] <= 1 => refs'[p] <= 1)
      <4>1. refs'[o] = refs[o] - 1 /\ refs[o] \in 0..2
        BY <1>3, Zenon
      <4>2. (refs'[o] > 0 => refs[o] > 0) /\ (refs[o] <= 1 => refs'[o] <= 1)
        BY <4>1, SMT, Z3
      <4> QED
        BY <1>3, <4>2, Zenon
    <3> QED
      BY <1>1, <1>5, <3>1, Zenon DEF IInv, HandlesLead
  <2> QED
    BY <2>1, <2>2, <2>3, Zenon DEF IInv
<1>6. CASE \E i \in 1..Len(slots) : Names(h, i) /\ Removed(i)
  <2>1. PICK i \in 1..Len(slots) : Names(h, i) /\ Removed(i)
    BY <1>6, Zenon
  <2>2. /\ slots[i] # FreeSlot /\ slots[i].id \in 1..created /\ slots'[i] = FreeSlot
        /\ slots' \in Seq(Slot) /\ Len(slots') = Len(slots)
        /\ \A j \in 1..Len(slots) : j # i => slots'[j] = slots[j]
    BY <2>1, Zenon DEF Removed, IInv, SlotsHold
  <2>e. slots'[i].id = 0
    BY <1>f, <2>2, Zenon DEF Facts
  <2>3. \/ slots[i].fd = NoFd /\ host' = host
        \/ slots[i].fd \in HostFds /\ host' = [host EXCEPT ![slots[i].fd] = 0]
           /\ host[slots[i].fd] = slots[i].id
    BY <1>f, <2>1, Zenon DEF Removed, Facts, IInv, SlotsHold
  <2>4. /\ host' \in [HostFds -> 0..MaxObjects]
        /\ \A f \in HostFds : f # slots[i].fd => host'[f] = host[f]
        /\ slots[i].fd \in HostFds => host'[slots[i].fd] = 0
    <3>1. host \in [HostFds -> 0..MaxObjects] /\ 0 \in 0..MaxObjects
      BY <1>0, SMT, Z3 DEF HandlesTypeOK, ConstantsFit
    <3> QED
      BY <1>f, <2>3, <3>1, Zenon DEF Facts
  <2>5. HandlesTypeOK' /\ (Len(slots) <= MaxSlots)'
    BY <1>0, <1>1, <1>3, <2>2, <2>4, Zenon DEF HandlesTypeOK
  <2>6. ASSUME NEW j \in 1..Len(slots), j # i
        PROVE  slots[j].id # slots[i].id /\ (slots[j].fd # NoFd => slots[j].fd # slots[i].fd)
    <3>1. slots[j].id # slots[i].id
      BY <2>2, <2>6, SMT, Z3 DEF IInv, SlotsHold
    <3>2. ASSUME slots[j].fd # NoFd PROVE slots[j].fd # slots[i].fd
      <4>1. slots[j] # FreeSlot
        BY <1>f, <3>2, Zenon DEF Facts
      <4> QED
        BY <2>2, <3>1, <3>2, <4>1, Zenon DEF IInv, SlotsHold
    <3> QED
      BY <3>1, <3>2, Zenon
  <2>7. SlotsHold'
    <3>1. ASSUME NEW k \in 1..Len(slots'), slots'[k] # FreeSlot
          PROVE  slots'[k].id \in 1..created'
                 /\ (slots'[k].fd # NoFd => host'[slots'[k].fd] = slots'[k].id)
      <4>1. k # i /\ k \in 1..Len(slots) /\ slots'[k] = slots[k]
        BY <2>2, <3>1, Zenon
      <4>2. /\ slots[k].id \in 1..created
            /\ slots[k].fd # NoFd => host[slots[k].fd] = slots[k].id
        BY <3>1, <4>1, Zenon DEF IInv, SlotsHold
      <4>3. slots[k].fd # NoFd => slots[k].fd \in HostFds /\ slots[k].fd # slots[i].fd
        BY <1>f, <2>6, <4>1, Zenon DEF Facts
      <4> QED
        BY <1>1, <2>4, <4>1, <4>2, <4>3, Zenon
    <3>2. ASSUME NEW j \in 1..Len(slots'), NEW k \in 1..Len(slots'),
                 slots'[j].id = slots'[k].id, slots'[j].id # 0
          PROVE  j = k
      <4>1. j # i /\ k # i /\ j \in 1..Len(slots) /\ k \in 1..Len(slots)
        BY <2>2, <2>e, <3>2, Zenon
      <4> QED
        BY <2>2, <3>2, <4>1, ZenonT(40) DEF IInv, SlotsHold
    <3> QED
      BY <3>1, <3>2, Zenon DEF SlotsHold
  <2>8. OpenedApart'
    <3> SUFFICES ASSUME NEW u \in Threads, pc[u] # "idle"
                 PROVE  /\ reg[u].id \in 1..created /\ reg[u].fd \in HostFds
                        /\ pc[u] = "opened" =>
                             /\ host'[reg[u].fd] = reg[u].id
                             /\ \A k \in 1..Len(slots') : slots'[k].id # reg[u].id
                             /\ \A v \in Threads \ {u} : pc[v] # "idle" => reg[v].id # reg[u].id
      BY <1>1, SMT, Z3 DEF OpenedApart
    <3>1. reg[u].id \in 1..created /\ reg[u].fd \in HostFds
      BY Zenon DEF IInv, OpenedApart
    <3>2. CASE pc[u] = "opened"
      <4>1. /\ host[reg[u].fd] = reg[u].id
            /\ \A k \in 1..Len(slots) : slots[k].id # reg[u].id
            /\ \A v \in Threads \ {u} : pc[v] # "idle" => reg[v].id # reg[u].id
        BY <3>2, Zenon DEF IInv, OpenedApart
      <4>2. reg[u].fd # slots[i].fd
        BY <1>f, <2>3, <4>1, <3>1, Zenon DEF Facts
      <4>3. \A k \in 1..Len(slots') : slots'[k].id # reg[u].id
        BY <1>p, <2>e, <2>2, <3>1, <4>1, ZenonT(40)
      <4> QED
        BY <2>4, <3>1, <4>1, <4>2, <4>3, Zenon
    <3> QED
      BY <3>1, <3>2, Zenon
  <2>9. NoLeak'
    <3> SUFFICES ASSUME NEW f \in HostFds, host'[f] # 0
                 PROVE  \/ \E u \in Threads : pc[u] = "opened" /\ reg[u].fd = f
                        \/ \E k \in 1..Len(slots) : slots'[k].fd = f
      BY <1>1, <2>2, Zenon DEF NoLeak
    <3>1. f # slots[i].fd /\ host[f] # 0
      BY <2>4, Zenon
    <3> QED
      BY <2>2, <3>1, SMT, Z3 DEF IInv, NoLeak
  <2>10. FileOpReachesItsFile'
    <3> SUFFICES ASSUME NEW u \in Threads, pc[u] = "io", host'[reg[u].fd] # reg[u].id
                 PROVE  \A k \in 1..Len(slots) : slots'[k].id # reg[u].id
      BY <1>1, <2>2, Zenon DEF FileOpReachesItsFile
    <3>1. reg[u].id \in 1..created /\ reg[u].fd \in HostFds
      BY Zenon DEF IInv, OpenedApart
    <3>2. CASE host[reg[u].fd] = reg[u].id
      <4>1. reg[u].fd = slots[i].fd /\ reg[u].id = slots[i].id
        BY <1>f, <2>3, <2>4, <3>1, <3>2, Zenon DEF Facts
      <4> QED
        BY <1>p, <2>e, <2>2, <2>6, <3>1, <4>1, Zenon
    <3>3. CASE \A k \in 1..Len(slots) : slots[k].id # reg[u].id
      BY <1>p, <2>e, <2>2, <3>1, <3>3, ZenonT(40)
    <3> QED
      BY <3>2, <3>3, Zenon DEF IInv, FileOpReachesItsFile
  <2>11. HandlesLead'
    <3> SUFFICES ASSUME ~duplicated, NEW p \in Objects
                 PROVE  /\ refs'[p] <= 1
                        /\ refs'[p] > 0 =>
                             \E j \in 1..Len(slots) :
                               slots'[j].id = p /\ handle_of[p] = pack(j - 1, slots'[j].gen)
      BY <1>1, <2>2, SMT, Z3 DEF HandlesLead
    <3>1. refs[p] <= 1 /\ (refs[p] > 0 =>
                             \E j \in 1..Len(slots) :
                               slots[j].id = p /\ handle_of[p] = pack(j - 1, slots[j].gen))
      BY Zenon DEF IInv, HandlesLead
    <3>2. CASE p = o
      BY <1>1, <1>3, <3>1, <3>2, SMTT(30), Z3T(30)
    <3>3. CASE p # o /\ refs[p] > 0
      <4>1. PICK j \in 1..Len(slots) :
              slots[j].id = p /\ handle_of[p] = pack(j - 1, slots[j].gen)
        BY <3>1, <3>3, Zenon
      <4>2. PICK k \in 1..Len(slots) :
              slots[k].id = o /\ handle_of[o] = pack(k - 1, slots[k].gen)
        BY <1>1, <3>1, Zenon DEF IInv, HandlesLead
      <4>3. slots[k] # FreeSlot
        BY <1>f, <4>2, SMT, Z3 DEF Facts, Objects
      <4>4. i = k
        BY <1>0, <1>2, <2>1, <4>2, <4>3, GetPacked, SMT, Z3
      <4>5. j # i
        BY <3>3, <4>1, <4>2, <4>4, Zenon
      <4> QED
        BY <1>3, <2>2, <3>1, <3>3, <4>1, <4>5, SMTT(30), Z3T(30)
    <3> QED
      BY <1>3, <3>1, <3>2, <3>3, Zenon
  <2> QED
    BY <2>5, <2>7, <2>8, <2>9, <2>10, <2>11, Zenon DEF IInv
<1> QED
  BY <1>4, <1>5, <1>6, Zenon

(* DuplicateHandle leaves the table alone. *)
LEMMA DuplicateHandleStep ==
  ASSUME ConstantsFit, IInv, NEW t \in Threads, NEW o \in Objects, DuplicateHandle(t, o)
  PROVE  IInv'
<1>0. HandlesTypeOK /\ Len(slots) <= MaxSlots
  BY DEF IInv
<1>1. /\ refs' = [refs EXCEPT ![o] = 2] /\ duplicated' = TRUE
      /\ UNCHANGED <<slots, host, created, handle_of, pc, reg>>
  BY Zenon DEF DuplicateHandle
<1>2. HandlesTypeOK' /\ (Len(slots) <= MaxSlots)'
  BY <1>0, <1>1, SMT, Z3 DEF HandlesTypeOK
<1>3. SlotsHold' /\ OpenedApart' /\ NoLeak' /\ FileOpReachesItsFile' /\ HandlesLead'
  <2>1. SlotsHold' /\ OpenedApart'
    BY <1>1, Zenon DEF IInv, SlotsHold, OpenedApart
  <2>2. NoLeak' /\ FileOpReachesItsFile' /\ HandlesLead'
    BY <1>1, Zenon DEF IInv, NoLeak, FileOpReachesItsFile, HandlesLead
  <2> QED
    BY <2>1, <2>2, Zenon
<1> QED
  BY <1>2, <1>3, Zenon DEF IInv

(* Every step preserves the invariant. *)
LEMMA NextIInv == ASSUME ConstantsFit PROVE IInv /\ [HandlesNext]_handle_vars => IInv'
<1> SUFFICES ASSUME IInv, [HandlesNext]_handle_vars PROVE IInv'
  BY Zenon
<1>1. CASE UNCHANGED handle_vars
  <2>1. /\ slots' = slots /\ host' = host /\ created' = created /\ handle_of' = handle_of
        /\ refs' = refs /\ duplicated' = duplicated /\ pc' = pc /\ reg' = reg
    BY <1>1, Zenon DEF handle_vars
  <2>2. HandlesTypeOK' /\ (Len(slots) <= MaxSlots)'
    BY <2>1, Zenon DEF IInv, HandlesTypeOK
  <2>3. SlotsHold' /\ OpenedApart' /\ NoLeak'
    BY <2>1, ZenonT(40) DEF IInv, SlotsHold, OpenedApart, NoLeak
  <2>4. FileOpReachesItsFile' /\ HandlesLead'
    BY <2>1, Zenon DEF IInv, FileOpReachesItsFile, HandlesLead
  <2> QED
    BY <2>2, <2>3, <2>4, Zenon DEF IInv
<1>2. ASSUME NEW t \in Threads, NEW h \in Guesses, NEW op \in {"read", "write"},
             FileOp(t, h, op) \/ FileOpFails(t, h, op)
      PROVE  IInv'
  <2>1. h \in Nat
    <3>1. handle_of \in [Objects -> Nat] /\ Foreign \subseteq Nat
      BY Zenon DEF IInv, HandlesTypeOK, ConstantsFit
    <3> QED
      BY <3>1, Zenon DEF Guesses
  <2> QED
    BY <1>1, <1>2, <2>1, FileOpStep, Zenon DEF FileOpFails
<1> QED
  BY <1>1, <1>2, CreateObjectStep, OpenFileStep, CreateFileStep, HostCallStep,
     CloseHandleStep, DuplicateHandleStep, Zenon DEF HandlesNext

(* The invariant holds in every reachable state. *)
THEOREM Invariance == ASSUME ConstantsFit PROVE HandlesSpec => []IInv
BY InitIInv, NextIInv, PTL DEF HandlesSpec

(* handles.rs, insert, get and remove: until DuplicateHandle is called, a   *)
(* handle that the guest has not closed denotes the object it was created   *)
(* for, whatever was created, recycled and closed around it.                *)
THEOREM HandlesFindObjects ==
  ASSUME ConstantsFit PROVE HandlesSpec => []OpenHandleFindsItsObject
<1>1. IInv => OpenHandleFindsItsObject
  <2> SUFFICES ASSUME IInv, ~duplicated, NEW o \in Objects, refs[o] > 0
               PROVE  get(handle_of[o]).id = o
    BY Zenon DEF IInv, OpenHandleFindsItsObject
  <2>1. HandlesTypeOK /\ Len(slots) <= MaxSlots
    BY Zenon DEF IInv
  <2>2. Facts
    BY <2>1, SlotFacts, Zenon
  <2>3. PICK i \in 1..Len(slots) : slots[i].id = o /\ handle_of[o] = pack(i - 1, slots[i].gen)
    BY Zenon DEF IInv, HandlesLead
  <2>4. slots[i] # FreeSlot
    BY <2>2, <2>3, SMT, Z3 DEF Facts, Objects
  <2>5. get(pack(i - 1, slots[i].gen)) = slots[i]
    BY <2>1, <2>4, GetPacked, Zenon
  <2> QED
    BY <2>3, <2>5, Zenon
<1> QED
  BY <1>1, Invariance, PTL

(* handles.rs, insert and remove, and the file thunks of file_io.rs: an open *)
(* descriptor belongs to one object, and a system call reaches the file that *)
(* its handle denoted at the look-up, unless that object has been closed.    *)
THEOREM DescriptorsKept ==
  ASSUME ConstantsFit PROVE HandlesSpec => []DescriptorsStayWithTheirFile
<1>1. IInv => DescriptorsStayWithTheirFile
  <2> SUFFICES ASSUME IInv, NEW fd \in HostFds, host[fd] # 0
               PROVE  \/ /\ \E t \in Threads : pc[t] = "opened" /\ reg[t].fd = fd
                         /\ \A i \in 1..Len(slots) : slots[i].fd # fd
                      \/ \E i \in 1..Len(slots) :
                           /\ slots[i].fd = fd /\ slots[i].id = host[fd]
                           /\ \A j \in 1..Len(slots) : slots[j].fd = fd => j = i
    BY Zenon DEF IInv, DescriptorsStayWithTheirFile, DescriptorHasOneOwner
  <2>1. Facts
    BY SlotFacts, Zenon DEF IInv
  <2>2. \A i \in 1..Len(slots) : slots[i].fd = fd => slots[i].id = host[fd]
    BY <2>1, Zenon DEF Facts, IInv, SlotsHold
  <2>3. CASE \E i \in 1..Len(slots) : slots[i].fd = fd
    BY <2>2, <2>3, SMT, Z3 DEF IInv, SlotsHold
  <2>4. CASE \A i \in 1..Len(slots) : slots[i].fd # fd
    BY <2>4, Zenon DEF IInv, NoLeak
  <2> QED
    BY <2>3, <2>4, Zenon
<1> QED
  BY <1>1, Invariance, PTL
=============================================================================
