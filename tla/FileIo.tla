------------------------------- MODULE FileIo -------------------------------
(***************************************************************************)
(* The file thunks of quantum-kernel32/src/file_io.rs over the host's      *)
(* open, read, write, lseek and fstat.  HandleTable models the look-up of  *)
(* the handle; here an open file is the descriptor that it leads to, and a *)
(* thunk's one system call is a step.                                      *)
(*                                                                         *)
(* A 32-bit word is a number below WordMod.  `opening`, `asked`, `astray`  *)
(* and `answer` are the guest's view: what it knows of the file it has     *)
(* just opened, where Win32 puts the pointer of each of its files, the     *)
(* files moved by a negative low word alone and not placed since, and what *)
(* the last SetFilePointer or GetFileSize call told it.                    *)
(***************************************************************************)
EXTENDS Integers, Sequences

CONSTANTS Paths,      \* paths, translated
          StartContents,   \* contents the files may start with
          Byte,       \* what a file is made of; 0 fills holes
          WordMod,    \* 2^32
          MaxLen,     \* bound: length of a file, and positions in it
          MaxOpen,    \* bound: files opened
          MaxCalls    \* bound: reads, writes and seeks

ASSUME FilesAssumption ==
  /\ WordMod \in Nat \ {0} /\ MaxLen \in Nat /\ MaxOpen \in Nat /\ MaxCalls \in Nat
  /\ Byte \subseteq Nat
  /\ \A c \in StartContents : c \in Seq(Nat) /\ Len(c) <= MaxLen

VARIABLES disk,       \* path -> contents, NoFile when there is none
          open,       \* descriptors in the order they were opened
          opening, asked, astray, answer,
          calls       \* reads, writes and seeks so far

file_vars == <<disk, open, opening, asked, astray, answer, calls>>

NoFile == <<-1>>
NoAnswer == [told |-> 0, is |-> 0, given |-> FALSE]
NoOpening == [disp |-> "none", before |-> NoFile, ok |-> TRUE, after |-> NoFile]
Access == SUBSET {"GENERIC_READ", "GENERIC_WRITE"}
Dispositions == {"CREATE_NEW", "CREATE_ALWAYS", "OPEN_EXISTING", "OPEN_ALWAYS",
                 "TRUNCATE_EXISTING"}

(* The host's flags, as quantum-runtime names them.                        *)
O_WRONLY == 1
O_RDWR == 2
O_CREAT == 512
O_TRUNC == 1024
O_EXCL == 2048

Has(flags, bit) == (flags \div bit) % 2 = 1

(* Mutant: any access but read-only is opened for both. *)
AccessFlags_Generous(access) == IF access = {} THEN 0 ELSE 2

(* open_file: the access half of the flags; neither access is O_RDONLY.    *)
AccessFlags(access) ==
  CASE access = {"GENERIC_READ", "GENERIC_WRITE"} -> 2
    [] access = {"GENERIC_WRITE"} -> 1
    [] OTHER -> 0

(* open_file: the disposition half, the octal constants as they stand.     *)
DispositionFlags(disp) ==
  CASE disp = "CREATE_NEW" -> 64 + 128          \* 0o100 | 0o200
    [] disp = "CREATE_ALWAYS" -> 64 + 512       \* 0o100 | 0o1000
    [] disp = "OPEN_EXISTING" -> 0
    [] disp = "OPEN_ALWAYS" -> 64               \* 0o100
    [] disp = "TRUNCATE_EXISTING" -> 512        \* 0o1000

(* The host's open(): whether it succeeds, and the file it leaves.         *)
OpenSucceeds(file, flags) ==
  IF file = NoFile THEN Has(flags, O_CREAT)
                   ELSE ~(Has(flags, O_CREAT) /\ Has(flags, O_EXCL))

OpenLeaves(file, flags) ==
  IF file = NoFile \/ Has(flags, O_TRUNC) THEN << >> ELSE file

(* CreateFileA/W with any other disposition returns INVALID_HANDLE_VALUE.  *)
open_file(name, access, disp) ==
  LET flags == AccessFlags(access) + DispositionFlags(disp)
      ok == OpenSucceeds(disk[name], flags)
      after == IF ok THEN OpenLeaves(disk[name], flags) ELSE disk[name] IN
  /\ Len(open) < MaxOpen
  /\ disk' = [disk EXCEPT ![name] = after]
  /\ opening' = [disp |-> disp, before |-> disk[name], ok |-> ok, after |-> after]
  /\ IF ok
       THEN /\ open' = Append(open, [name |-> name, access |-> access,
                                     flags |-> AccessFlags(access), pos |-> 0])
            /\ asked' = Append(asked, 0)
       ELSE UNCHANGED <<open, asked>>
  /\ answer' = NoAnswer
  /\ UNCHANGED <<astray, calls>>

(* What the host lets a descriptor do, by the access it was opened with.   *)
Readable(f) == ~Has(open[f].flags, O_WRONLY)
Writable(f) == Has(open[f].flags, O_WRONLY) \/ Has(open[f].flags, O_RDWR)

Content(f) == disk[open[f].name]
Smaller(a, b) == IF a <= b THEN a ELSE b

(* The bytes read(fd, buf, count) moves from pos: none beyond the end.     *)
Available(f, pos, count) ==
  IF pos >= Len(Content(f)) THEN 0 ELSE Smaller(count, Len(Content(f)) - pos)

(* ReadFile; a descriptor that cannot be read makes it return 0.           *)
ReadFile(f, count) ==
  /\ Readable(f)
  /\ open' = [open EXCEPT ![f].pos = @ + Available(f, @, count)]
  /\ asked' = [asked EXCEPT ![f] = @ + Available(f, @, count)]
  /\ answer' = NoAnswer
  /\ UNCHANGED <<disk, astray>>

(* write(fd, buf, count): the file grows to hold it, holes are zero.       *)
Written(content, pos, bytes) ==
  [i \in 1..(IF pos + Len(bytes) > Len(content) THEN pos + Len(bytes) ELSE Len(content)) |->
     IF i \in (pos + 1)..(pos + Len(bytes)) THEN bytes[i - pos]
     ELSE IF i <= Len(content) THEN content[i] ELSE 0]

(* WriteFile; a descriptor that cannot be written makes it return 0.       *)
WriteFile(f, bytes) ==
  /\ Writable(f) /\ open[f].pos + Len(bytes) <= MaxLen
  /\ disk' = [disk EXCEPT ![open[f].name] = Written(@, open[f].pos, bytes)]
  /\ open' = [open EXCEPT ![f].pos = @ + Len(bytes)]
  /\ asked' = [asked EXCEPT ![f] = @ + Len(bytes)]
  /\ answer' = NoAnswer
  /\ UNCHANGED astray

(* lseek: where SEEK_SET, SEEK_CUR and SEEK_END count from.                *)
Origin(f, pos, method) ==
  CASE method = "FILE_BEGIN" -> 0
    [] method = "FILE_CURRENT" -> pos
    [] method = "FILE_END" -> Len(Content(f))

(* Two words as the 64-bit number they stand for, and back.                *)
Join(high, low) == high * WordMod + (low % WordMod)

(* Mutant: the low word is sign-extended over the high one. *)
Distance_SignExtended(low, high) == high * WordMod + low

(* SetFilePointer: (high << 32) | (low as u32), high 0 without a pointer.  *)
Distance(low, high) == Join(high, low)

(* Where a move of `dist` leads; a place before the file is an error and   *)
(* leaves the pointer alone.                                               *)
Moved(f, pos, dist, method) ==
  LET new_off == Origin(f, pos, method) + dist IN
  IF new_off < 0 THEN pos ELSE new_off

(* Win32's rule, apart from the code's: the low word on its own is a       *)
(* signed distance; under a high word it is the lower half of one.         *)
Win32Distance(low, high, given) ==
  IF ~given THEN low ELSE high * WordMod + (IF low < 0 THEN low + WordMod ELSE low)

(* The place asked for; one before the file is refused.                    *)
Win32Target(f, low, high, given, method) ==
  CASE method = "FILE_BEGIN" -> Win32Distance(low, high, given)
    [] method = "FILE_CURRENT" -> asked[f] + Win32Distance(low, high, given)
    [] method = "FILE_END" -> Len(Content(f)) + Win32Distance(low, high, given)

Win32Moved(f, low, high, given, method) ==
  LET to == Win32Target(f, low, high, given, method) IN
  IF to < 0 THEN asked[f] ELSE to

(* The code takes a negative low word on its own for a large positive one  *)
(* (see README).  The file is astray until a move from the beginning or    *)
(* the end gives it a place again.                                         *)
Astray(f, low, high, given, method) ==
  IF ~given /\ low < 0 THEN astray \cup {f}
  ELSE IF method # "FILE_CURRENT" /\ Win32Target(f, low, high, given, method) >= 0
    THEN astray \ {f} ELSE astray

(* The number the guest puts together from the words it is given back.     *)
Told(size, given) == Join(IF given THEN size \div WordMod ELSE 0, size)

(* SetFilePointer, and SetFilePointerEx, which has the distance as one     *)
(* number and gives one back.                                              *)
SetFilePointer(f, low, high, given, method) ==
  LET new_off == Origin(f, open[f].pos, method) + Distance(low, high) IN
  /\ new_off <= MaxLen
  /\ open' = [open EXCEPT ![f].pos = Moved(f, @, Distance(low, high), method)]
  /\ asked' = [asked EXCEPT ![f] = Win32Moved(f, low, high, given, method)]
  /\ astray' = Astray(f, low, high, given, method)
  /\ answer' = IF new_off < 0 THEN NoAnswer
                ELSE [told |-> Told(new_off, given), is |-> new_off, given |-> given]
  /\ UNCHANGED disk

(* GetFileSize with and without a place for the high word; GetFileSizeEx.  *)
GetFileSize(f, given) ==
  /\ answer' = [told |-> Told(Len(Content(f)), given), is |-> Len(Content(f)), given |-> given]
  /\ UNCHANGED <<disk, open, asked, astray>>

FilesInit ==
  /\ disk \in [Paths -> StartContents \cup {NoFile}]
  /\ open = << >> /\ asked = << >> /\ astray = {}
  /\ opening = NoOpening /\ answer = NoAnswer /\ calls = 0

Methods == {"FILE_BEGIN", "FILE_CURRENT", "FILE_END"}
Lows == (-(WordMod \div 2))..(WordMod \div 2 - 1)

(* A thunk called with the handle of f. *)
Call(f) ==
  /\ calls < MaxCalls
  /\ calls' = calls + 1
  /\ opening' = NoOpening
  /\ \/ \E count \in 1..2 : ReadFile(f, count)
     \/ \E b \in Byte : WriteFile(f, <<b>>)
     \/ \E low \in Lows, high \in {-1, 0}, method \in Methods :
          SetFilePointer(f, low, high, TRUE, method)
     \/ \E low \in Lows, method \in Methods : SetFilePointer(f, low, 0, FALSE, method)
     \/ \E given \in BOOLEAN : GetFileSize(f, given)

FilesNext ==
  \/ \E name \in Paths, access \in Access, disp \in Dispositions : open_file(name, access, disp)
  \/ \E f \in 1..Len(open) : Call(f)

FilesSpec == FilesInit /\ [][FilesNext]_file_vars
-----------------------------------------------------------------------------
(* The type of the state; a file is NoFile or a sequence of bytes.         *)
FilesTypeOK ==
  /\ \A n \in Paths : disk[n] = NoFile \/ disk[n] \in Seq(Nat)
  /\ Len(asked) = Len(open)
  /\ \A f \in 1..Len(open) : open[f].name \in Paths /\ open[f].pos \in 0..MaxLen

(* The pointer of every open file is where Win32 says its own reads,       *)
(* writes and seeks have put it, whatever other files, or the same one     *)
(* opened again, have been used for, and whatever the words of a distance  *)
(* but for one case: a SetFilePointer with a negative low word and no high *)
(* word, after which the pointer is not claimed until a move from the      *)
(* beginning or the end.  And what SetFilePointer and GetFileSize tell the *)
(* guest is the position or size, if it fits into the words it asked for.  *)
PointersFollowTheGuest ==
  /\ FilesTypeOK
  /\ \A f \in (1..Len(open)) \ astray : open[f].pos = asked[f]
  /\ answer.given \/ answer.is < WordMod => answer.told = answer.is

(* A file changes only by a write through a handle that was opened for     *)
(* writing, or by one of the two dispositions that empty it.               *)
ChangesByWriting ==
  \A n \in Paths :
    disk[n] # NoFile /\ disk'[n] # disk[n] =>
      \/ \E f \in 1..Len(open) :
           /\ open[f].name = n /\ open'[f].pos > open[f].pos
           /\ "GENERIC_WRITE" \in open[f].access
      \/ opening'.disp \in {"CREATE_ALWAYS", "TRUNCATE_EXISTING"} /\ disk'[n] = << >>

FilesChangeByWriting == [][ChangesByWriting]_file_vars

(* What open_file's comments say of the flags of each disposition: "O_CREAT *)
(* | O_EXCL", "O_CREAT | O_TRUNC", none, "O_CREAT" and "O_TRUNC".           *)
DispositionsAreWhatTheySay ==
  LET o == opening IN
  CASE o.disp = "CREATE_NEW" -> o.ok = (o.before = NoFile)
    [] o.disp = "CREATE_ALWAYS" -> o.ok /\ o.after = << >>
    [] o.disp = "OPEN_EXISTING" -> o.ok = (o.before # NoFile) /\ o.after = o.before
    [] o.disp = "OPEN_ALWAYS" -> o.ok /\ (o.before # NoFile => o.after = o.before)
    [] o.disp = "TRUNCATE_EXISTING" -> o.ok = (o.before # NoFile) /\ (o.ok => o.after = << >>)
    [] OTHER -> TRUE
=============================================================================
