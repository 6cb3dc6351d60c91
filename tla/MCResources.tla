----------------------------- MODULE MCResources -----------------------------
(***************************************************************************)
(* What a process is given, in one model: a behaviour loads a program      *)
(* (ImageLoader), or serves the running guest's heap and VirtualAlloc      *)
(* calls (GuestMemory), its handles (HandleTable), its files (FileIo) or   *)
(* its Direct3D calls (Direct3D).  They share no state; the part at work   *)
(* is chosen first and the others stay as they start.  The threads are     *)
(* interchangeable.                                                        *)
(***************************************************************************)
EXTENDS GuestMemory, HandleTable, FileIo, TLC

CONSTANTS MaxImage, PtrMod, Worlds, Builtins, BuiltinNames,        \* of ImageLoader
          Blobs, Malformed, Uncompiled, HashMod, Formats, Colours,
          MaxD3dCalls                                              \* of Direct3D

VARIABLES world, ipc, imap, main, mods, work, seen, at, icalls,
          cache, libraries, tries, shaders, textures, views, chain, handed,
          raced, gpc, greg, made,
          at_work

I == INSTANCE ImageLoader WITH vm <- imap, pc <- ipc, calls <- icalls
G == INSTANCE Direct3D

(* The files the loader finds. *)
II == INSTANCE MCImageLoader
LoaderWorlds == II!MCWorlds
LoaderBuiltins == II!MCBuiltins

(* Handles below Base, of an unused generation, and of an index below zero. *)
MadeUpHandles == {0, Base - 1, 2 * Shift + Base, 3 * Shift}

(* A file that is longer than what one word counts. *)
FileContents == {[i \in 1..(WordMod + 1) |-> 1]}

(* Shaders that agree in their first byte, one that does not compile and    *)
(* one that does not parse; channels out of range on both sides, and half   *)
(* way.                                                                     *)
ShaderBlobs == {<<1, 2>>, <<1, 3>>, <<2, 2>>, <<3, 1>>}
HardBlobs == {<<2, 2>>}
BadBlobs == {<<3, 1>>}
ClearColours == {<<2, 1, 0, 2>>, <<-1, 0, 3, 1>>}

ASSUME HandlesFit == ConstantsFit

ivars == <<world, ipc, imap, main, mods, work, seen, at, icalls>>
gvars == <<cache, libraries, tries, shaders, textures, views, chain, handed, raced,
           gpc, greg, made>>
all == <<vars, ivars, handle_vars, file_vars, gvars, at_work>>

Symmetry == Permutations(Threads)

NoProgram ==
    /\ world = "none" /\ ipc = "map" /\ imap = [p \in I!Page |-> Free] /\ main = I!NoImage
    /\ mods = <<>> /\ work = <<>> /\ seen = {} /\ at = 1 /\ icalls = <<>>

NoFiles == FilesInit /\ \A n \in Paths : disk[n] = NoFile

MInit ==
    /\ Init /\ HandlesInit /\ G!Init
    /\ \/ at_work = "loader" /\ I!Init /\ NoFiles
       \/ at_work = "files" /\ NoProgram /\ FilesInit
       \/ at_work \in {"memory", "handles", "graphics"} /\ NoProgram /\ NoFiles

MNext ==
    /\ UNCHANGED at_work
    /\ \/ at_work = "loader" /\ I!Next /\ UNCHANGED <<vars, handle_vars, file_vars, gvars>>
       \/ at_work = "memory" /\ Next /\ UNCHANGED <<ivars, handle_vars, file_vars, gvars>>
       \/ at_work = "handles" /\ HandlesNext /\ UNCHANGED <<vars, ivars, file_vars, gvars>>
       \/ at_work = "files" /\ FilesNext /\ UNCHANGED <<vars, ivars, handle_vars, gvars>>
       \/ at_work = "graphics" /\ G!Next /\ UNCHANGED <<vars, ivars, handle_vars, file_vars>>

MSpec == MInit /\ [][MNext]_all
-----------------------------------------------------------------------------
(* ImageLoader: every import leads to the function it names, or is 0, and   *)
(* every sound DLL a loaded image needs is loaded, once.                    *)
ImportsReachTheirFunction == I!ImportsReachTheirFunction /\ I!DependenciesAreLoaded

(* ImageLoader: every relocated pointer follows its image to its base, and  *)
(* a mapped page is the host's or one loaded image's; what is given up half *)
(* way leaves nothing behind.                                               *)
ImagesAreWhole ==
    at_work = "loader" => I!TypeOK /\ I!PointersFollowTheImage /\ I!PagesBelongToImages

(* ImageLoader: the callbacks and entry points the files declare are        *)
(* called, each once and in order.                                          *)
AttachCallsWhatFilesDeclare == I!AttachCallsWhatFilesDeclare

(* ImageLoader: loading the DLLs ends, however they import each other.      *)
LoadingConverges == [][I!Converges]_ivars

(* Direct3D: a shader has the library of its own blob, which is compiled    *)
(* once per thread at most.                                                 *)
ShaderHasItsCode == G!TypeOK /\ G!ShaderHasItsCode /\ G!CompilesOncePerThread

(* Direct3D: GetBuffer hands out one texture, unless first calls race, and  *)
(* a texture shows the colour it was cleared to.                            *)
TexturesAreTheGuests == G!BackBufferIsStable /\ G!ClearShowsTheColour
=============================================================================
