------------------------------ MODULE Direct3D ------------------------------
(***************************************************************************)
(* The Direct3D 11 and DXGI objects of quantum-kernel32/src/d3d11.rs over  *)
(* Metal (cocoa.rs): shaders and the library cache behind them, textures,  *)
(* views, a swap chain and its back buffer, and the clear that fills a     *)
(* texture from the CPU.                                                   *)
(*                                                                         *)
(* The cache has a lock, held for one look-up or one insertion.  The swap  *)
(* chain has none: a first GetBuffer tests, creates, stores and reads back *)
(* `back_buffer`, and where two of them race what is read back is either   *)
(* the caller's own texture or what is stored by then.                     *)
(*                                                                         *)
(* A shader blob is a short sequence of bytes; parsing it (dxbc.rs) and    *)
(* compiling the result (Metal) are known by which blobs they accept.      *)
(* Objects are numbered in the order they are made, 0 is a null pointer.   *)
(***************************************************************************)
EXTENDS Integers, Sequences, FiniteSets, SequencesExt, Bitwise

CONSTANTS Threads,
          Blobs,
          Malformed,   \* blobs dxbc::parse rejects
          Uncompiled,  \* blobs for which there is no MSL, or none that compiles
          HashMod,     \* 2^64
          Formats,     \* DXGI_FORMAT values the guest asks for
          Colours,     \* colours it clears with, channels in halves
          MaxD3dCalls  \* bound: calls made

VARIABLES cache,       \* CACHE of shader_library_for: hash -> library
          libraries,   \* Metal's libraries, as the blobs they come from
          tries,       \* blob -> times it was compiled, successfully or not
          shaders,     \* ShaderObjects
          textures,    \* MTLTextures
          views,       \* ResourceViews, as the textures they wrap
          chain,       \* the SwapChain
          handed,      \* textures GetBuffer has handed out
          raced,       \* two first GetBuffer calls have overlapped
          gpc, greg,   \* per thread: place in a call, what it holds
          made         \* calls so far

cvars == <<cache, libraries, tries, shaders>>
tvars == <<textures, views, chain, handed, raced>>
vars == <<cvars, tvars, gpc, greg, made>>

NoReg == [blob |-> << >>, object |-> 0]
NoChain == [format |-> 0, back_buffer |-> 0]
NoColour == << >>

Begin(t) == gpc[t] = "idle" /\ made < MaxD3dCalls /\ made' = made + 1
Goto(t, l, r) == gpc' = [gpc EXCEPT ![t] = l] /\ greg' = [greg EXCEPT ![t] = r]
Return(t) == Goto(t, "idle", NoReg)
Whole(t) == Begin(t) /\ UNCHANGED <<gpc, greg>>
-----------------------------------------------------------------------------
(* Shaders. *)

(* Mutant: only the length and the first byte count. *)
fnv1a64_Short(bytes) == (bytes[1] * 179 + Len(bytes)) % HashMod

(* fnv1a64, with the low bits of its basis and prime. *)
fnv1a64(bytes) == FoldLeft(LAMBDA h, b : ((h ^^ b) * 435) % HashMod, 37 % HashMod, bytes)

ShaderOf(blob, library) == [blob |-> blob, library |-> library]

(* CreateVertexShader and CreatePixelShader: the blob does not parse. *)
CreateShaderFails(t, blob) ==
  /\ Whole(t) /\ blob \in Malformed
  /\ UNCHANGED <<cvars, tvars>>

(* ... or its library, null ones included, is in the cache, *)
CreateShaderHits(t, blob) ==
  /\ Whole(t) /\ blob \notin Malformed
  /\ fnv1a64(blob) \in DOMAIN cache
  /\ shaders' = Append(shaders, ShaderOf(blob, cache[fnv1a64(blob)]))
  /\ UNCHANGED <<cache, libraries, tries, tvars>>

(* ... or it has to be compiled, with the cache unlocked, *)
CreateShaderMisses(t, blob) ==
  /\ Begin(t) /\ blob \notin Malformed
  /\ fnv1a64(blob) \notin DOMAIN cache
  /\ Goto(t, "compile", [blob |-> blob, object |-> 0])
  /\ UNCHANGED <<cvars, tvars>>

(* ... by emit_msl and metal_new_library, which may fail for good *)
Compile(t) ==
  LET blob == greg[t].blob
      compiles == blob \notin Uncompiled IN
  /\ gpc[t] = "compile"
  /\ tries' = [tries EXCEPT ![blob] = @ + 1]
  /\ libraries' = IF compiles THEN Append(libraries, blob) ELSE libraries
  /\ Goto(t, "insert", [blob |-> blob, object |-> IF compiles THEN Len(libraries) + 1 ELSE 0])
  /\ UNCHANGED <<cache, shaders, tvars, made>>

(* ... and then entered, over what another thread may have entered. *)
InsertLibrary(t) ==
  LET hash == fnv1a64(greg[t].blob) IN
  /\ gpc[t] = "insert"
  /\ cache' = [h \in DOMAIN cache \cup {hash} |-> IF h = hash THEN greg[t].object ELSE cache[h]]
  /\ shaders' = Append(shaders, ShaderOf(greg[t].blob, greg[t].object))
  /\ Return(t)
  /\ UNCHANGED <<libraries, tries, tvars, made>>

ShaderStep(t) ==
  \/ \E blob \in Blobs :
       CreateShaderFails(t, blob) \/ CreateShaderHits(t, blob) \/ CreateShaderMisses(t, blob)
  \/ Compile(t)
  \/ InsertLibrary(t)
-----------------------------------------------------------------------------
(* Textures, views, the swap chain. *)

BGRA8 == {80, 81}

(* dxgi_to_metal_format *)
dxgi_to_metal_format(dxgi) ==
  CASE dxgi = 28 -> 70
    [] dxgi = 29 -> 71
    [] dxgi = 91 -> 81
    [] dxgi = 41 -> 53
    [] dxgi = 10 -> 115
    [] dxgi = 45 -> 255
    [] dxgi = 40 -> 252
    [] OTHER -> 80

(* metal_new_texture_2d_with_usage: its bytes are not set. *)
NewTexture(dxgi) ==
  [format |-> dxgi_to_metal_format(dxgi), bytes |-> << >>, cleared |-> NoColour]

(* CreateTexture2D with a place for the result. *)
CreateTexture2D(t, dxgi) ==
  /\ Whole(t)
  /\ textures' = Append(textures, NewTexture(dxgi))
  /\ UNCHANGED <<cvars, views, chain, handed, raced>>

(* CreateRenderTargetView and CreateShaderResourceView of a texture; with  *)
(* resource 0, CreateInputLayout, which wraps nothing.                     *)
CreateView(t, resource) ==
  /\ Whole(t)
  /\ views' = Append(views, resource)
  /\ UNCHANGED <<cvars, textures, chain, handed, raced>>

(* CreateSwapChain; its layer and queue are the host's. *)
CreateSwapChain(t, dxgi) ==
  /\ Whole(t) /\ chain = NoChain
  /\ chain' = [format |-> dxgi, back_buffer |-> 0]
  /\ UNCHANGED <<cvars, textures, views, handed, raced>>

(* GetBuffer when the back buffer is there. *)
GetBuffer(t) ==
  /\ Whole(t) /\ chain.back_buffer # 0
  /\ handed' = handed \cup {chain.back_buffer}
  /\ UNCHANGED <<cvars, textures, views, chain, raced>>

(* GetBuffer when it is not: the texture is created, *)
FirstGetBuffer(t) ==
  /\ Begin(t) /\ chain # NoChain /\ chain.back_buffer = 0
  /\ textures' = Append(textures, NewTexture(chain.format))
  /\ raced' = (raced \/ \E u \in Threads \ {t} : gpc[u] \in {"store", "reread"})
  /\ Goto(t, "store", [blob |-> << >>, object |-> Len(textures) + 1])
  /\ UNCHANGED <<cvars, views, chain, handed>>

(* ... or Metal has none to give, *)
GetBufferFails(t) ==
  /\ Whole(t) /\ chain # NoChain /\ chain.back_buffer = 0
  /\ UNCHANGED <<cvars, tvars>>

(* Mutant: the texture is handed out and not stored. *)
StoreBackBuffer_Forgets(t) ==
  /\ gpc[t] = "store"
  /\ Goto(t, "reread", greg[t])
  /\ UNCHANGED <<cvars, tvars, made>>

(* ... stored, *)
StoreBackBuffer(t) ==
  /\ gpc[t] = "store"
  /\ chain' = [chain EXCEPT !.back_buffer = greg[t].object]
  /\ Goto(t, "reread", greg[t])
  /\ UNCHANGED <<cvars, textures, views, handed, raced, made>>

(* ... and read back for the guest. *)
HandOut(t) ==
  /\ gpc[t] = "reread"
  /\ \E tex \in {greg[t].object, chain.back_buffer} : handed' = handed \cup {tex}
  /\ Return(t)
  /\ UNCHANGED <<cvars, textures, views, chain, raced, made>>

(* to_byte: (f.clamp(0.0, 1.0) * 255.0).round() of a channel in halves. *)
to_byte(f) == ((IF f < 0 THEN 0 ELSE IF f > 2 THEN 2 ELSE f) * 255 + 1) \div 2

(* ClearRenderTargetView: the four bytes of every pixel. *)
ClearBytes(rgba) == <<to_byte(rgba[3]), to_byte(rgba[2]), to_byte(rgba[1]), to_byte(rgba[4])>>

(* ClearRenderTargetView; a view of nothing is left alone. *)
ClearRenderTargetView(t, v, rgba) ==
  LET tex == views[v] IN
  /\ Whole(t)
  /\ textures' = IF tex = 0 THEN textures
                 ELSE [textures EXCEPT ![tex].bytes = ClearBytes(rgba), ![tex].cleared = rgba]
  /\ UNCHANGED <<cvars, views, chain, handed, raced>>

TextureStep(t) ==
  \/ \E dxgi \in Formats : CreateTexture2D(t, dxgi) \/ CreateSwapChain(t, dxgi)
  \/ \E resource \in 0..Len(textures) : CreateView(t, resource)
  \/ GetBuffer(t) \/ FirstGetBuffer(t) \/ GetBufferFails(t)
  \/ StoreBackBuffer(t) \/ HandOut(t)
  \/ \E v \in 1..Len(views), rgba \in Colours : ClearRenderTargetView(t, v, rgba)
-----------------------------------------------------------------------------
Init ==
  /\ cache = [h \in {} |-> 0] /\ libraries = << >> /\ shaders = << >>
  /\ tries = [b \in Blobs |-> 0]
  /\ textures = << >> /\ views = << >> /\ chain = NoChain
  /\ handed = {} /\ raced = FALSE
  /\ gpc = [t \in Threads |-> "idle"] /\ greg = [t \in Threads |-> NoReg]
  /\ made = 0

Next == \E t \in Threads : ShaderStep(t) \/ TextureStep(t)

Spec == Init /\ [][Next]_vars
-----------------------------------------------------------------------------
(* The type of the state: null pointers are 0, others name an object.      *)
TypeOK ==
  /\ \A h \in DOMAIN cache : h \in 0..(HashMod - 1) /\ cache[h] \in 0..Len(libraries)
  /\ \A v \in 1..Len(views) : views[v] \in 0..Len(textures)
  /\ \A t \in Threads :
       gpc[t] \in {"idle", "compile", "insert", "store", "reread"} /\ greg[t].blob \in Blobs \cup {<< >>}
  /\ chain.back_buffer \in 0..Len(textures) /\ handed \subseteq 1..Len(textures)

(* A shader runs the code the guest gave for it: its library was compiled  *)
(* from its own blob, by this call or by an earlier or overlapping one, or *)
(* is null because that blob does not compile.                             *)
ShaderHasItsCode ==
  \A s \in 1..Len(shaders) :
    LET library == shaders[s].library IN
    IF shaders[s].blob \in Uncompiled THEN library = 0
    ELSE library # 0 /\ libraries[library] = shaders[s].blob

(* The cache keeps games from compiling the same shader again: however the *)
(* calls of the threads overlap, each of them compiles a blob at most once *)
(* and a blob that fails is not tried again either.                        *)
CompilesOncePerThread == \A b \in Blobs : tries[b] <= Cardinality(Threads)

(* GetBuffer hands out one and the same texture for the life of the swap   *)
(* chain, unless two first calls overlap.                                  *)
BackBufferIsStable == ~raced => Cardinality(handed) <= 1

(* The colour a pixel of a BGRA8 texture shows, red first. *)
Shown(bytes) == <<bytes[3], bytes[2], bytes[1], bytes[4]>>

(* After a clear every pixel of a BGRA8 texture shows the colour of the    *)
(* last clear through any view of it.  For RGBA8 textures red and blue are *)
(* exchanged (see README).                                                 *)
ClearShowsTheColour ==
  \A i \in 1..Len(textures) :
    textures[i].format \in BGRA8 /\ textures[i].cleared # NoColour =>
      Shown(textures[i].bytes) = [c \in 1..4 |-> to_byte(textures[i].cleared[c])]
=============================================================================
