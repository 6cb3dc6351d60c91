----------------------------- MODULE Dispatcher -----------------------------
(***************************************************************************)
(* The execution core: the dispatcher loop of quantum-cli/src/process.rs   *)
(* run by every guest thread, the block map and code cache they share      *)
(* (quantum-runtime/src/dispatcher.rs, codecache.rs), and what a block of  *)
(* quantum-jit/src/block.rs does when it ends.  lookup, install and        *)
(* patch_chain each hold the dispatcher's mutex and are one step; between  *)
(* them the threads interleave.                                            *)
(*                                                                         *)
(* A block that ends in a JMP or Jcc has a placeholder branch per side; a  *)
(* patched one ("hot") continues in another block without returning to the *)
(* loop.  The guest's flags live in the host's NZCV and nowhere else, so   *)
(* they do not survive a return to the loop ("cold").                      *)
(***************************************************************************)
EXTENDS Naturals, Sequences, FiniteSets

CONSTANTS Threads, Rips, Term, Taken, Fall, Dyn, SetsFlags,
          Sentinel,     \* STOP_SENTINEL; those above are of GuestProgram
          Starts,       \* entry points: of the image and of CreateThread
          Size,         \* bytes of host code each block takes
          Capacity,     \* size of the code cache
          Reach,        \* outcomes of the +-128 MiB branch-range test
          MaxIters,     \* the loop limit (10_000_000 in the code)
          PumpEvery     \* PUMP_EVERY

Edges == {"taken", "fall"}

ASSUME ProgramAssumption ==
  /\ Term \in [Rips -> {"jmp", "jcc", "dyn", "stop", "bad"}]
  /\ Sentinel \notin Rips
  /\ SetsFlags \subseteq Rips /\ Starts \subseteq Rips
  /\ Size \in [Rips -> Nat]
  /\ Capacity \in Nat /\ MaxIters \in Nat /\ PumpEvery \in Nat \ {0}
  /\ Reach \subseteq BOOLEAN

VARIABLES cache,       \* installed blocks in order: guest rip and hot edges
          used,        \* CodeCache.used
          block_map,   \* DispatcherInner.block_map: rip -> block, 0 is none
          last_entered,\* LAST_ENTERED_RIP
          pc, current_rip, ptr, unpatched, iters, pump_counter, pumped,
          nzcv,        \* the host flags of each thread
          flag         \* the guest's flags as the program defines them

shared == <<cache, used, block_map>>
vars == <<cache, used, block_map, last_entered, pc, current_rip, ptr,
          unpatched, iters, pump_counter, pumped, nzcv, flag>>

Goto(t, l) == pc' = [pc EXCEPT ![t] = l]
Dest(r, e) == IF e = "taken" THEN Taken[r] ELSE Fall[r]

Init ==
  /\ cache = << >> /\ used = 0
  /\ block_map = [r \in Rips |-> 0]
  /\ current_rip \in [Threads -> Starts]
  /\ last_entered = 0
  /\ pc = [t \in Threads |-> "lookup"]
  /\ ptr = [t \in Threads |-> 0]
  /\ unpatched = [t \in Threads |-> {}]
  /\ iters = [t \in Threads |-> 0]
  /\ pump_counter = [t \in Threads |-> 0]
  /\ pumped = [t \in Threads |-> FALSE]
  /\ nzcv \in [Threads -> BOOLEAN]
  /\ flag = nzcv

local == <<unpatched, pump_counter, pumped, nzcv, flag>>

(* Top of the loop: the iteration limit, then lookup finds the block. *)
LookupHits(t) ==
  /\ pc[t] = "lookup" /\ iters[t] < MaxIters
  /\ current_rip[t] \in Rips /\ block_map[current_rip[t]] # 0
  /\ iters' = [iters EXCEPT ![t] = @ + 1]
  /\ ptr' = [ptr EXCEPT ![t] = block_map[current_rip[t]]]
  /\ Goto(t, "patch")
  /\ UNCHANGED <<shared, last_entered, current_rip, local>>

(* ... or does not, and the block is decoded and lifted without the lock. *)
LookupMisses(t) ==
  /\ pc[t] = "lookup" /\ iters[t] < MaxIters
  /\ current_rip[t] \in Rips /\ block_map[current_rip[t]] = 0
  /\ iters' = [iters EXCEPT ![t] = @ + 1]
  /\ Goto(t, "install")
  /\ UNCHANGED <<shared, last_entered, current_rip, ptr, local>>

(* The loop gives up: limit reached, or a target outside the image. *)
LoopFails(t) ==
  /\ pc[t] = "lookup"
  /\ iters[t] >= MaxIters \/ current_rip[t] \notin Rips
  /\ Goto(t, "error")
  /\ UNCHANGED <<shared, last_entered, current_rip, ptr, iters, local>>

(* The sides of block r that get a placeholder branch. *)
Chainable(r) ==
  CASE Term[r] = "jmp" -> {"taken"}
    [] Term[r] = "jcc" -> Edges
    [] OTHER -> {}

(* install: copy the host code, enter it in the map over whatever another *)
(* thread may have entered meanwhile, and note its placeholders.          *)
Install(t) ==
  LET r == current_rip[t] IN
  /\ pc[t] = "install" /\ Term[r] # "bad" /\ used + Size[r] <= Capacity
  /\ cache' = Append(cache, [rip |-> r, hot |-> [e \in Edges |-> 0]])
  /\ used' = used + Size[r]
  /\ block_map' = [block_map EXCEPT ![r] = Len(cache) + 1]
  /\ ptr' = [ptr EXCEPT ![t] = Len(cache) + 1]
  /\ unpatched' = [unpatched EXCEPT ![t] = @ \cup
       {[block |-> Len(cache) + 1, edge |-> e, target |-> Dest(r, e)] :
          e \in Chainable(r)}]
  /\ Goto(t, "patch")
  /\ UNCHANGED <<last_entered, current_rip, iters, pump_counter, pumped, nzcv, flag>>

(* The translation fails, or install does because the cache is full. *)
InstallFails(t) ==
  LET r == current_rip[t] IN
  /\ pc[t] = "install" /\ (Term[r] = "bad" \/ used + Size[r] > Capacity)
  /\ Goto(t, "error")
  /\ UNCHANGED <<shared, last_entered, current_rip, ptr, iters, local>>

Waiting(t) == {site \in unpatched[t] : site.target = current_rip[t]}

(* Mutant: patches a site whatever target it waits for. *)
PatchChain_AnySite(t) ==
  /\ pc[t] = "patch"
  /\ \E site \in unpatched[t], fits \in Reach :
       /\ unpatched' = [unpatched EXCEPT ![t] = @ \ {site}]
       /\ cache' = IF fits
            THEN [cache EXCEPT ![site.block].hot[site.edge] = ptr[t]]
            ELSE cache
  /\ UNCHANGED <<used, block_map, last_entered, pc, current_rip, ptr, iters,
                 pump_counter, pumped, nzcv, flag>>

(* Mutant: the site is patched and stays on the list. *)
PatchChain_Keeps(t) ==
  /\ pc[t] = "patch"
  /\ \E site \in Waiting(t), fits \in Reach :
       cache' = IF fits
            THEN [cache EXCEPT ![site.block].hot[site.edge] = ptr[t]]
            ELSE cache
  /\ UNCHANGED <<used, block_map, last_entered, pc, current_rip, ptr, iters,
                 unpatched, pump_counter, pumped, nzcv, flag>>

(* patch_chain on each placeholder that waits for the block at hand; a   *)
(* branch that does not reach stays cold and is not tried again.         *)
PatchChain(t) ==
  /\ pc[t] = "patch"
  /\ \E site \in Waiting(t), fits \in Reach :
       /\ unpatched' = [unpatched EXCEPT ![t] = @ \ {site}]
       /\ cache' = IF fits
            THEN [cache EXCEPT ![site.block].hot[site.edge] = ptr[t]]
            ELSE cache
  /\ UNCHANGED <<used, block_map, last_entered, pc, current_rip, ptr, iters,
                 pump_counter, pumped, nzcv, flag>>

(* LAST_ENTERED_RIP is stored and the block is invoked at its cold entry. *)
Enter(t) ==
  /\ pc[t] = "patch" /\ Waiting(t) = {}
  /\ last_entered' = current_rip[t]
  /\ Goto(t, "run")
  /\ UNCHANGED <<shared, current_rip, ptr, iters, local>>

(* The block the thread executes, and the flags its terminator reads. *)
block(t) == cache[ptr[t]]
FlagsAtEnd(t) == IF block(t).rip \in SetsFlags THEN BOOLEAN ELSE {nzcv[t]}

(* The guest's flags: written with the host's, otherwise kept. *)
WriteFlags(t, f) ==
  flag' = IF block(t).rip \in SetsFlags THEN [flag EXCEPT ![t] = f] ELSE flag

(* Mutant: the taken side is taken when the condition does not hold. *)
Side_Inverted(r, f) == IF Term[r] = "jcc" /\ f THEN "fall" ELSE "taken"

(* The side a terminator leaves by. *)
Side(r, f) == IF Term[r] = "jcc" /\ ~f THEN "fall" ELSE "taken"

(* A patched JMP or Jcc side: straight into the next block, host flags and *)
(* host frame intact.                                                      *)
RunHot(t) ==
  /\ pc[t] = "run" /\ Term[block(t).rip] \in {"jmp", "jcc"}
  /\ \E f \in FlagsAtEnd(t) :
       /\ block(t).hot[Side(block(t).rip, f)] # 0
       /\ ptr' = [ptr EXCEPT ![t] = block(t).hot[Side(block(t).rip, f)]]
       /\ nzcv' = [nzcv EXCEPT ![t] = f]
       /\ WriteFlags(t, f)
  /\ UNCHANGED <<shared, last_entered, pc, current_rip, unpatched, iters,
                 pump_counter, pumped>>

(* Back in the loop: every PumpEvery-th block pumps the AppKit events, and *)
(* the host code in between leaves anything in the flags.                  *)
BackToLoop(t, next) ==
  /\ current_rip' = [current_rip EXCEPT ![t] = next]
  /\ pump_counter' = [pump_counter EXCEPT ![t] = (@ + 1) % PumpEvery]
  /\ pumped' = [pumped EXCEPT ![t] = pump_counter'[t] = 0]
  /\ \E junk \in BOOLEAN : nzcv' = [nzcv EXCEPT ![t] = junk]
  /\ Goto(t, "lookup")

(* An unpatched JMP or Jcc side returns the target to the loop. *)
RunCold(t) ==
  /\ pc[t] = "run" /\ Term[block(t).rip] \in {"jmp", "jcc"}
  /\ \E f \in FlagsAtEnd(t) :
       /\ block(t).hot[Side(block(t).rip, f)] = 0
       /\ WriteFlags(t, f)
       /\ BackToLoop(t, Dest(block(t).rip, Side(block(t).rip, f)))
  /\ UNCHANGED <<shared, last_entered, ptr, unpatched, iters>>

(* RET, indirect JMP and CALL always do. *)
RunDynamic(t) ==
  /\ pc[t] = "run" /\ Term[block(t).rip] = "dyn"
  /\ \E f \in FlagsAtEnd(t), next \in Dyn[block(t).rip] \ {Sentinel} :
       WriteFlags(t, f) /\ BackToLoop(t, next)
  /\ UNCHANGED <<shared, last_entered, ptr, unpatched, iters>>

(* UD2, the end of the decode window, or a RET to the sentinel: the loop *)
(* returns.                                                              *)
RunStop(t) ==
  LET r == block(t).rip IN
  /\ pc[t] = "run"
  /\ Term[r] = "stop" \/ (Term[r] = "dyn" /\ Sentinel \in Dyn[r])
  /\ \E f \in FlagsAtEnd(t) : WriteFlags(t, f)
  /\ Goto(t, "done")
  /\ UNCHANGED <<shared, last_entered, current_rip, ptr, unpatched, iters,
                 pump_counter, pumped, nzcv>>

Step(t) ==
  \/ LookupHits(t)
  \/ LookupMisses(t)
  \/ LoopFails(t)
  \/ Install(t)
  \/ InstallFails(t)
  \/ PatchChain(t)
  \/ Enter(t)
  \/ RunHot(t)
  \/ RunCold(t)
  \/ RunDynamic(t)
  \/ RunStop(t)

Next == \E t \in Threads : Step(t)

Spec == Init /\ [][Next]_vars

(* The host scheduler runs every thread. *)
FairSpec == Spec /\ \A t \in Threads : WF_vars(Step(t))
-----------------------------------------------------------------------------
TypeOK ==
  /\ cache \in Seq([rip : Rips, hot : [Edges -> Nat]])
  /\ used \in 0..Capacity
  /\ block_map \in [Rips -> 0..Len(cache)]
  /\ last_entered \in Rips \cup {0}
  /\ pc \in [Threads -> {"lookup", "install", "patch", "run", "done", "error"}]
  /\ \A t \in Threads :
       /\ pc[t] \in {"install", "patch"} => current_rip[t] \in Rips
       /\ pc[t] \in {"patch", "run"} => ptr[t] \in 1..Len(cache)
  /\ iters \in [Threads -> 0..MaxIters]
  /\ pump_counter \in [Threads -> 0..(PumpEvery - 1)]
  /\ pumped \in [Threads -> BOOLEAN]
  /\ nzcv \in [Threads -> BOOLEAN] /\ flag \in [Threads -> BOOLEAN]

(* The block map and every patched branch lead to a translation of the very *)
(* address they stand for, whichever threads installed and patched it, and  *)
(* however often the address was translated.                                *)
ChainsLeadHome ==
  /\ \A r \in Rips : block_map[r] # 0 => cache[block_map[r]].rip = r
  /\ \A b \in 1..Len(cache), e \in Edges :
       cache[b].hot[e] # 0 =>
         cache[cache[b].hot[e]].rip = Dest(cache[b].rip, e)

(* Seen from the guest, the translator runs the program: hot or cold, alone *)
(* or with other threads, each thread walks the control-flow graph.         *)
guest_rip == [t \in Threads |->
  IF pc[t] \in {"run", "done"} THEN cache[ptr[t]].rip ELSE current_rip[t]]
guest_status == [t \in Threads |->
  IF pc[t] = "done" THEN "stopped"
  ELSE IF pc[t] = "error" THEN "aborted" ELSE "running"]
Guest == INSTANCE GuestProgram WITH rip <- guest_rip, status <- guest_status
RunsTheProgram == Guest!Spec

(* The loop never stays between two blocks: it enters the next one, or ends. *)
LoopMovesOn ==
  \A t \in Threads :
    pc[t] \in {"lookup", "install", "patch"} ~> pc[t] \in {"run", "done", "error"}

(* "Persistent guest register state across dispatcher round-trips", of which *)
(* the flags are a field: a Jcc whose block does not write the flags reads   *)
(* those an earlier block left.                                              *)
FlagsPersist ==
  \A t \in Threads :
    pc[t] = "run" /\ Term[block(t).rip] = "jcc" /\ block(t).rip \notin SetsFlags
      => nzcv[t] = flag[t]
=============================================================================
