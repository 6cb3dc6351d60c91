-------------------------- MODULE DispatcherProofs --------------------------
(***************************************************************************)
(* Proofs about Dispatcher, for every guest program, number of threads,    *)
(* cache size, iteration limit and outcome of the branch-range tests.      *)
(*                                                                         *)
(* The inductive invariant says that every pointer into the code cache     *)
(* that anything holds (the map, a patched branch, a thread about to enter *)
(* a block) leads to the block of the address it stands for, and that      *)
(* every noted placeholder waits for the target of its own edge.           *)
(***************************************************************************)
EXTENDS Dispatcher, TLAPS

Block == [rip : Rips, hot : [Edges -> Nat]]
Labels == {"lookup", "install", "patch", "run", "done", "error"}

Types ==
  /\ cache \in Seq(Block)
  /\ block_map \in [Rips -> 0..Len(cache)]
  /\ pc \in [Threads -> Labels]
  /\ current_rip = [t \in Threads |-> current_rip[t]]
  /\ ptr \in [Threads -> Nat]
  /\ nzcv \in [Threads -> BOOLEAN]
  /\ flag \in [Threads -> BOOLEAN]
  /\ unpatched = [t \in Threads |-> unpatched[t]]

(* The rest of TypeOK: bounds no other conjunct rests on. *)
Bounds ==
  /\ used \in 0..Capacity
  /\ last_entered \in Rips \cup {0}
  /\ iters \in [Threads -> 0..MaxIters]
  /\ pump_counter \in [Threads -> 0..(PumpEvery - 1)]
  /\ pumped \in [Threads -> BOOLEAN]

MapLeadsHome == \A r \in Rips : block_map[r] # 0 => cache[block_map[r]].rip = r

EdgesLeadHome ==
  \A b \in 1..Len(cache), e \in Edges :
    /\ cache[b].hot[e] \in 0..Len(cache)
    /\ cache[b].hot[e] # 0 => cache[cache[b].hot[e]].rip = Dest(cache[b].rip, e)

SitesWaitRight ==
  \A t \in Threads : \A site \in unpatched[t] :
    /\ site.block \in 1..Len(cache) /\ site.edge \in Edges
    /\ site.target = Dest(cache[site.block].rip, site.edge)

ThreadsPointRight ==
  \A t \in Threads :
    /\ pc[t] \in {"install", "patch"} => current_rip[t] \in Rips
    /\ pc[t] \in {"patch", "run", "done"} => ptr[t] \in 1..Len(cache)
    /\ pc[t] = "patch" => cache[ptr[t]].rip = current_rip[t]

IInv ==
  /\ Types
  /\ MapLeadsHome
  /\ EdgesLeadHome
  /\ SitesWaitRight
  /\ ThreadsPointRight

(* Nothing is installed and nothing points anywhere at first. *)
LEMMA InitIInv == Init => IInv
<1> SUFFICES ASSUME Init PROVE IInv BY Zenon
<1> USE ProgramAssumption
<1>1. Types
  <2>1. cache \in Seq(Block) /\ Len(cache) = 0 BY DEF Init
  <2>2. block_map \in [Rips -> 0..Len(cache)] BY <2>1 DEF Init
  <2>3. pc \in [Threads -> Labels] BY Zenon DEF Init, Labels
  <2>4. /\ current_rip = [t \in Threads |-> current_rip[t]]
        /\ ptr \in [Threads -> Nat]
        /\ unpatched = [t \in Threads |-> unpatched[t]]
    BY Zenon DEF Init
  <2>5. nzcv \in [Threads -> BOOLEAN] /\ flag \in [Threads -> BOOLEAN]
    BY Zenon DEF Init
  <2> QED BY <2>1, <2>2, <2>3, <2>4, <2>5, Zenon DEF Types
<1>2. MapLeadsHome BY Zenon DEF Init, MapLeadsHome
<1>3. EdgesLeadHome BY DEF Init, EdgesLeadHome
<1>4. SitesWaitRight BY Zenon DEF Init, SitesWaitRight
<1>5. ThreadsPointRight BY Zenon DEF Init, ThreadsPointRight
<1> QED BY <1>1, <1>2, <1>3, <1>4, <1>5, Zenon DEF IInv

(* Appending a block disturbs no older one. *)
LEMMA AppendBlock ==
  ASSUME NEW c \in Seq(Block), NEW new \in Block
  PROVE  /\ Append(c, new) \in Seq(Block)
         /\ Len(Append(c, new)) = Len(c) + 1
         /\ \A b \in 1..Len(c) : Append(c, new)[b] = c[b]
         /\ Append(c, new)[Len(c) + 1] = new
OBVIOUS

Patched(c, b, e, p) == [c EXCEPT ![b].hot[e] = p]

(* Patching an edge changes that edge of that block and nothing else. *)
LEMMA PatchBlock ==
  ASSUME NEW c \in Seq(Block), NEW b \in 1..Len(c), NEW e \in Edges, NEW p \in Nat
  PROVE  /\ Patched(c, b, e, p) \in Seq(Block)
         /\ Len(Patched(c, b, e, p)) = Len(c)
         /\ \A x \in 1..Len(c) : Patched(c, b, e, p)[x].rip = c[x].rip
         /\ \A x \in 1..Len(c), y \in Edges :
              Patched(c, b, e, p)[x].hot[y] = IF x = b /\ y = e THEN p ELSE c[x].hot[y]
<1>1. c[b] \in Block OBVIOUS
<1> DEFINE new == [c[b] EXCEPT !.hot[e] = p]
           d == Patched(c, b, e, p)
<1>2. new \in Block /\ new.rip = c[b].rip
  BY <1>1, Zenon DEF Block
<1>3. \A y \in Edges : new.hot[y] = IF y = e THEN p ELSE c[b].hot[y]
  BY <1>1, Zenon DEF Block
<1>4. d = [c EXCEPT ![b] = new] BY Zenon DEF Patched
<1> HIDE DEF new, d
<1>5. d \in Seq(Block) /\ Len(d) = Len(c) BY <1>2, <1>4
<1>6. \A x \in 1..Len(c) : d[x] = IF x = b THEN new ELSE c[x] BY <1>4
<1>7. \A x \in 1..Len(c) : d[x].rip = c[x].rip
  <2> TAKE x \in 1..Len(c)
  <2>1. CASE x = b BY <2>1, <1>2, <1>6, Zenon
  <2>2. CASE x # b BY <2>2, <1>6, Zenon
  <2> QED BY <2>1, <2>2, Zenon
<1>8. \A x \in 1..Len(c), y \in Edges :
        d[x].hot[y] = IF x = b /\ y = e THEN p ELSE c[x].hot[y]
  <2> TAKE x \in 1..Len(c), y \in Edges
  <2>1. CASE x = b
    <3>1. d[x] = new BY <2>1, <1>6, Zenon
    <3> QED BY <2>1, <3>1, <1>3, Zenon
  <2>2. CASE x # b BY <2>2, <1>6, Zenon
  <2> QED BY <2>1, <2>2, Zenon
<1> QED BY <1>5, <1>7, <1>8, Zenon DEF d

(* A step that installs and patches nothing need only keep its threads' *)
(* own pointers right.                                                  *)
LEMMA SameCache ==
  ASSUME IInv, UNCHANGED <<cache, block_map, unpatched>>, Types', ThreadsPointRight'
  PROVE  IInv'
<1>1. MapLeadsHome' BY Zenon DEF IInv, MapLeadsHome
<1>2. EdgesLeadHome' BY Zenon DEF IInv, EdgesLeadHome
<1>3. SitesWaitRight' BY Zenon DEF IInv, SitesWaitRight
<1> QED BY <1>1, <1>2, <1>3, Zenon DEF IInv

(* Entering a fresh block in the cache and the map keeps every pointer right. *)
LEMMA InstallIInv == ASSUME IInv, NEW t \in Threads, Install(t) PROVE IInv'
<1> DEFINE r == current_rip[t]
           new == [rip |-> r, hot |-> [e \in Edges |-> 0]]
<1>1. r \in Rips /\ new \in Block
  BY Zenon DEF IInv, ThreadsPointRight, Install, Block
<1>2. cache' = Append(cache, new) /\ cache \in Seq(Block)
  BY Zenon DEF Install, IInv, Types
<1>3. /\ cache' \in Seq(Block) /\ Len(cache') = Len(cache) + 1
      /\ \A b \in 1..Len(cache) : cache'[b] = cache[b]
      /\ cache'[Len(cache')] = new
  BY <1>1, <1>2, AppendBlock
<1>4. Len(cache) \in Nat /\ Len(cache') \in Nat BY <1>2, <1>3
<1>5. new.rip = r /\ \A e \in Edges : new.hot[e] = 0 BY Zenon
<1>6. /\ block_map' = [block_map EXCEPT ![r] = Len(cache')]
      /\ ptr' = [ptr EXCEPT ![t] = Len(cache')]
      /\ pc' = [pc EXCEPT ![t] = "patch"]
      /\ UNCHANGED <<current_rip, nzcv, flag>>
      /\ unpatched' = [unpatched EXCEPT ![t] = @ \cup
           {[block |-> Len(cache'), edge |-> e, target |-> Dest(r, e)] :
              e \in Chainable(r)}]
  BY <1>3 DEF Install, Goto
<1>7. Chainable(r) \subseteq Edges BY Zenon DEF Chainable, Edges
<1> HIDE DEF r, new
<1>8. Types'
  <2>1. block_map' \in [Rips -> 0..Len(cache')]
    BY <1>1, <1>3, <1>4, <1>6 DEF IInv, Types
  <2>2. pc' \in [Threads -> Labels] BY <1>6, Zenon DEF IInv, Types, Labels
  <2>3. ptr' \in [Threads -> Nat] BY <1>4, <1>6, Zenon DEF IInv, Types
  <2>4. current_rip' = [s \in Threads |-> current_rip'[s]]
    BY <1>6, Zenon DEF IInv, Types
  <2>5. unpatched' = [s \in Threads |-> unpatched'[s]]
    BY <1>6, Zenon DEF IInv, Types
  <2>6. nzcv' \in [Threads -> BOOLEAN] /\ flag' \in [Threads -> BOOLEAN]
    BY <1>6, Zenon DEF IInv, Types
  <2> QED BY <1>3, <2>1, <2>2, <2>3, <2>4, <2>5, <2>6, Zenon DEF Types
<1>9. MapLeadsHome'
  <2> SUFFICES ASSUME NEW q \in Rips, block_map'[q] # 0
               PROVE  cache'[block_map'[q]].rip = q
    BY Zenon DEF MapLeadsHome
  <2>1. CASE q = r BY <2>1, <1>1, <1>3, <1>5, <1>6, Zenon DEF IInv, Types
  <2>2. CASE q # r
    <3>1. block_map'[q] = block_map[q] BY <2>2, <1>6, Zenon DEF IInv, Types
    <3>2. block_map[q] \in 1..Len(cache) BY <3>1, <1>4 DEF IInv, Types
    <3> QED BY <3>1, <3>2, <1>3, Zenon DEF IInv, MapLeadsHome
  <2> QED BY <2>1, <2>2, Zenon
<1>10. EdgesLeadHome'
  <2> SUFFICES ASSUME NEW b \in 1..Len(cache'), NEW e \in Edges
               PROVE  /\ cache'[b].hot[e] \in 0..Len(cache')
                      /\ cache'[b].hot[e] # 0 =>
                           cache'[cache'[b].hot[e]].rip = Dest(cache'[b].rip, e)
    BY Zenon DEF EdgesLeadHome, Dest
  <2>1. CASE b = Len(cache') BY <2>1, <1>3, <1>4, <1>5, SMT, Z3
  <2>2. CASE b # Len(cache')
    <3>1. b \in 1..Len(cache) BY <2>2, <1>3, <1>4
    <3>2. cache'[b] = cache[b] BY <3>1, <1>3, Zenon
    <3>3. /\ cache[b].hot[e] \in 0..Len(cache)
          /\ cache[b].hot[e] # 0 => cache[cache[b].hot[e]].rip = Dest(cache[b].rip, e)
      BY <3>1, Zenon DEF IInv, EdgesLeadHome
    <3> QED BY <3>2, <3>3, <1>3, <1>4, SMT, Z3
  <2> QED BY <2>1, <2>2, Zenon
<1>11. SitesWaitRight'
  <2> SUFFICES ASSUME NEW s \in Threads, NEW site \in unpatched'[s]
               PROVE  /\ site.block \in 1..Len(cache') /\ site.edge \in Edges
                      /\ site.target = Dest(cache'[site.block].rip, site.edge)
    BY Zenon DEF SitesWaitRight, Dest
  <2>1. CASE site \in unpatched[s]
    <3>1. /\ site.block \in 1..Len(cache) /\ site.edge \in Edges
          /\ site.target = Dest(cache[site.block].rip, site.edge)
      BY <2>1, Zenon DEF IInv, SitesWaitRight
    <3> QED BY <3>1, <1>3, <1>4
  <2>2. CASE site \notin unpatched[s]
    <3>1. site \in {[block |-> Len(cache'), edge |-> e, target |-> Dest(r, e)] :
                      e \in Chainable(r)}
      BY <2>2, <1>6, Zenon DEF IInv, Types
    <3>2. PICK e \in Chainable(r) :
            site = [block |-> Len(cache'), edge |-> e, target |-> Dest(r, e)]
      BY <3>1, Zenon
    <3>3. /\ site.block = Len(cache') /\ site.edge = e /\ e \in Edges
          /\ site.target = Dest(r, e)
      BY <3>2, <1>7, Zenon
    <3> QED BY <3>3, <1>3, <1>4, <1>5
  <2> QED BY <2>1, <2>2, Zenon
<1>12. ThreadsPointRight'
  <2> SUFFICES ASSUME NEW s \in Threads
               PROVE  /\ pc'[s] \in {"install", "patch"} => current_rip'[s] \in Rips
                      /\ pc'[s] \in {"patch", "run", "done"} =>
                           ptr'[s] \in 1..Len(cache')
                      /\ pc'[s] = "patch" => cache'[ptr'[s]].rip = current_rip'[s]
    BY Zenon DEF ThreadsPointRight
  <2>1. CASE s = t
    <3>1. ptr'[s] = Len(cache') /\ current_rip'[s] = r
      BY <2>1, <1>6, Zenon DEF IInv, Types, r
    <3> QED BY <3>1, <1>1, <1>3, <1>4, <1>5
  <2>2. CASE s # t
    <3>1. pc'[s] = pc[s] /\ ptr'[s] = ptr[s] /\ current_rip'[s] = current_rip[s]
      BY <2>2, <1>6, Zenon DEF IInv, Types
    <3>2. ptr[s] \in 1..Len(cache) => ptr[s] \in 1..Len(cache') BY <1>3, <1>4
    <3> QED BY <3>1, <3>2, <1>3, Zenon DEF IInv, ThreadsPointRight
  <2> QED BY <2>1, <2>2, Zenon
<1> QED BY <1>8, <1>9, <1>10, <1>11, <1>12, Zenon DEF IInv

(* Patching a placeholder leads it to the block at hand, whose address is *)
(* the one the placeholder waits for.                                     *)
LEMMA PatchIInv == ASSUME IInv, NEW t \in Threads, PatchChain(t) PROVE IInv'
<1>1. PICK site \in Waiting(t), fits \in Reach :
        /\ unpatched' = [unpatched EXCEPT ![t] = @ \ {site}]
        /\ cache' = IF fits THEN [cache EXCEPT ![site.block].hot[site.edge] = ptr[t]]
                            ELSE cache
  BY Zenon DEF PatchChain
<1>2. UNCHANGED <<block_map, pc, current_rip, ptr, nzcv, flag>> /\ pc[t] = "patch"
  BY Zenon DEF PatchChain
<1>3. site \in unpatched[t] /\ site.target = current_rip[t] BY <1>1, Zenon DEF Waiting
<1>4. /\ site.block \in 1..Len(cache) /\ site.edge \in Edges
      /\ site.target = Dest(cache[site.block].rip, site.edge)
  BY <1>3, Zenon DEF IInv, SitesWaitRight
<1>5. cache \in Seq(Block) /\ ptr[t] \in 1..Len(cache) /\ cache[ptr[t]].rip = site.target
  BY <1>2, <1>3, Zenon DEF IInv, Types, ThreadsPointRight
<1>6. \A s \in Threads : unpatched'[s] \subseteq unpatched[s]
  BY <1>1, Zenon DEF IInv, Types
<1>7. unpatched' = [s \in Threads |-> unpatched'[s]] BY <1>1, Zenon DEF IInv, Types
<1>8. CASE ~fits
  <2>1. cache' = cache BY <1>1, <1>8, Zenon
  <2>2. Types' BY <2>1, <1>2, <1>7, Zenon DEF IInv, Types
  <2>3. MapLeadsHome' BY <2>1, <1>2, Zenon DEF IInv, MapLeadsHome
  <2>4. EdgesLeadHome' BY <2>1, Zenon DEF IInv, EdgesLeadHome
  <2>5. SitesWaitRight' BY <2>1, <1>6, Zenon DEF IInv, SitesWaitRight
  <2>6. ThreadsPointRight' BY <2>1, <1>2, Zenon DEF IInv, ThreadsPointRight
  <2> QED BY <2>2, <2>3, <2>4, <2>5, <2>6, Zenon DEF IInv
<1>9. CASE fits
  <2>1. /\ cache' \in Seq(Block) /\ Len(cache') = Len(cache)
        /\ \A x \in 1..Len(cache) : cache'[x].rip = cache[x].rip
        /\ \A x \in 1..Len(cache), y \in Edges :
             cache'[x].hot[y] = IF x = site.block /\ y = site.edge
                                  THEN ptr[t] ELSE cache[x].hot[y]
    <3>1. cache' = Patched(cache, site.block, site.edge, ptr[t])
      BY <1>1, <1>9, Zenon DEF Patched
    <3>2. PICK v \in Nat : v = ptr[t] BY Zenon DEF IInv, Types
    <3>3. PICK c \in Seq(Block) : c = cache BY <1>5, Zenon
    <3>4. site.block \in 1..Len(cache) /\ site.edge \in Edges BY <1>4, Zenon
    <3> DEFINE d == Patched(c, site.block, site.edge, v)
    <3>5. /\ d \in Seq(Block) /\ Len(d) = Len(cache)
          /\ \A x \in 1..Len(cache) : d[x].rip = cache[x].rip
          /\ \A x \in 1..Len(cache), y \in Edges :
               d[x].hot[y] = IF x = site.block /\ y = site.edge
                               THEN ptr[t] ELSE cache[x].hot[y]
      BY <3>2, <3>3, <3>4, PatchBlock, SMT, Z3
    <3> HIDE DEF d
    <3> QED BY <3>1, <3>2, <3>3, <3>5, Zenon DEF d
  <2>2. Types' BY <2>1, <1>2, <1>7, Zenon DEF IInv, Types
  <2>3. MapLeadsHome'
    <3> SUFFICES ASSUME NEW q \in Rips, block_map[q] # 0
                 PROVE  cache'[block_map[q]].rip = q
      BY <1>2, Zenon DEF MapLeadsHome
    <3>1. block_map[q] \in 1..Len(cache) BY DEF IInv, Types
    <3> QED BY <3>1, <2>1, Zenon DEF IInv, MapLeadsHome
  <2>4. EdgesLeadHome'
    <3> SUFFICES ASSUME NEW b \in 1..Len(cache), NEW e \in Edges
                 PROVE  /\ cache'[b].hot[e] \in 0..Len(cache)
                        /\ cache'[b].hot[e] # 0 =>
                             cache'[cache'[b].hot[e]].rip = Dest(cache'[b].rip, e)
      BY <2>1 DEF EdgesLeadHome, Dest
    <3>0. cache'[b].rip = cache[b].rip BY <2>1, Zenon
    <3>1. CASE b = site.block /\ e = site.edge
      <4>1. cache'[b].hot[e] = ptr[t] BY <3>1, <2>1, Zenon
      <4>2. cache'[ptr[t]].rip = Dest(cache[b].rip, e) BY <3>1, <1>4, <1>5, <2>1, Zenon
      <4> QED BY <4>1, <4>2, <3>0, <1>5
    <3>2. CASE ~(b = site.block /\ e = site.edge)
      <4>1. cache'[b].hot[e] = cache[b].hot[e] BY <3>2, <2>1, Zenon
      <4>2. /\ cache[b].hot[e] \in 0..Len(cache)
            /\ cache[b].hot[e] # 0 => cache[cache[b].hot[e]].rip = Dest(cache[b].rip, e)
        BY Zenon DEF IInv, EdgesLeadHome
      <4> QED BY <4>1, <4>2, <3>0, <2>1, SMT, Z3
    <3> QED BY <3>1, <3>2, Zenon
  <2>5. SitesWaitRight'
    <3> SUFFICES ASSUME NEW s \in Threads, NEW x \in unpatched[s]
                 PROVE  /\ x.block \in 1..Len(cache') /\ x.edge \in Edges
                        /\ x.target = Dest(cache'[x.block].rip, x.edge)
      BY <1>6, Zenon DEF SitesWaitRight, Dest
    <3>1. /\ x.block \in 1..Len(cache) /\ x.edge \in Edges
          /\ x.target = Dest(cache[x.block].rip, x.edge)
      BY Zenon DEF IInv, SitesWaitRight
    <3> QED BY <3>1, <2>1, Zenon
  <2>6. ThreadsPointRight' BY <2>1, <1>2, SMT, Z3 DEF IInv, ThreadsPointRight
  <2> QED BY <2>2, <2>3, <2>4, <2>5, <2>6, SMT, Z3 DEF IInv
<1> QED BY <1>8, <1>9, Zenon

(* Every step keeps the invariant. *)
LEMMA NextIInv == IInv /\ [Next]_vars => IInv'
<1> SUFFICES ASSUME IInv, [Next]_vars PROVE IInv' BY Zenon
<1>1. CASE UNCHANGED vars
  <2>1. Types' BY <1>1, Zenon DEF vars, IInv, Types
  <2>2. ThreadsPointRight' BY <1>1, Zenon DEF vars, IInv, ThreadsPointRight
  <2> QED BY <1>1, <2>1, <2>2, SameCache, Zenon DEF vars
<1>2. ASSUME NEW t \in Threads, Step(t) PROVE IInv'
  <2>1. CASE LookupHits(t)
    <3>1. block_map[current_rip[t]] \in 1..Len(cache)
      BY <2>1, SMT, Z3 DEF LookupHits, IInv, Types
    <3>2. Types' BY <2>1, <3>1, SMT, Z3 DEF LookupHits, Goto, shared, local, IInv, Types, Labels
    <3>3. ThreadsPointRight'
      BY <2>1, <3>1, SMT, Z3 DEF LookupHits, Goto, shared, IInv, Types, ThreadsPointRight,
                        MapLeadsHome
    <3> QED BY <2>1, <3>2, <3>3, SameCache, Zenon DEF LookupHits, shared, local
  <2>2. CASE LookupMisses(t)
    <3>1. Types' BY <2>2, Zenon DEF LookupMisses, Goto, shared, local, IInv, Types, Labels
    <3>2. ThreadsPointRight'
      BY <2>2, Zenon DEF LookupMisses, Goto, shared, IInv, Types, ThreadsPointRight
    <3> QED BY <2>2, <3>1, <3>2, SameCache, Zenon DEF LookupMisses, shared, local
  <2>3. CASE LoopFails(t)
    <3>1. Types' BY <2>3, Zenon DEF LoopFails, Goto, shared, local, IInv, Types, Labels
    <3>2. ThreadsPointRight'
      BY <2>3, Zenon DEF LoopFails, Goto, shared, IInv, Types, ThreadsPointRight
    <3> QED BY <2>3, <3>1, <3>2, SameCache, Zenon DEF LoopFails, shared, local
  <2>4. CASE Install(t) BY <2>4, InstallIInv, Zenon
  <2>5. CASE InstallFails(t)
    <3>1. Types' BY <2>5, Zenon DEF InstallFails, Goto, shared, local, IInv, Types, Labels
    <3>2. ThreadsPointRight'
      BY <2>5, Zenon DEF InstallFails, Goto, shared, IInv, Types, ThreadsPointRight
    <3> QED BY <2>5, <3>1, <3>2, SameCache, Zenon DEF InstallFails, shared, local
  <2>6. CASE PatchChain(t) BY <2>6, PatchIInv
  <2>7. CASE Enter(t)
    <3>1. Types' BY <2>7, Zenon DEF Enter, Goto, shared, local, IInv, Types, Labels
    <3>2. ThreadsPointRight'
      BY <2>7, Zenon DEF Enter, Goto, shared, IInv, Types, ThreadsPointRight
    <3> QED BY <2>7, <3>1, <3>2, SameCache, Zenon DEF Enter, shared, local
  <2>8. CASE RunHot(t)
    <3>1. ptr[t] \in 1..Len(cache) BY <2>8, Zenon DEF RunHot, IInv, ThreadsPointRight
    <3>2. PICK f \in FlagsAtEnd(t) :
            /\ block(t).hot[Side(block(t).rip, f)] # 0
            /\ ptr' = [ptr EXCEPT ![t] = block(t).hot[Side(block(t).rip, f)]]
            /\ nzcv' = [nzcv EXCEPT ![t] = f]
            /\ WriteFlags(t, f)
      BY <2>8, Zenon DEF RunHot
    <3>3. f \in BOOLEAN BY <3>2, Zenon DEF FlagsAtEnd, IInv, Types
    <3>4. Side(block(t).rip, f) \in Edges BY Zenon DEF Side, Edges
    <3> DEFINE n == block(t).hot[Side(block(t).rip, f)]
    <3>5. n \in 1..Len(cache)
      BY <3>1, <3>2, <3>4, SMT, Z3 DEF block, IInv, EdgesLeadHome, Types
    <3>6. /\ ptr' = [ptr EXCEPT ![t] = n]
          /\ UNCHANGED <<cache, block_map, unpatched, pc, current_rip>> /\ pc[t] = "run"
      BY <2>8, <3>2, Zenon DEF RunHot, shared, IInv, Types
    <3> HIDE DEF n
    <3>7. Types'
      <4>1. ptr' \in [Threads -> Nat] BY <3>5, <3>6 DEF IInv, Types
      <4>2. nzcv' \in [Threads -> BOOLEAN] /\ flag' \in [Threads -> BOOLEAN]
        BY <3>2, <3>3, Zenon DEF IInv, Types, WriteFlags
      <4> QED BY <3>6, <4>1, <4>2, Zenon DEF IInv, Types
    <3>8. ThreadsPointRight'
      BY <3>5, <3>6, Zenon DEF IInv, Types, ThreadsPointRight
    <3> QED BY <3>6, <3>7, <3>8, SameCache, Zenon
  <2>9. CASE RunCold(t) \/ RunDynamic(t)
    <3>0. PICK f \in FlagsAtEnd(t) : WriteFlags(t, f) /\ \E next : BackToLoop(t, next)
      BY <2>9, Zenon DEF RunCold, RunDynamic
    <3>1. PICK next : WriteFlags(t, f) /\ BackToLoop(t, next) BY <3>0, Zenon
    <3>2. UNCHANGED <<cache, block_map, unpatched, ptr>>
      BY <2>9, Zenon DEF RunCold, RunDynamic, shared
    <3>3. f \in BOOLEAN BY <3>0, Zenon DEF FlagsAtEnd, IInv, Types
    <3>4. /\ pc' = [pc EXCEPT ![t] = "lookup"]
          /\ current_rip' = [current_rip EXCEPT ![t] = next]
      BY <3>1, Zenon DEF BackToLoop, Goto
    <3>5. Types'
      <4>1. nzcv' \in [Threads -> BOOLEAN] BY <3>1, Zenon DEF IInv, Types, BackToLoop
      <4>2. flag' \in [Threads -> BOOLEAN] BY <3>1, <3>3, Zenon DEF IInv, Types, WriteFlags
      <4>3. pc' \in [Threads -> Labels] BY <3>4, Zenon DEF IInv, Types, Labels
      <4>4. current_rip' = [s \in Threads |-> current_rip'[s]]
        BY <3>4, Zenon DEF IInv, Types
      <4> QED BY <3>2, <4>1, <4>2, <4>3, <4>4, Zenon DEF IInv, Types
    <3>6. ThreadsPointRight' BY <3>2, <3>4, Zenon DEF IInv, Types, ThreadsPointRight
    <3> QED BY <3>2, <3>5, <3>6, SameCache, Zenon
  <2>10. CASE RunStop(t)
    <3>1. PICK f \in FlagsAtEnd(t) : WriteFlags(t, f) BY <2>10, Zenon DEF RunStop
    <3>2. f \in BOOLEAN BY <3>1, Zenon DEF FlagsAtEnd, IInv, Types
    <3>3. /\ pc' = [pc EXCEPT ![t] = "done"] /\ pc[t] = "run"
          /\ UNCHANGED <<cache, block_map, unpatched, ptr, current_rip, nzcv>>
      BY <2>10, Zenon DEF RunStop, Goto, shared
    <3>4. Types'
      <4>1. flag' \in [Threads -> BOOLEAN] BY <3>1, <3>2, Zenon DEF IInv, Types, WriteFlags
      <4>2. pc' \in [Threads -> Labels] BY <3>3, Zenon DEF IInv, Types, Labels
      <4> QED BY <3>3, <4>1, <4>2, Zenon DEF IInv, Types
    <3>5. ThreadsPointRight' BY <3>3, Zenon DEF IInv, Types, ThreadsPointRight
    <3> QED BY <3>3, <3>4, <3>5, SameCache, Zenon
  <2> QED
    BY <1>2, <2>1, <2>2, <2>3, <2>4, <2>5, <2>6, <2>7, <2>8, <2>9, <2>10, Zenon DEF Step
<1> QED BY <1>1, <1>2, Zenon DEF Next

(* In every reachable state every pointer into the code cache leads to the *)
(* block of its address: IInv holds of the dispatcher loop and its cache.  *)
THEOREM Invariance == Spec => []IInv
<1> QED BY InitIInv, NextIInv, PTL DEF Spec

(* The counters and flags start within their bounds and stay there. *)
LEMMA BoundsKept ==
  /\ Init => Bounds
  /\ IInv /\ Bounds /\ [Next]_vars => Bounds'
<1> USE ProgramAssumption
<1>1. Init => Bounds BY SMT, Z3 DEF Init, Bounds
<1>2. ASSUME IInv, Bounds, [Next]_vars PROVE Bounds'
  <2>1. CASE UNCHANGED vars BY <1>2, <2>1, Zenon DEF vars, Bounds
  <2>2. ASSUME NEW t \in Threads, LookupHits(t) \/ LookupMisses(t) PROVE Bounds'
    BY <1>2, <2>2 DEF LookupHits, LookupMisses, shared, local, Bounds
  <2>3. ASSUME NEW t \in Threads, Install(t) PROVE Bounds'
    <3>1. used' \in 0..Capacity
      BY <1>2, <2>3, SMT, Z3 DEF Install, Bounds, IInv, ThreadsPointRight
    <3> QED BY <1>2, <2>3, <3>1, Zenon DEF Install, Bounds
  <2>4. ASSUME NEW t \in Threads,
               LoopFails(t) \/ InstallFails(t) \/ PatchChain(t) \/ RunHot(t) \/ RunStop(t)
        PROVE  Bounds'
    BY <1>2, <2>4, Zenon DEF LoopFails, InstallFails, PatchChain, RunHot, RunStop, shared,
                      local, Bounds
  <2>5. ASSUME NEW t \in Threads, Enter(t) PROVE Bounds'
    BY <1>2, <2>5, Zenon DEF Enter, shared, local, Bounds, IInv, ThreadsPointRight
  <2>6. ASSUME NEW t \in Threads, RunCold(t) \/ RunDynamic(t) PROVE Bounds'
    <3>1. PICK next : BackToLoop(t, next) BY <2>6, Zenon DEF RunCold, RunDynamic
    <3>2. UNCHANGED <<used, last_entered, iters>>
      BY <2>6, Zenon DEF RunCold, RunDynamic, shared
    <3>3. pump_counter' \in [Threads -> 0..(PumpEvery - 1)]
      BY <1>2, <3>1 DEF BackToLoop, Bounds
    <3>4. pumped' \in [Threads -> BOOLEAN]
      BY <1>2, <3>1, Zenon DEF BackToLoop, Bounds
    <3> QED BY <1>2, <3>2, <3>3, <3>4, Zenon DEF Bounds
  <2> QED BY <1>2, <2>1, <2>2, <2>3, <2>4, <2>5, <2>6, Zenon DEF Next, Step
<1> QED BY <1>1, <1>2, Zenon

(* Type correctness of the dispatcher: the cache never holds more than its *)
(* capacity, no loop runs past its limit, no thread points outside.        *)
THEOREM TypeCorrect == Spec => []TypeOK
<1>1. IInv /\ Bounds => TypeOK
  BY Zenon DEF IInv, Types, Bounds, ThreadsPointRight, TypeOK, Block, Labels
<1> QED BY <1>1, InitIInv, NextIInv, BoundsKept, PTL DEF Spec

(* lookup, install and patch_chain, called by any number of threads in any *)
(* order, never lead a branch or a lookup to the block of another address. *)
THEOREM ChainsSound == Spec => []ChainsLeadHome
<1>1. IInv => ChainsLeadHome
  BY Zenon DEF IInv, MapLeadsHome, EdgesLeadHome, ChainsLeadHome
<1> QED BY <1>1, Invariance, PTL

(* No flags are carried from one block into the branch of another: every  *)
(* block that ends in a Jcc writes the flags itself.                      *)
SelfContained == \A r \in Rips : Term[r] = "jcc" => r \in SetsFlags

(* The guest's view of a thread that keeps its place, and of one that moves. *)
LEMMA ViewKept ==
  ASSUME IInv, NEW t \in Threads,
         \A s \in Threads : s # t => /\ pc'[s] = pc[s] /\ ptr'[s] = ptr[s]
                                     /\ current_rip'[s] = current_rip[s],
         \A b \in 1..Len(cache) : cache'[b].rip = cache[b].rip
  PROVE  /\ guest_rip' = [guest_rip EXCEPT ![t] = guest_rip'[t]]
         /\ guest_status' = [guest_status EXCEPT ![t] = guest_status'[t]]
<1>1. \A s \in Threads : s # t => guest_rip'[s] = guest_rip[s]
  BY DEF guest_rip, IInv, ThreadsPointRight
<1>2. \A s \in Threads : s # t => guest_status'[s] = guest_status[s]
  BY Zenon DEF guest_status
<1>3. /\ guest_rip = [s \in Threads |-> guest_rip[s]]
      /\ guest_rip' = [s \in Threads |-> guest_rip'[s]]
      /\ guest_status = [s \in Threads |-> guest_status[s]]
      /\ guest_status' = [s \in Threads |-> guest_status'[s]]
  BY Zenon DEF guest_rip, guest_status
<1> HIDE DEF guest_rip, guest_status
<1>4. guest_rip' = [guest_rip EXCEPT ![t] = guest_rip'[t]]
  BY <1>1, <1>3, Zenon
<1>5. guest_status' = [guest_status EXCEPT ![t] = guest_status'[t]]
  BY <1>2, <1>3, Zenon
<1> QED BY <1>4, <1>5, Zenon

(* A thread inside a block is, for the guest, at that block's address. *)
LEMMA ViewRunning ==
  ASSUME IInv, NEW t \in Threads, pc[t] = "run"
  PROVE  /\ block(t).rip \in Rips /\ guest_rip[t] = block(t).rip
         /\ guest_status[t] = "running"
<1>1. ptr[t] \in 1..Len(cache) /\ cache \in Seq(Block)
  BY Zenon DEF IInv, ThreadsPointRight, Types
<1>2. cache[ptr[t]] \in Block BY <1>1
<1>3. block(t).rip \in Rips BY <1>2, Zenon DEF block, Block
<1>4. guest_rip[t] = block(t).rip BY Zenon DEF guest_rip, block
<1>5. guest_status[t] = "running" BY Zenon DEF guest_status
<1> QED BY <1>3, <1>4, <1>5, Zenon

(* Looking up, installing, patching and entering are invisible to the guest. *)
LEMMA LoopInvisible ==
  ASSUME IInv, IInv', NEW t \in Threads,
         LookupHits(t) \/ LookupMisses(t) \/ Install(t) \/ PatchChain(t) \/ Enter(t)
  PROVE  UNCHANGED <<guest_rip, guest_status, flag>>
<1>1. \A b \in 1..Len(cache) : cache'[b].rip = cache[b].rip
  <2>1. CASE Install(t)
    <3>1. [rip |-> current_rip[t], hot |-> [e \in Edges |-> 0]] \in Block
      BY <2>1, Zenon DEF Install, IInv, ThreadsPointRight, Block
    <3> QED BY <2>1, <3>1, AppendBlock, SMT, Z3 DEF Install, IInv, Types
  <2>2. CASE PatchChain(t)
    <3>1. PICK site \in Waiting(t), fits \in Reach :
            cache' = IF fits THEN Patched(cache, site.block, site.edge, ptr[t]) ELSE cache
      BY <2>2, Zenon DEF PatchChain, Patched
    <3>2. site.block \in 1..Len(cache) /\ site.edge \in Edges /\ ptr[t] \in Nat
      BY Zenon DEF Waiting, IInv, SitesWaitRight, Types
    <3>3. PICK c \in Seq(Block), v \in Nat : c = cache /\ v = ptr[t]
      BY <3>2, Zenon DEF IInv, Types
    <3>4. \A x \in 1..Len(c) : Patched(c, site.block, site.edge, v)[x].rip = c[x].rip
      BY <3>2, <3>3, PatchBlock, SMT, Z3
    <3> QED BY <3>1, <3>3, <3>4, Zenon
  <2>3. CASE UNCHANGED cache BY <2>3, Zenon
  <2> QED BY <2>1, <2>2, <2>3, Zenon DEF LookupHits, LookupMisses, Enter, shared
<1>2. \A s \in Threads : s # t => /\ pc'[s] = pc[s] /\ ptr'[s] = ptr[s]
                                  /\ current_rip'[s] = current_rip[s]
  <2>1. CASE LookupHits(t) \/ LookupMisses(t)
    BY <2>1, Zenon DEF LookupHits, LookupMisses, Goto, IInv, Types
  <2>2. CASE Install(t) \/ PatchChain(t) \/ Enter(t)
    BY <2>2, Zenon DEF Install, PatchChain, Enter, Goto, IInv, Types
  <2> QED BY <2>1, <2>2, Zenon
<1>3. /\ current_rip'[t] = current_rip[t] /\ UNCHANGED flag
      /\ pc[t] \in {"lookup", "install", "patch"}
      /\ \/ pc'[t] \in {"install", "patch"}
         \/ pc[t] = "patch" /\ pc'[t] = "run" /\ ptr'[t] = ptr[t] /\ cache' = cache
  BY Zenon DEF LookupHits, LookupMisses, Install, PatchChain, Enter, Goto, shared, local,
         IInv, Types
<1>4. guest_rip'[t] = guest_rip[t]
  BY <1>3, Zenon DEF guest_rip, IInv, ThreadsPointRight
<1>5. guest_status'[t] = guest_status[t] BY <1>3, Zenon DEF guest_status
<1>6. /\ guest_rip' = [guest_rip EXCEPT ![t] = guest_rip[t]]
      /\ guest_status' = [guest_status EXCEPT ![t] = guest_status[t]]
  BY <1>1, <1>2, <1>4, <1>5, ViewKept, Zenon
<1>7. /\ guest_rip = [s \in Threads |-> guest_rip[s]]
      /\ guest_status = [s \in Threads |-> guest_status[s]]
  BY Zenon DEF guest_rip, guest_status
<1> HIDE DEF guest_rip, guest_status
<1> QED BY <1>3, <1>6, <1>7, Zenon

(* Leaving a block, hot or cold, is one step of the guest program. *)
LEMMA BlockRuns ==
  ASSUME SelfContained, IInv, IInv', NEW t \in Threads,
         RunHot(t) \/ RunCold(t) \/ RunDynamic(t)
  PROVE  Guest!RunBlock(t)
<1> DEFINE r == block(t).rip
<1>1. /\ pc[t] = "run" /\ UNCHANGED cache /\ ptr[t] \in 1..Len(cache)
      /\ \A s \in Threads : s # t => /\ pc'[s] = pc[s] /\ ptr'[s] = ptr[s]
                                     /\ current_rip'[s] = current_rip[s]
  BY SMT, Z3 DEF RunHot, RunCold, RunDynamic, BackToLoop, Goto, shared, IInv, Types,
         ThreadsPointRight
<1>2. r \in Rips /\ guest_rip[t] = r /\ guest_status[t] = "running"
  BY <1>1, ViewRunning, Zenon
<1>3. /\ guest_rip' = [guest_rip EXCEPT ![t] = guest_rip'[t]]
      /\ guest_status' = [guest_status EXCEPT ![t] = guest_status'[t]]
  BY <1>1, ViewKept, Zenon
<1>4. guest_status' = guest_status
  <2>1. pc'[t] \in {"run", "lookup"}
    BY <1>1 DEF RunHot, RunCold, RunDynamic, BackToLoop, Goto, IInv, Types
  <2>2. guest_status'[t] = guest_status[t] BY <1>2, <2>1, Zenon DEF guest_status
  <2>3. guest_status = [s \in Threads |-> guest_status[s]] BY Zenon DEF guest_status
  <2> HIDE DEF guest_status
  <2> QED BY <1>3, <2>2, <2>3, Zenon
<1>5. PICK f \in FlagsAtEnd(t) :
        /\ WriteFlags(t, f)
        /\ \/ Term[r] \in {"jmp", "jcc"} /\ guest_rip'[t] = Dest(r, Side(r, f))
           \/ Term[r] = "dyn" /\ guest_rip'[t] \in Dyn[r] \ {Sentinel}
  <2>1. CASE RunHot(t)
    <3>1. PICK f \in FlagsAtEnd(t) :
            /\ block(t).hot[Side(r, f)] # 0
            /\ ptr' = [ptr EXCEPT ![t] = block(t).hot[Side(r, f)]]
            /\ WriteFlags(t, f)
      BY <2>1, Zenon DEF RunHot
    <3>2. Side(r, f) \in Edges BY ZenonT(40) DEF Side, Edges
    <3>3. cache[block(t).hot[Side(r, f)]].rip = Dest(r, Side(r, f))
      BY <3>1, <3>2, <1>1, SMT, Z3 DEF block, IInv, EdgesLeadHome
    <3>4. guest_rip'[t] = cache[block(t).hot[Side(r, f)]].rip
      <4>1. pc'[t] = "run" /\ ptr'[t] = block(t).hot[Side(r, f)]
        BY <2>1, <3>1, <1>1 DEF RunHot, IInv, Types
      <4> QED BY <4>1, <1>1, Zenon DEF guest_rip
    <3> QED BY <2>1, <3>1, <3>3, <3>4, Zenon DEF RunHot
  <2>2. CASE RunCold(t)
    <3>1. PICK f \in FlagsAtEnd(t) :
            WriteFlags(t, f) /\ BackToLoop(t, Dest(r, Side(r, f)))
      BY <2>2, Zenon DEF RunCold
    <3>2. guest_rip'[t] = Dest(r, Side(r, f))
      BY <3>1, Zenon DEF BackToLoop, Goto, guest_rip, IInv, Types
    <3> QED BY <2>2, <3>1, <3>2, Zenon DEF RunCold
  <2>3. CASE RunDynamic(t)
    <3>1. PICK f \in FlagsAtEnd(t), next \in Dyn[r] \ {Sentinel} :
            WriteFlags(t, f) /\ BackToLoop(t, next)
      BY <2>3, Zenon DEF RunDynamic
    <3>2. guest_rip'[t] = next
      BY <3>1, Zenon DEF BackToLoop, Goto, guest_rip, IInv, Types
    <3> QED BY <2>3, <3>1, <3>2, Zenon DEF RunDynamic
  <2> QED BY <2>1, <2>2, <2>3, Zenon
<1> DEFINE g == IF r \in SetsFlags THEN f ELSE flag[t]
<1>6. g \in Guest!FlagsAtEnd(r, flag[t])
  BY <1>5, Zenon DEF FlagsAtEnd, Guest!FlagsAtEnd
<1>7. flag' = [flag EXCEPT ![t] = g]
  BY <1>5, Zenon DEF WriteFlags, IInv, Types
<1>8. guest_rip'[t] \in Guest!Successors(r, g)
  <2>1. CASE Term[r] = "dyn" BY <2>1, <1>5, Zenon DEF Guest!Successors
  <2>2. CASE Term[r] = "jmp" BY <2>2, <1>5, Zenon DEF Guest!Successors, Side, Dest
  <2>3. CASE Term[r] = "jcc"
    <3>1. g = f BY <2>3, <1>2, Zenon DEF SelfContained
    <3> QED BY <2>3, <3>1, <1>5, Zenon DEF Guest!Successors, Side, Dest
  <2> QED BY <2>1, <2>2, <2>3, <1>5, Zenon
<1> HIDE DEF r, g
<1> QED BY <1>2, <1>3, <1>4, <1>6, <1>7, <1>8, Zenon DEF Guest!RunBlock

(* The loop returns exactly where the program stops. *)
LEMMA StopRuns ==
  ASSUME IInv, IInv', NEW t \in Threads, RunStop(t)
  PROVE  Guest!RunBlock(t)
<1> DEFINE r == block(t).rip
<1>1. /\ pc[t] = "run" /\ pc' = [pc EXCEPT ![t] = "done"]
      /\ UNCHANGED <<cache, ptr, current_rip>>
      /\ ptr[t] \in 1..Len(cache)
      /\ Term[r] = "stop" \/ (Term[r] = "dyn" /\ Sentinel \in Dyn[r])
  BY Zenon DEF RunStop, Goto, shared, IInv, ThreadsPointRight
<1>2. r \in Rips /\ guest_rip[t] = r /\ guest_status[t] = "running"
  BY <1>1, ViewRunning, Zenon
<1>3. guest_rip' = guest_rip
  BY <1>1, Zenon DEF guest_rip, IInv, Types
<1>4. guest_status' = [guest_status EXCEPT ![t] = "stopped"]
  BY <1>1, Zenon DEF guest_status, IInv, Types
<1>5. PICK f \in FlagsAtEnd(t) : WriteFlags(t, f) BY Zenon DEF RunStop
<1> DEFINE g == IF r \in SetsFlags THEN f ELSE flag[t]
<1>6. g \in Guest!FlagsAtEnd(r, flag[t])
  BY <1>5, Zenon DEF FlagsAtEnd, Guest!FlagsAtEnd
<1>7. flag' = [flag EXCEPT ![t] = g] BY <1>5, Zenon DEF WriteFlags, IInv, Types
<1>8. Guest!Ends(r) BY <1>1, Zenon DEF Guest!Ends
<1> HIDE DEF r, g
<1> QED BY <1>2, <1>3, <1>4, <1>6, <1>7, <1>8, Zenon DEF Guest!RunBlock

(* Every error path of the loop ends that thread, and changes nothing else *)
(* the guest can see.                                                      *)
LEMMA FailureAborts ==
  ASSUME IInv, NEW t \in Threads, LoopFails(t) \/ InstallFails(t)
  PROVE  Guest!Abort(t)
<1>1. /\ pc[t] \in {"lookup", "install"} /\ pc' = [pc EXCEPT ![t] = "error"]
      /\ UNCHANGED <<cache, ptr, current_rip, flag>>
  BY Zenon DEF LoopFails, InstallFails, Goto, shared, local
<1>2. guest_status[t] = "running" BY <1>1, Zenon DEF guest_status
<1>3. guest_rip' = guest_rip BY <1>1, Zenon DEF guest_rip, IInv, Types
<1>4. guest_status' = [guest_status EXCEPT ![t] = "aborted"]
  BY <1>1, Zenon DEF guest_status, IInv, Types
<1> QED BY <1>1, <1>2, <1>3, <1>4, Zenon DEF Guest!Abort

(* The translator and the loop run the guest program: for a program whose  *)
(* blocks do not leave flags to the next one, chaining, caching, patching  *)
(* and the interleaving of threads are invisible.  Without SelfContained   *)
(* it is false: the flags are lost on the way through the loop.            *)
THEOREM Refinement == SelfContained => (Spec => RunsTheProgram)
<1> SUFFICES ASSUME SelfContained PROVE Spec => RunsTheProgram BY Zenon
<1>1. Init => Guest!Init
  <2> SUFFICES ASSUME Init PROVE Guest!Init BY Zenon
  <2>1. guest_rip \in [Threads -> Rips]
    BY ProgramAssumption, Zenon DEF Init, guest_rip
  <2>2. guest_status = [t \in Threads |-> "running"] BY Zenon DEF Init, guest_status
  <2>3. flag \in [Threads -> BOOLEAN] BY Zenon DEF Init
  <2> QED BY <2>1, <2>2, <2>3, Zenon DEF Guest!Init
<1>2. IInv /\ IInv' /\ [Next]_vars => [Guest!Next]_(Guest!vars)
  <2> SUFFICES ASSUME IInv, IInv', [Next]_vars PROVE [Guest!Next]_(Guest!vars)
    BY Zenon
  <2>1. CASE UNCHANGED vars
    BY <2>1, Zenon DEF vars, guest_rip, guest_status, Guest!vars
  <2>2. ASSUME NEW t \in Threads, Step(t) PROVE [Guest!Next]_(Guest!vars)
    <3>1. CASE LookupHits(t) \/ LookupMisses(t) \/ Install(t) \/ PatchChain(t) \/ Enter(t)
      BY <3>1, LoopInvisible, Zenon DEF Guest!vars
    <3>2. CASE RunHot(t) \/ RunCold(t) \/ RunDynamic(t)
      BY <3>2, BlockRuns, Zenon DEF Guest!Next
    <3>3. CASE RunStop(t) BY <3>3, StopRuns, Zenon DEF Guest!Next
    <3>4. CASE LoopFails(t) \/ InstallFails(t)
      BY <3>4, FailureAborts, Zenon DEF Guest!Next
    <3> QED BY <2>2, <3>1, <3>2, <3>3, <3>4, Zenon DEF Step
  <2> QED BY <2>1, <2>2, Zenon DEF Next
<1> QED BY <1>1, <1>2, Invariance, PTL DEF Spec, RunsTheProgram, Guest!Spec
=============================================================================
