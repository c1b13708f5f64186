------------------------------- MODULE Search -------------------------------
(***************************************************************************)
(* The searches of BoundsSystem (include/entttree/bounding_hierarchy.h):   *)
(* dfs below a root, over children with their transforms and bounds, that  *)
(* does not go where the box is out of the way of a point or a ray.        *)
(*                                                                         *)
(* The generators of map_nodes, augment_with_transforms and exclude_if are *)
(* one chain per level: it reads a child, which recomputes its box if that *)
(* is dirty, keeps a copy of all it has read, and goes on until a child is *)
(* admitted.  It has read that far ahead when the client is given a node;  *)
(* until it asks for the next the client may edit bounds and query.        *)
(*                                                                         *)
(* A point or a ray is the set of the points it touches.                   *)
(***************************************************************************)
EXTENDS Bounds

CONSTANTS
    Forests,        \* parents when the search begins
    Sought,         \* points and rays, in the space of the root
    MaxEdits        \* bound: edits by the client, over all

\* There are no cycles: every set of entities has one whose parent is outside.
ASSUME ForestsAssumption ==
    /\ Forests \subseteq [Entity -> Entity \cup {Null}]
    /\ \A f \in Forests, T \in SUBSET Entity \ {{}} : \E x \in T : f[x] \notin T
ASSUME EntitiesAssumption == IsFiniteSet(Entity)
ASSUME SoughtAssumption ==
    Sought \subseteq [kind : {"point", "ray"}, at : SUBSET Point]
ASSUME MaxEditsAssumption == MaxEdits \in Nat

VARIABLES
    search,         \* what is sought, below which root, in which order
    mode,           \* "none", "asked", "entering", "running", "given", "over"
    frames,         \* the stack of dfs
    found,          \* the nodes given to the client
    steady, ever,   \* nodes to be found: at all times, at some time of the search
    edits

searchVars == <<search, mode, frames, found, steady, ever, edits>>
allVars == <<parent, xf, intrinsic, dirty, computed, stack, searchVars>>

\* PointSearchNode and RaySearchNode: copies, made when the node was read.
Read == [node : Entity, at : SUBSET Point,
         intrinsic : SUBSET Point, computed : SUBSET Point]

NoItem == [node |-> Null]       \* the item of an exhausted generator

\* DfsEntry: a node with the generator of its successors, which has an item,
\* children to read, and is reading or at rest.
Frame == [read : Read, item : Read \cup {NoItem},
          unread : Seq(Entity), reading : BOOLEAN]

-----------------------------------------------------------------------------
(* Nodes that a search reads *)

Touches(box, at) == box \cap at # {}

KeepsSpace(c, at) == at                                         \* mutant

\* What is sought, in the space of c: p / node_to_root.
InChild(c, at) ==
    IF xf[c] = NoXf THEN at ELSE {q \in Point : Apply(xf[c], q) \in at}

\* The copy made of a node whose box is not dirty.
Reading(c, at) ==
    [node |-> c, at |-> at, intrinsic |-> intrinsic[c], computed |-> computed[c]]

OwnOnly(r) == Touches(r.intrinsic, r.at)                        \* mutant

\* The filters of traverse_under_point and traverse_along_ray.
Admits(r) == r.computed = {} \/ Touches(r.computed, r.at)

AnyAdmitted(r) == TRUE                                          \* mutant

\* The filters of search_under_point and search_along_ray.
Gives(r) == search.kind = "point" => Touches(r.intrinsic, r.at)

-----------------------------------------------------------------------------
(* What should be found *)

Below(root) ==
    {e \in Entity :
        \A S \in SUBSET Entity :
            e \in S /\ (\A s \in S : parent[s] \in S \cup {Null}) => root \in S}

\* What is sought, in the space of each node below the root.
Located(s) ==
    LET at[e \in Below(s.root)] ==
            IF e = s.root THEN s.at ELSE InChild(e, at[parent[e]])
    IN  at

\* The nodes a search is for: under a point those whose own bounds hold it,
\* along a ray those whose subtree it hits.
Wanted(s) ==
    {e \in Below(s.root) :
        Touches(IF s.kind = "point" THEN intrinsic[e] ELSE SubtreeBox[e],
                Located(s)[e])}

\* Those it may give besides: search_along_ray gives nodes without any bounds.
Tolerated(s) ==
    {e \in Below(s.root) : s.kind = "ray" /\ SubtreeBox[e] = {}}

-----------------------------------------------------------------------------
(* Operations of the client *)

NoSearch == [kind |-> "none"]

\* A forest that has just been built: nobody has asked for any bounds.
SearchInit ==
    /\ parent \in Forests
    /\ xf \in [Entity -> Xf \cup {NoXf}]
    /\ intrinsic \in [Entity -> Box \cup {{}}]
    /\ dirty = {e \in Entity : intrinsic[e] # {} \/ Children(e) # {}}
    /\ computed = [e \in Entity |-> {}]
    /\ stack = <<>>
    /\ search = NoSearch
    /\ mode = "none"
    /\ frames = <<>>
    /\ found = {}
    /\ steady = {}
    /\ ever = {}
    /\ edits = 0

\* The client has the control: it is not inside a search.
Free == Idle /\ mode \in {"none", "given"}

Edit(e) ==
    /\ Free
    /\ edits < MaxEdits
    /\ edits' = edits + 1
    /\ \/ \E b \in Box : SetIntrinsic(e, b)
       \/ RemoveIntrinsic(e)
       \/ mode = "none" /\ \E x \in Xf \cup {NoXf} : EditTransform(e, x)
    /\ UNCHANGED <<search, mode, frames, found>>
    /\ IF mode = "none"
       THEN UNCHANGED <<steady, ever>>
       ELSE /\ steady' = steady \cap Wanted(search)'
            /\ ever' = ever \cup (Wanted(search) \cup Tolerated(search))'

ClientQuery(e) == Free /\ Query(e) /\ UNCHANGED searchVars

\* search_under_point or search_along_ray is called.
Begin(root, s, order) ==
    /\ mode = "none" /\ Idle
    /\ search' = [kind |-> s.kind, at |-> s.at, root |-> root, order |-> order]
    /\ mode' = "asked"
    /\ steady' = Wanted(search')
    /\ ever' = Wanted(search') \cup Tolerated(search')
    /\ UNCHANGED <<vars, frames, found, edits>>

\* The client asks for the next node.
Resume ==
    /\ mode = "given" /\ Idle
    /\ mode' = "running"
    /\ UNCHANGED <<vars, search, frames, found, steady, ever, edits>>

-----------------------------------------------------------------------------
(* The search *)

\* A recomputation for the search or for the client.
Recompute == Recomputation /\ UNCHANGED searchVars

OfTheRoot(r) ==                                                 \* mutant
    {[read |-> r, item |-> NoItem, unread |-> s, reading |-> TRUE] :
        s \in SetToSeqs(Children(search.root))}

\* A generator of the children of r is made and starts to read.
\* (The order of siblings does not matter: any is tried.)
Entered(r) ==
    {[read |-> r, item |-> NoItem, unread |-> s, reading |-> TRUE] :
        s \in SetToSeqs(Children(r.node))}

\* The root is read and, if the filter admits it, dfs begins with it.
ReadRoot ==
    /\ mode = "asked" /\ Idle
    /\ LET r == Reading(search.root, search.at)
       IN  IF search.root \in dirty
           THEN stack' = <<Called(search.root)>> /\ UNCHANGED <<mode, frames>>
           ELSE /\ UNCHANGED stack
                /\ IF Admits(r)
                   THEN \E f \in Entered(r) : frames' = <<f>> /\ mode' = "entering"
                   ELSE mode' = "over" /\ UNCHANGED frames
    /\ UNCHANGED <<parent, xf, intrinsic, dirty, computed,
                   search, found, steady, ever, edits>>

\* The generator that reads: an outer one reads on before an inner one starts.
AtWork == {i \in DOMAIN frames :
              frames[i].reading /\ \A j \in 1 .. i - 1 : ~frames[j].reading}

\* It reads one child, and is at rest if that one is admitted.
ReadChild ==
    /\ Idle
    /\ \E i \in AtWork :
          /\ frames[i].unread # <<>>
          /\ LET f == frames[i]
                 c == Head(f.unread)
                 r == Reading(c, InChild(c, f.read.at))
             IN  IF c \in dirty
                 THEN stack' = <<Called(c)>> /\ UNCHANGED frames
                 ELSE /\ frames' = [frames EXCEPT ![i] =
                             [f EXCEPT !.unread = Tail(@),
                                       !.item = IF Admits(r) THEN r ELSE NoItem,
                                       !.reading = ~Admits(r)]]
                      /\ UNCHANGED stack
    /\ UNCHANGED <<parent, xf, intrinsic, dirty, computed,
                   search, mode, found, steady, ever, edits>>

\* It has no child left to read.
Exhaust ==
    /\ Idle
    /\ \E i \in AtWork :
          /\ frames[i].unread = <<>>
          /\ frames' = [frames EXCEPT ![i].reading = FALSE]
    /\ UNCHANGED <<vars, search, mode, found, steady, ever, edits>>

AllRead == Idle /\ frames # <<>> /\ AtWork = {}

\* co_yield, if the filter of the search lets the node through.
Yield(r) ==
    IF Gives(r)
    THEN mode' = "given" /\ found' = found \cup {r.node}
    ELSE mode' = "running" /\ UNCHANGED found

\* dfs has come to a node: parents first, it is given now.
Visit ==
    /\ mode = "entering"
    /\ AllRead
    /\ IF search.order = "ShallowFirst"
       THEN Yield(Last(frames).read)
       ELSE mode' = "running" /\ UNCHANGED found
    /\ UNCHANGED <<vars, search, frames, steady, ever, edits>>

NotAdvanced(f) == f                                             \* mutant

\* ++entry.successors
Advanced(f) == [f EXCEPT !.item = NoItem, !.reading = TRUE]

\* dfs takes the next child: the generator it came from reads on, then the
\* generator of the child's own children starts.
Descend ==
    /\ mode = "running"
    /\ AllRead
    /\ Last(frames).item # NoItem
    /\ \E f \in Entered(Last(frames).item) :
          frames' = Front(frames) \o <<Advanced(Last(frames)), f>>
    /\ mode' = "entering"
    /\ UNCHANGED <<vars, search, found, steady, ever, edits>>

\* dfs is through with the children: children first, the node is given now.
Ascend ==
    /\ mode = "running"
    /\ AllRead
    /\ Last(frames).item = NoItem
    /\ frames' = Front(frames)
    /\ IF search.order = "DeepFirst"
       THEN Yield(Last(frames).read)
       ELSE UNCHANGED <<mode, found>>
    /\ UNCHANGED <<vars, search, steady, ever, edits>>

End ==
    /\ mode = "running" /\ Idle
    /\ frames = <<>>
    /\ mode' = "over"
    /\ UNCHANGED <<vars, search, frames, found, steady, ever, edits>>

Run == ReadRoot \/ ReadChild \/ Exhaust \/ Visit \/ Descend \/ Ascend \/ End

SearchNext ==
    \/ Recompute
    \/ Run
    \/ Resume
    \/ \E e \in Entity :
          \/ Edit(e)
          \/ ClientQuery(e)
          \/ \E s \in Sought, o \in {"ShallowFirst", "DeepFirst"} : Begin(e, s, o)

\* One thread: a recomputation and a search that runs go on.
SearchSpec ==
    /\ SearchInit /\ [][SearchNext]_allVars
    /\ WF_allVars(Recompute) /\ WF_allVars(Run)

-----------------------------------------------------------------------------
(* Properties *)

\* The frames of dfs lie below one another in the hierarchy, and of their
\* generators at most the two innermost are reading.
SearchTypeOK ==
    /\ TypeOK
    /\ mode \in {"none", "asked", "entering", "running", "given", "over"}
    /\ frames \in Seq(Frame)
    /\ {found, steady, ever} \subseteq SUBSET Entity
    /\ edits \in 0 .. MaxEdits
    /\ \A i \in DOMAIN frames :
          /\ i > 1 => parent[frames[i].read.node] = frames[i - 1].read.node
          /\ frames[i].reading => mode \in {"entering", "running"}
                                  /\ i \in {Len(frames) - 1, Len(frames)}

\* A search misses no node that was there to be found all the time, although
\* boxes were dirty when it began, and bounds were edited behind and before it
\* and recomputed in part: bounding_hierarchy.h:242-248, 305-310.
FindsAll == mode = "over" => steady \subseteq found

\* It gives no node that at no time was to be found.
FindsOnly == found \subseteq ever

\* A client that always asks again comes to the end of the search: dfs comes
\* back to no node, and every recomputation on its way ends.
SearchesEnd == []<>(mode # "given") => (mode = "asked" ~> mode = "over")

=============================================================================
