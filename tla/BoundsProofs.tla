---------------------------- MODULE BoundsProofs ----------------------------
(***************************************************************************)
(* Proofs about BoundsSystem, for any number of entities, any set of       *)
(* points and any boxes and transforms that satisfy the assumptions of     *)
(* Bounds; then about BoundsSystem among other listeners (Reentry):        *)
(* however deep handlers nest their edits and queries, the marks and boxes *)
(* are right when the outermost operation has returned.                    *)
(***************************************************************************)
EXTENDS Reentry, ListLemmas

-----------------------------------------------------------------------------
(* The inductive invariant *)

UpClosed(S) == \A s \in S : parent[s] \in S \cup {Null}

\* Every entity has an up-closed set that holds its ancestors and not itself.
Rooted ==
    \A e \in Entity : \E S \in SUBSET Entity :
        UpClosed(S) /\ parent[e] \in S \cup {Null} /\ e \notin S

\* Intrinsic bounds are boxes, or none.
IntrinsicIsBox == \A e \in Entity : Hull(intrinsic[e]) = intrinsic[e]

\* The box around the intrinsic bounds of e and the boxes of some children, as
\* a cache tells them.
BoxOver(cache, e, some) ==
    Hull(intrinsic[e] \cup UNION {InParent(c, cache[c]) : c \in some})

\* A call works on a dirty entity; the children it is done with are clean, and
\* its box is the box over them.
OnTrack(call) ==
    /\ call.node \in dirty
    /\ call.todo \subseteq Children(call.node)
    /\ (Children(call.node) \ call.todo) \cap dirty = {}
    /\ call.box = BoxOver(computed, call.node,
                          Children(call.node) \ call.todo)

CallsOnTrack == \A i \in 1 .. Len(stack) : OnTrack(stack[i])

\* Each call was made for a child that its caller is not done with, and no two
\* calls work on one entity.
CallsDescend ==
    /\ \A i \in 1 .. Len(stack) - 1 : stack[i + 1].node \in stack[i].todo
    /\ \A i, j \in 1 .. Len(stack) : i # j => stack[i].node # stack[j].node

\* No call works on an ancestor of the entity the query asked for.
CallsBelowQuery ==
    \E S \in SUBSET Entity :
        /\ UpClosed(S)
        /\ stack # <<>> => parent[stack[1].node] \in S \cup {Null}
        /\ \A i \in 1 .. Len(stack) : stack[i].node \notin S

Cached == DirtyUpToTheRoot /\ CleanFitsChildren

Calls == CallsOnTrack /\ CallsDescend /\ CallsBelowQuery

IInv == TypeOK /\ Rooted /\ IntrinsicIsBox /\ Cached /\ Calls

-----------------------------------------------------------------------------
(* Boxes *)

\* Boxes stay sets of points in the space of the parent.
LEMMA InParentType ==
    ASSUME TypeOK, NEW c \in Entity, NEW b \in SUBSET Point
    PROVE  InParent(c, b) \in SUBSET Point
<1>1. xf[c] \in Xf \cup {NoXf}
  BY DEF TypeOK
<1>2. CASE xf[c] = NoXf
  BY <1>2 DEF InParent
<1>3. CASE xf[c] \in Xf
  <2>1. {Apply(xf[c], q) : q \in b} \in SUBSET Point
    BY <1>3, XfAssumption
  <2>2. xf[c] # NoXf
    BY <1>3, XfAssumption
  <2> QED  BY <2>1, <2>2, HullAssumption DEF InParent
<1> QED  BY <1>1, <1>2, <1>3

\* So do the boxes of several children together.
LEMMA UnionType ==
    ASSUME TypeOK, NEW cache \in [Entity -> SUBSET Point],
           NEW some \in SUBSET Entity
    PROVE  UNION {InParent(c, cache[c]) : c \in some} \in SUBSET Point
<1>1. ASSUME NEW c \in some
      PROVE  InParent(c, cache[c]) \in SUBSET Point
  <2>1. c \in Entity /\ cache[c] \in SUBSET Point
    OBVIOUS
  <2> QED  BY <2>1, InParentType
<1> QED  BY <1>1

\* Taking one more child into account.
LEMMA BoxOverOneMore ==
    ASSUME TypeOK, NEW cache \in [Entity -> SUBSET Point],
           NEW e \in Entity, NEW some \in SUBSET Entity, NEW c \in Entity
    PROVE  Hull(BoxOver(cache, e, some) \cup InParent(c, cache[c])) =
               BoxOver(cache, e, some \cup {c})
<1> DEFINE S == intrinsic[e] \cup UNION {InParent(k, cache[k]) : k \in some}
           T == InParent(c, cache[c])
<1>1. S \in SUBSET Point
  BY UnionType DEF TypeOK
<1>2. T \in SUBSET Point
  BY InParentType
<1>3. Hull(Hull(S) \cup T) = Hull(S \cup T)
  <2> HIDE DEF S, T
  <2> QED  BY <1>1, <1>2, HullAssumption
<1>4. S \cup T = intrinsic[e] \cup
                     UNION {InParent(k, cache[k]) : k \in some \cup {c}}
  OBVIOUS
<1> QED  BY <1>3, <1>4 DEF BoxOver

-----------------------------------------------------------------------------
(* Stacks *)

\* What the loop does to the call at the top and to the others.
LEMMA SeenProperties ==
    ASSUME NEW calls \in Seq(Call), calls # <<>>, NEW c \in Entity,
           NEW b, Hull(calls[Len(calls)].box \cup InParent(c, b)) \in SUBSET Point
    PROVE  /\ Seen(calls, c, b) \in Seq(Call)
           /\ Len(Seen(calls, c, b)) = Len(calls)
           /\ \A i \in 1 .. Len(calls) - 1 : Seen(calls, c, b)[i] = calls[i]
           /\ Seen(calls, c, b)[Len(calls)] =
                 [node |-> calls[Len(calls)].node,
                  todo |-> calls[Len(calls)].todo \ {c},
                  box |-> Hull(calls[Len(calls)].box \cup InParent(c, b))]
<1> DEFINE n == Len(calls)
           top == [node |-> calls[n].node, todo |-> calls[n].todo \ {c},
                   box |-> Hull(calls[n].box \cup InParent(c, b))]
<1>1. n \in 1 .. Len(calls)
  BY EmptySeq
<1>2. calls[n] \in Call
  BY <1>1, ElementOfSeq
<1>3. Seen(calls, c, b) = [calls EXCEPT ![n] = top]
  BY <1>1 DEF Seen
<1>4. top \in Call
  BY <1>2 DEF Call
<1> HIDE DEF top
<1>5. /\ [calls EXCEPT ![n] = top] \in Seq(Call)
      /\ Len([calls EXCEPT ![n] = top]) = Len(calls)
  BY <1>1, <1>4, ExceptSeq
<1>6. \A i \in 1 .. n - 1 : [calls EXCEPT ![n] = top][i] = calls[i]
  BY <1>1
<1>7. [calls EXCEPT ![n] = top][n] = top
  BY <1>1
<1> QED  BY <1>3, <1>5, <1>6, <1>7 DEF top

\* The top is a call, and so is a call that has just begun.
LEMMA TopType ==
    ASSUME TypeOK, ~Idle
    PROVE  /\ Len(stack) \in Nat \ {0} /\ Top = stack[Len(stack)]
           /\ Top \in Call
<1>1. Len(stack) \in Nat \ {0} /\ stack \in Seq(Call)
  BY EmptySeq DEF TypeOK, Idle
<1>2. stack[Len(stack)] \in Call
  BY <1>1, ElementOfSeq
<1> QED  BY <1>1, <1>2 DEF Top, Last

LEMMA CalledType ==
    ASSUME TypeOK, NEW e \in Entity
    PROVE  Called(e) \in Call
BY DEF TypeOK, Called, Call, Children

-----------------------------------------------------------------------------
(* Types *)

\* Marks are put on entities.
LEMMA MarkedType == \A par, D, e : Marked(par, D, e) \in SUBSET Entity
BY DEF Marked

\* Hulls of boxes with boxes are sets of points.
LEMMA SeenBoxType ==
    ASSUME TypeOK, NEW call \in Call, NEW c \in Entity, NEW b \in SUBSET Point
    PROVE  Hull(call.box \cup InParent(c, b)) \in SUBSET Point
<1>1. InParent(c, b) \in SUBSET Point
  BY InParentType
<1>2. call.box \cup InParent(c, b) \in SUBSET Point
  BY <1>1 DEF Call
<1> QED  BY <1>2, HullAssumption

\* Steps keep the types, and intrinsic bounds boxes.
LEMMA TypeStep ==
    ASSUME TypeOK, IntrinsicIsBox, [Next]_vars
    PROVE  TypeOK' /\ IntrinsicIsBox'
<1>0. CASE UNCHANGED vars
  BY <1>0 DEF vars, TypeOK, IntrinsicIsBox
<1>1. ASSUME NEW e \in Entity, NEW b \in Box, SetIntrinsic(e, b)
      PROVE  TypeOK' /\ IntrinsicIsBox'
  <2>1. b \in SUBSET Point /\ Hull(b) = b
    BY BoxAssumption
  <2> QED  BY <1>1, <2>1, MarkedType DEF SetIntrinsic, TypeOK, IntrinsicIsBox
<1>2. ASSUME NEW e \in Entity, RemoveIntrinsic(e)
      PROVE  TypeOK' /\ IntrinsicIsBox'
  <2>1. Hull({}) = {}
    BY HullAssumption
  <2>2. dirty' \in SUBSET Entity
    BY <1>2, MarkedType DEF RemoveIntrinsic, TypeOK
  <2>3. computed' \in [Entity -> SUBSET Point]
    BY <1>2 DEF RemoveIntrinsic, TypeOK
  <2> QED  BY <1>2, <2>1, <2>2, <2>3 DEF RemoveIntrinsic, TypeOK, IntrinsicIsBox
<1>3. ASSUME NEW e \in Entity, NEW x \in Xf \cup {NoXf}, EditTransform(e, x)
      PROVE  TypeOK' /\ IntrinsicIsBox'
  <2>1. dirty' \in SUBSET Entity
    BY <1>3, MarkedType DEF EditTransform, MarkParent, TypeOK
  <2> QED  BY <1>3, <2>1 DEF EditTransform, TypeOK, IntrinsicIsBox
<1>4. ASSUME NEW c \in Entity, NEW p \in Entity, Add(c, p)
      PROVE  TypeOK' /\ IntrinsicIsBox'
  BY <1>4, MarkedType DEF Add, TypeOK, IntrinsicIsBox
<1>5. ASSUME NEW c \in Entity, NEW p \in Entity, Reparent(c, p)
      PROVE  TypeOK' /\ IntrinsicIsBox'
  BY <1>5, MarkedType DEF Reparent, TypeOK, IntrinsicIsBox
<1>6. ASSUME NEW c \in Entity, Unparent(c)
      PROVE  TypeOK' /\ IntrinsicIsBox'
  <2>1. dirty' \in SUBSET Entity
    BY <1>6, MarkedType DEF Unparent, OnChildRemoved
  <2> QED  BY <1>6, <2>1 DEF Unparent, TypeOK, IntrinsicIsBox
<1>7. ASSUME NEW e \in Entity, Query(e)
      PROVE  TypeOK' /\ IntrinsicIsBox'
  <2>1. stack' \in Seq(Call)
    BY <1>7, CalledType DEF Query
  <2> QED  BY <1>7, <2>1 DEF Query, TypeOK, IntrinsicIsBox
<1>8. ASSUME NEW c \in Entity, VisitDirty(c)
      PROVE  TypeOK' /\ IntrinsicIsBox'
  <2>1. stack' \in Seq(Call)
    BY <1>8, CalledType DEF VisitDirty, TypeOK
  <2> QED  BY <1>8, <2>1 DEF VisitDirty, TypeOK, IntrinsicIsBox
<1>9. ASSUME NEW c \in Entity, VisitClean(c)
      PROVE  TypeOK' /\ IntrinsicIsBox'
  <2>1. /\ stack \in Seq(Call) /\ stack # <<>> /\ computed[c] \in SUBSET Point
        /\ stack[Len(stack)] \in Call
    BY <1>9, TopType DEF VisitClean, Idle, TypeOK
  <2>2. Hull(stack[Len(stack)].box \cup InParent(c, computed[c])) \in SUBSET Point
    BY <2>1, SeenBoxType
  <2>3. Seen(stack, c, computed[c]) \in Seq(Call)
    BY <2>1, <2>2, SeenProperties
  <2> QED  BY <1>9, <2>3 DEF VisitClean, TypeOK, IntrinsicIsBox
<1>10. ASSUME Return
       PROVE  TypeOK' /\ IntrinsicIsBox'
  <2>1. Top.node \in Entity /\ Top.box \in SUBSET Point
    BY <1>10, TopType DEF Return, Call
  <2>2. stack' \in Seq(Call)
    <3>1. CASE Len(stack) = 1
      BY <1>10, <3>1 DEF Return
    <3>2. CASE Len(stack) # 1
      <4> DEFINE calls == Front(stack)
      <4>1. stack \in Seq(Call) /\ stack # <<>> /\ Len(stack) \in Nat \ {0, 1}
        BY <1>10, <3>2, TopType DEF Return, Idle, TypeOK
      <4>2. calls \in Seq(Call) /\ Len(calls) = Len(stack) - 1
        BY <4>1, FrontProperties
      <4> HIDE DEF calls
      <4>3. Len(calls) \in 1 .. Len(calls) /\ calls # <<>>
        BY <4>1, <4>2
      <4>4. calls[Len(calls)] \in Call
        BY <4>2, <4>3, ElementOfSeq
      <4>5. Hull(calls[Len(calls)].box \cup InParent(Top.node, Top.box))
              \in SUBSET Point
        BY <2>1, <4>4, SeenBoxType
      <4>6. Seen(calls, Top.node, Top.box) \in Seq(Call)
        BY <2>1, <4>2, <4>3, <4>5, SeenProperties
      <4> QED  BY <1>10, <3>2, <4>6 DEF Return, calls
    <3> QED  BY <3>1, <3>2
  <2> QED  BY <1>10, <2>1, <2>2 DEF Return, TypeOK, IntrinsicIsBox
<1> QED  BY <1>0, <1>1, <1>2, <1>3, <1>4, <1>5, <1>6, <1>7, <1>8, <1>9, <1>10
         DEF Next, Recomputation

-----------------------------------------------------------------------------
(* No cycles *)

\* Adding c below p keeps the hierarchy without cycles, if p does not climb
\* to c.
LEMMA RootedBelow ==
    ASSUME TypeOK, Rooted, NEW c \in Entity, NEW p \in Entity, MayAdopt(c, p),
           parent' = [parent EXCEPT ![c] = p]
    PROVE  Rooted'
<1>1. PICK A \in SUBSET Entity : p \in A /\ c \notin A /\ UpClosed(A)
  BY DEF MayAdopt, UpClosed
<1>2. /\ \A e \in Entity \ {c} : parent'[e] = parent[e]
      /\ parent'[c] = p
  BY DEF TypeOK
<1>3. SUFFICES ASSUME NEW e \in Entity
               PROVE  \E S \in SUBSET Entity :
                         /\ \A s \in S : parent'[s] \in S \cup {Null}
                         /\ parent'[e] \in S \cup {Null} /\ e \notin S
  BY DEF Rooted, UpClosed
<1>4. PICK B \in SUBSET Entity :
         UpClosed(B) /\ parent[e] \in B \cup {Null} /\ e \notin B
  BY DEF Rooted
<1>5. CASE e = c
  BY <1>1, <1>2, <1>5 DEF UpClosed
<1>6. CASE e # c /\ e \in A
  <2>1. \A s \in A \cap B : parent'[s] \in (A \cap B) \cup {Null}
    BY <1>1, <1>2, <1>4 DEF UpClosed
  <2>2. parent'[e] \in (A \cap B) \cup {Null} /\ e \notin A \cap B
    BY <1>1, <1>2, <1>4, <1>6 DEF UpClosed
  <2> QED  BY <2>1, <2>2
<1>7. CASE e # c /\ e \notin A
  <2>1. \A s \in A \cup B : parent'[s] \in (A \cup B) \cup {Null}
    BY <1>1, <1>2, <1>4 DEF UpClosed
  <2>2. parent'[e] \in (A \cup B) \cup {Null} /\ e \notin A \cup B
    BY <1>2, <1>4, <1>7
  <2> QED  BY <2>1, <2>2
<1> QED  BY <1>5, <1>6, <1>7

\* Steps keep the hierarchy without cycles.
LEMMA RootedStep ==
    ASSUME TypeOK, Rooted, [Next]_vars
    PROVE  Rooted'
<1>1. CASE UNCHANGED parent
  BY <1>1 DEF Rooted, UpClosed
<1>2. ASSUME NEW c \in Entity, NEW p \in Entity, Add(c, p) \/ Reparent(c, p)
      PROVE  Rooted'
  BY <1>2, RootedBelow DEF Add, Reparent
<1>3. ASSUME NEW c \in Entity, Unparent(c)
      PROVE  Rooted'
  <2>1. \A e \in Entity : parent'[e] \in {parent[e], Null}
    BY <1>3 DEF Unparent, TypeOK
  <2> QED  BY <2>1 DEF Rooted, UpClosed
<1> QED  BY <1>1, <1>2, <1>3
         DEF Next, Recomputation, vars, SetIntrinsic, RemoveIntrinsic,
             EditTransform, Query, VisitDirty, VisitClean, Return

-----------------------------------------------------------------------------
(* Marking *)

\* The walk marks the entity it starts from, and with every entity it marks
\* also the parent.
LEMMA MarkedProperties ==
    ASSUME NEW par \in [Entity -> Entity \cup {Null}],
           NEW D \in SUBSET Entity, NEW e \in Entity
    PROVE  /\ D \cup {e} \subseteq Marked(par, D, e)
           /\ \A a \in Marked(par, D, e) \ D :
                 par[a] # Null => par[a] \in Marked(par, D, e)
BY DEF Marked

\* So if all is dirty above what was dirty before, all is dirty above what is
\* dirty after it.
LEMMA MarkedUpward ==
    ASSUME NEW par \in [Entity -> Entity \cup {Null}],
           NEW D \in SUBSET Entity, NEW e \in Entity,
           \A d \in D : par[d] # Null => par[d] \in Marked(par, D, e)
    PROVE  \A a \in Marked(par, D, e) :
              par[a] # Null => par[a] \in Marked(par, D, e)
BY MarkedProperties

-----------------------------------------------------------------------------
(* The cache *)

\* What an entity's box depends on: edits elsewhere do not change it.
LEMMA BoxOverChildrenSame ==
    ASSUME NEW e \in Entity, Children(e)' = Children(e),
           intrinsic'[e] = intrinsic[e],
           \A c \in Children(e) : computed'[c] = computed[c] /\ xf'[c] = xf[c]
    PROVE  BoxOverChildren(e)' = BoxOverChildren(e)
<1>1. \A c \in Children(e) : InParent(c, computed[c])' = InParent(c, computed[c])
  BY DEF InParent
<1>2. {InParent(c, computed[c]) : c \in Children(e)}' =
          {InParent(c, computed[c]) : c \in Children(e)}
  BY <1>1
<1> QED  BY <1>2 DEF BoxOverChildren

\* Edits of intrinsic bounds keep the cache right.
LEMMA CachedSetIntrinsic ==
    ASSUME TypeOK, Cached, NEW e \in Entity, NEW b, SetIntrinsic(e, b)
    PROVE  Cached'
<1>1. /\ dirty \cup {e} \subseteq dirty' /\ UNCHANGED <<parent, xf, computed>>
      /\ \A k \in Entity \ {e} : intrinsic'[k] = intrinsic[k]
  BY MarkedProperties DEF SetIntrinsic, TypeOK
<1>2. DirtyUpToTheRoot'
  <2>1. \A d \in dirty : parent[d] # Null => parent[d] \in dirty
    BY DEF Cached, DirtyUpToTheRoot
  <2>2. dirty \cup {e} \subseteq Marked(parent, dirty, e)
    BY MarkedProperties DEF TypeOK
  <2>3. \A a \in Marked(parent, dirty, e) :
           parent[a] # Null => parent[a] \in Marked(parent, dirty, e)
    BY <2>1, <2>2, MarkedUpward DEF TypeOK
  <2> QED  BY <2>3 DEF SetIntrinsic, DirtyUpToTheRoot
<1>3. ASSUME NEW k \in Entity, k \notin dirty'
      PROVE  computed'[k] = BoxOverChildren(k)'
  <2>1. k # e /\ k \notin dirty
    BY <1>1, <1>3
  <2>2. Children(k)' = Children(k)
    BY <1>1 DEF Children
  <2>3. BoxOverChildren(k)' = BoxOverChildren(k)
    BY <1>1, <2>1, <2>2, BoxOverChildrenSame
  <2> QED  BY <1>1, <2>1, <2>3 DEF Cached, CleanFitsChildren
<1> QED  BY <1>2, <1>3 DEF Cached, CleanFitsChildren

\* Dropping intrinsic bounds keeps it right, whether or not the entity is
\* forgotten.
LEMMA CachedRemoveIntrinsic ==
    ASSUME TypeOK, Cached, NEW e \in Entity, RemoveIntrinsic(e)
    PROVE  Cached'
<1>1. /\ UNCHANGED <<parent, xf>> /\ intrinsic'[e] = {}
      /\ \A k \in Entity \ {e} : intrinsic'[k] = intrinsic[k]
  BY DEF RemoveIntrinsic, TypeOK
<1>2. ASSUME NEW k \in Entity
      PROVE  Children(k)' = Children(k)
  BY <1>1 DEF Children
<1>3. CASE parent[e] = Null /\ Children(e) = {}
  <2>1. /\ dirty' = dirty \ {e} /\ computed'[e] = {}
        /\ \A k \in Entity \ {e} : computed'[k] = computed[k]
    BY <1>3 DEF RemoveIntrinsic, TypeOK
  <2>2. DirtyUpToTheRoot'
    BY <1>1, <1>3, <2>1 DEF Cached, DirtyUpToTheRoot, Children, TypeOK
  <2>3. computed'[e] = BoxOverChildren(e)'
    <3>1. BoxOverChildren(e)' = Hull({})
      BY <1>1, <1>2, <1>3 DEF BoxOverChildren
    <3> QED  BY <2>1, <3>1, HullAssumption
  <2>4. ASSUME NEW k \in Entity \ {e}, k \notin dirty'
        PROVE  computed'[k] = BoxOverChildren(k)'
    <3>1. e \notin Children(k)
      BY <1>3, EntityAssumption DEF Children
    <3>2. \A c \in Children(k) : computed'[c] = computed[c] /\ xf'[c] = xf[c]
      BY <1>1, <2>1, <3>1 DEF Children
    <3>3. BoxOverChildren(k)' = BoxOverChildren(k)
      BY <1>1, <1>2, <3>2, BoxOverChildrenSame
    <3> QED  BY <2>1, <2>4, <3>3 DEF Cached, CleanFitsChildren
  <2> QED  BY <2>2, <2>3, <2>4 DEF Cached, CleanFitsChildren
<1>4. CASE ~(parent[e] = Null /\ Children(e) = {})
  <2>1. dirty' = Marked(parent, dirty, e) /\ UNCHANGED computed
    BY <1>4 DEF RemoveIntrinsic
  <2>2. dirty \cup {e} \subseteq Marked(parent, dirty, e)
    BY MarkedProperties DEF TypeOK
  <2>3. DirtyUpToTheRoot'
    <3>1. \A d \in dirty : parent[d] # Null => parent[d] \in dirty
      BY DEF Cached, DirtyUpToTheRoot
    <3>2. \A a \in Marked(parent, dirty, e) :
             parent[a] # Null => parent[a] \in Marked(parent, dirty, e)
      BY <2>2, <3>1, MarkedUpward DEF TypeOK
    <3> QED  BY <1>1, <2>1, <3>2 DEF DirtyUpToTheRoot
  <2>4. ASSUME NEW k \in Entity, k \notin dirty'
        PROVE  computed'[k] = BoxOverChildren(k)'
    <3>1. k # e /\ k \notin dirty
      BY <2>1, <2>2, <2>4
    <3>2. BoxOverChildren(k)' = BoxOverChildren(k)
      BY <1>1, <1>2, <2>1, <3>1, BoxOverChildrenSame
    <3> QED  BY <2>1, <3>1, <3>2 DEF Cached, CleanFitsChildren
  <2> QED  BY <2>3, <2>4 DEF Cached, CleanFitsChildren
<1> QED  BY <1>3, <1>4

\* Edits of transforms keep the cache right.
LEMMA CachedEditTransform ==
    ASSUME TypeOK, Cached, NEW e \in Entity, NEW x, EditTransform(e, x)
    PROVE  Cached'
<1>1. /\ UNCHANGED <<parent, intrinsic, computed>>
      /\ \A k \in Entity \ {e} : xf'[k] = xf[k]
  BY DEF EditTransform, TypeOK
<1>2. /\ dirty \subseteq dirty'
      /\ parent[e] # Null => parent[e] \in dirty'
      /\ DirtyUpToTheRoot'
  <2>1. CASE parent[e] = Null
    BY <1>1, <2>1 DEF EditTransform, MarkParent, Cached, DirtyUpToTheRoot
  <2>2. CASE parent[e] # Null
    <3> DEFINE M == Marked(parent, dirty, parent[e])
    <3>1. parent[e] \in Entity /\ dirty' = M
      BY <2>2 DEF EditTransform, MarkParent, TypeOK
    <3>2. dirty \cup {parent[e]} \subseteq M
      BY <3>1, MarkedProperties DEF TypeOK
    <3>3. \A d \in dirty : parent[d] # Null => parent[d] \in M
      BY <3>2 DEF Cached, DirtyUpToTheRoot
    <3>4. \A a \in M : parent[a] # Null => parent[a] \in M
      BY <3>1, <3>3, MarkedUpward DEF TypeOK
    <3> QED  BY <1>1, <3>1, <3>2, <3>4 DEF DirtyUpToTheRoot
  <2> QED  BY <2>1, <2>2
<1>3. ASSUME NEW k \in Entity, k \notin dirty'
      PROVE  computed'[k] = BoxOverChildren(k)'
  <2>1. k \notin dirty /\ e \notin Children(k)
    BY <1>2, <1>3, EntityAssumption DEF Children
  <2>2. Children(k)' = Children(k)
    BY <1>1 DEF Children
  <2>3. \A c \in Children(k) : computed'[c] = computed[c] /\ xf'[c] = xf[c]
    BY <1>1, <2>1 DEF Children
  <2>4. BoxOverChildren(k)' = BoxOverChildren(k)
    BY <1>1, <2>2, <2>3, BoxOverChildrenSame
  <2> QED  BY <1>1, <2>1, <2>4 DEF Cached, CleanFitsChildren
<1> QED  BY <1>2, <1>3 DEF Cached, CleanFitsChildren

\* A new child, whatever its subtree's marks, keeps the cache right.
LEMMA CachedAdd ==
    ASSUME TypeOK, Cached, NEW c \in Entity, NEW p \in Entity, Add(c, p)
    PROVE  Cached'
<1>1. /\ UNCHANGED <<xf, intrinsic, computed>>
      /\ parent' \in [Entity -> Entity \cup {Null}]
      /\ parent[c] = Null /\ parent'[c] = p
      /\ \A k \in Entity \ {c} : parent'[k] = parent[k]
  BY DEF Add, TypeOK
<1>2. dirty' = Marked(parent', dirty, p) /\ dirty \in SUBSET Entity
  BY DEF Add, TypeOK
<1>3. dirty \cup {p} \subseteq dirty'
  BY <1>1, <1>2, MarkedProperties
<1>4. DirtyUpToTheRoot'
  <2>1. \A d \in dirty : parent'[d] # Null => parent'[d] \in dirty'
    BY <1>1, <1>2, <1>3 DEF Cached, DirtyUpToTheRoot
  <2>2. \A a \in dirty' : parent'[a] # Null => parent'[a] \in dirty'
    BY <1>1, <1>2, <2>1, MarkedUpward
  <2> QED  BY <2>2 DEF DirtyUpToTheRoot
<1>5. ASSUME NEW k \in Entity, k \notin dirty'
      PROVE  computed'[k] = BoxOverChildren(k)'
  <2>1. k \notin dirty /\ k # p
    BY <1>3, <1>5
  <2>2. Children(k)' = Children(k)
    BY <1>1, <2>1, EntityAssumption DEF Children
  <2>3. BoxOverChildren(k)' = BoxOverChildren(k)
    BY <1>1, <2>2, BoxOverChildrenSame
  <2> QED  BY <1>1, <2>1, <2>3 DEF Cached, CleanFitsChildren
<1> QED  BY <1>4, <1>5 DEF Cached, CleanFitsChildren

\* A move keeps it right, if the second walk cannot stop at a dirty child
\* below a clean parent.
LEMMA CachedReparent ==
    ASSUME TypeOK, Cached, NEW c \in Entity, NEW p \in Entity, Reparent(c, p),
           ~DirtyMoves
    PROVE  Cached'
<1> DEFINE old == parent[c]
           M1 == Marked(parent', dirty, old)
           M2 == Marked(parent', M1, c)
<1>1. /\ UNCHANGED <<xf, intrinsic, computed>>
      /\ parent' \in [Entity -> Entity \cup {Null}]
      /\ parent[c] \notin {Null, p} /\ parent'[c] = p
      /\ \A k \in Entity \ {c} : parent'[k] = parent[k]
  BY DEF Reparent, TypeOK
<1>2. /\ dirty' = M2 /\ old \in Entity /\ dirty \in SUBSET Entity
      /\ M1 \in SUBSET Entity
      /\ c \notin dirty \/ p \in dirty
  BY <1>1, MarkedType DEF Reparent, TypeOK
<1>3. /\ dirty \cup {old} \subseteq M1
      /\ \A a \in M1 \ dirty : parent'[a] # Null => parent'[a] \in M1
  BY <1>1, <1>2, MarkedProperties
<1>4. M1 \cup {c} \subseteq M2
  <2> HIDE DEF M1
  <2> QED  BY <1>1, <1>2, MarkedProperties
<1>5. \A a \in M1 : parent'[a] # Null => parent'[a] \in M2
  <2> HIDE DEF M1, M2, old
  <2> QED  BY <1>1, <1>2, <1>3, <1>4 DEF Cached, DirtyUpToTheRoot
<1>6. \A a \in M2 : parent'[a] # Null => parent'[a] \in M2
  <2> HIDE DEF M1
  <2> QED  BY <1>1, <1>2, <1>5, MarkedUpward
<1> HIDE DEF M1, M2
<1>7. dirty \cup {old, c, p} \subseteq dirty'
  BY <1>1, <1>2, <1>3, <1>4, <1>6, EntityAssumption
<1>8. ASSUME NEW k \in Entity, k \notin dirty'
      PROVE  computed'[k] = BoxOverChildren(k)'
  <2>1. k \notin dirty /\ k # p /\ k # parent[c]
    BY <1>7, <1>8
  <2>2. Children(k)' = Children(k)
    BY <1>1, <2>1 DEF Children
  <2>3. BoxOverChildren(k)' = BoxOverChildren(k)
    BY <1>1, <2>2, BoxOverChildrenSame
  <2> QED  BY <1>1, <2>1, <2>3 DEF Cached, CleanFitsChildren
<1> QED  BY <1>2, <1>6, <1>8 DEF Cached, CleanFitsChildren, DirtyUpToTheRoot

\* Cutting a child off keeps it right, if a leaf that loses its mark has no
\* outdated box.
LEMMA CachedUnparent ==
    ASSUME TypeOK, Rooted, Cached, NEW c \in Entity, Unparent(c), ~DirtyLeaves
    PROVE  Cached'
<1> DEFINE old == parent[c]
           M == Marked(parent', dirty, old)
<1>1. /\ UNCHANGED <<xf, intrinsic, computed>>
      /\ parent' \in [Entity -> Entity \cup {Null}]
      /\ old \in Entity /\ parent'[c] = Null
      /\ \A k \in Entity \ {c} : parent'[k] = parent[k]
      /\ dirty \in SUBSET Entity
  BY DEF Unparent, TypeOK
<1>2. old # c
  BY <1>1, EntityAssumption DEF Rooted, UpClosed
<1>3. dirty \cup {old} \subseteq M
  BY <1>1, MarkedProperties
<1>4. \A a \in M : parent'[a] # Null => parent'[a] \in M
  <2>1. \A d \in dirty : parent'[d] # Null => parent'[d] \in M
    <3> HIDE DEF M
    <3> QED  BY <1>1, <1>3 DEF Cached, DirtyUpToTheRoot
  <2> QED  BY <1>1, <2>1, MarkedUpward
<1>5. \A k \in Entity \ {old} : Children(k)' = Children(k)
  BY <1>1, EntityAssumption DEF Children
<1>6. \/ dirty' = M
      \/ dirty' = M \ {c} /\ Children(c) = {} /\ intrinsic[c] = {}
  BY DEF Unparent, OnChildRemoved
<1>7. M \in SUBSET Entity
  BY MarkedType
<1> HIDE DEF M
<1>8. DirtyUpToTheRoot'
  <2>1. CASE dirty' = M
    BY <1>4, <2>1 DEF DirtyUpToTheRoot
  <2>2. CASE dirty' = M \ {c} /\ Children(c) = {}
    <3>1. \A a \in Entity : parent'[a] # c
      BY <1>1, <2>2, EntityAssumption DEF Children
    <3> QED  BY <1>4, <1>7, <2>2, <3>1 DEF DirtyUpToTheRoot
  <2> QED  BY <1>6, <2>1, <2>2
<1>9. ASSUME NEW k \in Entity, k \notin dirty'
      PROVE  computed'[k] = BoxOverChildren(k)'
  <2>1. k # old /\ (k \in dirty => k = c)
    BY <1>2, <1>3, <1>6, <1>9
  <2>2. BoxOverChildren(k)' = BoxOverChildren(k)
    BY <1>1, <1>5, <2>1, BoxOverChildrenSame
  <2>3. CASE k \notin dirty
    BY <1>1, <2>2, <2>3 DEF Cached, CleanFitsChildren
  <2>4. CASE k \in dirty
    <3>1. k = c /\ Children(c) = {} /\ intrinsic[c] = {}
      BY <1>3, <1>6, <1>9, <2>1, <2>4
    <3>2. computed[c] = {}
      BY <2>4, <3>1 DEF Unparent
    <3>3. BoxOverChildren(c) = Hull({})
      BY <3>1 DEF BoxOverChildren
    <3> QED  BY <1>1, <2>2, <3>1, <3>2, <3>3, HullAssumption
  <2> QED  BY <2>3, <2>4
<1> QED  BY <1>8, <1>9 DEF Cached, CleanFitsChildren

\* A recomputation leaves what it returns right.
LEMMA CachedReturn ==
    ASSUME TypeOK, Cached, Calls, Return
    PROVE  Cached'
<1> DEFINE t == Top.node
<1>1. /\ t \in Entity /\ t \in dirty /\ Children(t) \cap dirty = {}
      /\ Top.box = BoxOver(computed, t, Children(t))
  <2>1. Top \in Call /\ OnTrack(Top) /\ Top.todo = {}
    BY TopType DEF Return, Calls, CallsOnTrack
  <2> QED  BY <2>1 DEF OnTrack, Call
<1>2. /\ UNCHANGED <<parent, xf, intrinsic>> /\ dirty' = dirty \ {t}
      /\ computed'[t] = Top.box
      /\ \A k \in Entity \ {t} : computed'[k] = computed[k]
  BY <1>1 DEF Return, TypeOK
<1> HIDE DEF t
<1>3. \A k \in Entity : Children(k)' = Children(k)
  BY <1>2 DEF Children
<1>4. DirtyUpToTheRoot'
  <2>1. \A a \in dirty : parent[a] # t
    BY <1>1 DEF Children, TypeOK
  <2> QED  BY <1>2, <2>1 DEF Cached, DirtyUpToTheRoot
<1>5. ASSUME NEW k \in Entity, k \notin dirty'
      PROVE  computed'[k] = BoxOverChildren(k)'
  <2>1. t \notin Children(k)
    <3>1. CASE k = t
      BY <1>1, <3>1
    <3>2. CASE k # t
      BY <1>1, <1>2, <1>5, <3>2, EntityAssumption
         DEF Cached, DirtyUpToTheRoot, Children
    <3> QED  BY <3>1, <3>2
  <2>2. BoxOverChildren(k)' = BoxOverChildren(k)
    <3>1. \A c \in Children(k) : computed'[c] = computed[c] /\ xf'[c] = xf[c]
      BY <1>2, <2>1 DEF Children
    <3> QED  BY <1>2, <1>3, <3>1, BoxOverChildrenSame
  <2>3. CASE k = t
    BY <1>1, <1>2, <2>2, <2>3 DEF BoxOver, BoxOverChildren
  <2>4. CASE k # t
    BY <1>2, <1>5, <2>2, <2>4 DEF Cached, CleanFitsChildren
  <2> QED  BY <2>3, <2>4
<1> QED  BY <1>4, <1>5 DEF Cached, CleanFitsChildren

\* Steps keep the cache right, if clients keep off the two walks that are too
\* short.
LEMMA CachedStep ==
    ASSUME TypeOK, Rooted, Cached, Calls, ~DirtyMoves, ~DirtyLeaves, [Next]_vars
    PROVE  Cached'
<1>1. CASE UNCHANGED <<parent, xf, intrinsic, dirty, computed>>
  <2>1. DirtyUpToTheRoot'
    BY <1>1 DEF Cached, DirtyUpToTheRoot
  <2>2. \A k \in Entity : Children(k)' = Children(k)
    BY <1>1 DEF Children
  <2>3. ASSUME NEW k \in Entity
        PROVE  BoxOverChildren(k)' = BoxOverChildren(k)
    BY <1>1, <2>2, BoxOverChildrenSame
  <2> QED  BY <1>1, <2>1, <2>3 DEF Cached, CleanFitsChildren
<1> QED  BY <1>1, CachedSetIntrinsic, CachedRemoveIntrinsic,
            CachedEditTransform, CachedAdd, CachedReparent, CachedUnparent,
            CachedReturn
         DEF Next, Recomputation, vars, Query, VisitDirty, VisitClean

-----------------------------------------------------------------------------
(* The calls *)

\* While there is no call there is nothing to say.
LEMMA CallsIdle ==
    ASSUME stack' = <<>>
    PROVE  Calls'
<1>1. CallsBelowQuery'
  <2>1. /\ \A s \in {} : parent'[s] \in {} \cup {Null}
        /\ stack' # <<>> => parent'[stack'[1].node] \in {} \cup {Null}
        /\ \A i \in 1 .. Len(stack') : stack'[i].node \notin {}
    OBVIOUS
  <2> QED  BY <2>1 DEF CallsBelowQuery, UpClosed
<1> QED  BY <1>1 DEF Calls, CallsOnTrack, CallsDescend

\* A call that has just begun is on track.
LEMMA CalledOnTrack ==
    ASSUME TypeOK, IntrinsicIsBox, NEW e \in dirty
    PROVE  OnTrack(Called(e))
<1>1. e \in Entity
  BY DEF TypeOK
<1>2. BoxOver(computed, e, {}) = intrinsic[e]
  BY <1>1 DEF BoxOver, IntrinsicIsBox
<1> QED  BY <1>2 DEF OnTrack, Called

\* A call stays on track as long as nothing it looked at changes.
LEMMA OnTrackSame ==
    ASSUME NEW call, OnTrack(call), UNCHANGED <<parent, xf, intrinsic>>,
           call.node \in dirty', dirty' \subseteq dirty,
           \A c \in Children(call.node) \ call.todo : computed'[c] = computed[c]
    PROVE  OnTrack(call)'
<1>1. Children(call.node)' = Children(call.node)
  BY DEF Children
<1>2. \A c \in Children(call.node) \ call.todo :
         InParent(c, computed[c])' = InParent(c, computed[c])
  BY DEF InParent
<1>3. {InParent(c, computed[c]) : c \in Children(call.node) \ call.todo}' =
          {InParent(c, computed[c]) : c \in Children(call.node) \ call.todo}
  BY <1>1, <1>2
<1>4. BoxOver(computed, call.node, Children(call.node) \ call.todo)' =
          BoxOver(computed, call.node, Children(call.node) \ call.todo)
  BY <1>1, <1>3 DEF BoxOver
<1> QED  BY <1>1, <1>4 DEF OnTrack

\* A query begins with calls as they should be.
LEMMA CallsQuery ==
    ASSUME TypeOK, Rooted, IntrinsicIsBox, NEW e \in Entity, Query(e)
    PROVE  Calls'
<1>1. /\ e \in dirty /\ UNCHANGED <<parent, xf, intrinsic, dirty, computed>>
      /\ stack' = <<Called(e)>>
  BY DEF Query
<1>2. Len(stack') = 1 /\ stack'[1] = Called(e) /\ Called(e).node = e
  BY <1>1 DEF Called
<1>3. OnTrack(Called(e)) /\ Called(e).node = e
  BY <1>1, CalledOnTrack DEF Called
<1>4. \A call : OnTrack(call) => OnTrack(call)'
  BY <1>1, OnTrackSame DEF OnTrack
<1>5. OnTrack(stack[1])'
  BY <1>2, <1>3, <1>4
<1>6. CallsBelowQuery'
  <2>1. PICK S \in SUBSET Entity :
           UpClosed(S) /\ parent[e] \in S \cup {Null} /\ e \notin S
    BY DEF Rooted
  <2>2. \A i \in 1 .. Len(stack') : stack'[i].node \notin S
    BY <1>2, <2>1
  <2> QED  BY <1>1, <1>2, <2>1, <2>2 DEF CallsBelowQuery, UpClosed
<1> QED  BY <1>2, <1>5, <1>6 DEF Calls, CallsOnTrack, CallsDescend

\* The entities of the calls, and what is below the query's entity.
LEMMA CallNodes ==
    ASSUME TypeOK, Calls, NEW i \in 1 .. Len(stack)
    PROVE  /\ stack[i] \in Call
           /\ i > 1 => parent[stack[i].node] = stack[i - 1].node
<1>1. \A j \in 1 .. Len(stack) : stack[j] \in Call
  BY ElementOfSeq DEF TypeOK
<1>2. ASSUME i > 1
      PROVE  parent[stack[i].node] = stack[i - 1].node
  <2>1. i - 1 \in 1 .. Len(stack) - 1 /\ i - 1 + 1 = i /\ i - 1 \in 1 .. Len(stack)
    BY <1>2
  <2>2. stack[i].node \in stack[i - 1].todo
    BY <2>1 DEF Calls, CallsDescend
  <2>3. stack[i - 1].todo \subseteq Children(stack[i - 1].node)
    BY <2>1 DEF Calls, CallsOnTrack, OnTrack
  <2> QED  BY <2>2, <2>3 DEF Children
<1> QED  BY <1>1, <1>2

\* The recursion goes down: to an entity no call works on.
LEMMA CallsVisitDirty ==
    ASSUME TypeOK, IntrinsicIsBox, Calls, NEW c \in Entity, VisitDirty(c)
    PROVE  Calls'
<1> DEFINE n == Len(stack)
<1>1. /\ n \in Nat \ {0} /\ Top = stack[n] /\ stack \in Seq(Call)
      /\ c \in stack[n].todo /\ c \in dirty
      /\ UNCHANGED <<parent, xf, intrinsic, dirty, computed>>
  BY TopType DEF VisitDirty, TypeOK
<1>2. /\ Len(stack') = n + 1 /\ stack'[n + 1] = Called(c)
      /\ \A i \in 1 .. n : stack'[i] = stack[i]
  BY <1>1 DEF VisitDirty
<1>3. \A i \in 1 .. n : stack[i] \in Call
  BY CallNodes
<1>4. parent[c] = stack[n].node /\ parent[c] \in Entity
  <2>1. n \in 1 .. n
    BY <1>1
  <2>2. stack[n].todo \subseteq Children(stack[n].node) /\ stack[n].node \in Entity
    BY <1>3, <2>1 DEF Calls, CallsOnTrack, OnTrack, Call
  <2> QED  BY <1>1, <2>2 DEF Children
<1>5. PICK S \in SUBSET Entity :
         /\ UpClosed(S)
         /\ parent[stack[1].node] \in S \cup {Null}
         /\ \A i \in 1 .. n : stack[i].node \notin S
  BY <1>1 DEF Calls, CallsBelowQuery
<1>6. c \notin S
  BY <1>1, <1>4, <1>5, EntityAssumption DEF UpClosed
<1>7. ASSUME NEW i \in 1 .. n
      PROVE  stack[i].node # c
  <2>1. CASE i = 1
    BY <1>1, <1>4, <1>5, <2>1, EntityAssumption
  <2>2. CASE i > 1
    <3>1. parent[stack[i].node] = stack[i - 1].node
      BY <2>2, CallNodes
    <3>2. stack[i - 1].node # stack[n].node
      BY <1>1, <2>2 DEF Calls, CallsDescend
    <3> QED  BY <1>4, <3>1, <3>2
  <2> QED  BY <2>1, <2>2
<1>8. \A call : OnTrack(call) => OnTrack(call)'
  BY <1>1, OnTrackSame DEF OnTrack
<1> HIDE DEF n
<1>9. CallsOnTrack'
  <2>1. OnTrack(Called(c))
    BY <1>1, CalledOnTrack
  <2>2. \A i \in 1 .. n : OnTrack(stack[i])
    BY DEF Calls, CallsOnTrack, n
  <2>3. \A i \in 1 .. n + 1 : OnTrack(stack'[i])
    BY <1>1, <1>2, <2>1, <2>2
  <2> QED  BY <1>2, <1>8, <2>3 DEF CallsOnTrack
<1>10. CallsDescend'
  <2>1. /\ \A i \in 1 .. n - 1 : stack[i + 1].node \in stack[i].todo
        /\ \A i, j \in 1 .. n : i # j => stack[i].node # stack[j].node
    BY DEF Calls, CallsDescend, n
  <2>2. stack'[n + 1].node = c
    BY <1>2 DEF Called
  <2>3. ASSUME NEW i \in 1 .. n
        PROVE  stack'[i + 1].node \in stack'[i].todo
    <3>1. CASE i = n
      BY <1>1, <1>2, <2>2, <3>1
    <3>2. CASE i # n
      <4>1. i \in 1 .. n - 1 /\ i + 1 \in 1 .. n
        BY <1>1, <3>2
      <4> QED  BY <1>2, <2>1, <4>1
    <3> QED  BY <3>1, <3>2
  <2>4. \A i, j \in 1 .. n + 1 : i # j => stack'[i].node # stack'[j].node
    BY <1>1, <1>2, <1>7, <2>1, <2>2
  <2> QED  BY <1>1, <1>2, <2>3, <2>4 DEF CallsDescend
<1>11. CallsBelowQuery'
  <2>1. stack'[1] = stack[1]
    BY <1>1, <1>2
  <2>2. \A i \in 1 .. n + 1 : stack'[i].node \notin S
    BY <1>1, <1>2, <1>5, <1>6 DEF Called
  <2> QED  BY <1>1, <1>2, <1>5, <2>1, <2>2 DEF CallsBelowQuery, UpClosed
<1> QED  BY <1>9, <1>10, <1>11 DEF Calls

\* The box of a call that has seen one more child.
LEMMA OneMoreSeen ==
    ASSUME TypeOK, NEW cache \in [Entity -> SUBSET Point], NEW call \in Call,
           call.todo \subseteq Children(call.node), NEW c \in call.todo,
           call.box = BoxOver(cache, call.node, Children(call.node) \ call.todo)
    PROVE  Hull(call.box \cup InParent(c, cache[c])) =
               BoxOver(cache, call.node,
                       Children(call.node) \ (call.todo \ {c}))
<1> DEFINE done == Children(call.node) \ call.todo
<1>1. call.node \in Entity /\ done \in SUBSET Entity /\ c \in Entity
  BY DEF Call, Children
<1>2. Children(call.node) \ (call.todo \ {c}) = done \cup {c}
  OBVIOUS
<1> HIDE DEF done
<1> QED  BY <1>1, <1>2, BoxOverOneMore DEF done

\* A call that takes the clean child's box is still on track.
LEMMA CallsVisitClean ==
    ASSUME TypeOK, Calls, NEW c \in Entity, VisitClean(c)
    PROVE  Calls'
<1> DEFINE n == Len(stack)
           top == stack[n]
<1>1. /\ n \in Nat \ {0} /\ Top = top /\ stack \in Seq(Call) /\ stack # <<>>
      /\ c \in top.todo /\ c \notin dirty /\ top \in Call
      /\ stack' = Seen(stack, c, computed[c])
      /\ UNCHANGED <<parent, xf, intrinsic, dirty, computed>>
  BY TopType DEF VisitClean, TypeOK, Idle
<1>2. Hull(top.box \cup InParent(c, computed[c])) \in SUBSET Point
  <2>1. computed[c] \in SUBSET Point
    BY DEF TypeOK
  <2> QED  BY <1>1, <2>1, SeenBoxType
<1>3. /\ Len(stack') = n
      /\ \A i \in 1 .. n - 1 : stack'[i] = stack[i]
      /\ stack'[n] = [node |-> top.node, todo |-> top.todo \ {c},
                      box |-> Hull(top.box \cup InParent(c, computed[c]))]
  <2> DEFINE calls == Seen(stack, c, computed[c])
  <2>1. /\ Len(calls) = n
        /\ \A i \in 1 .. n - 1 : calls[i] = stack[i]
        /\ calls[n] = [node |-> top.node, todo |-> top.todo \ {c},
                       box |-> Hull(top.box \cup InParent(c, computed[c]))]
    BY <1>1, <1>2, SeenProperties
  <2> HIDE DEF calls
  <2> QED  BY <1>1, <2>1 DEF calls
<1>4. OnTrack(top)
  BY <1>1 DEF Calls, CallsOnTrack
<1>5. OnTrack(stack'[n])
  <2>1. Hull(top.box \cup InParent(c, computed[c])) =
            BoxOver(computed, top.node, Children(top.node) \ (top.todo \ {c}))
    <3>1. computed \in [Entity -> SUBSET Point]
      BY DEF TypeOK
    <3>2. /\ top.todo \subseteq Children(top.node)
          /\ top.box = BoxOver(computed, top.node, Children(top.node) \ top.todo)
      BY <1>4 DEF OnTrack
    <3> HIDE DEF top
    <3> QED  BY <1>1, <3>1, <3>2, OneMoreSeen
  <2>2. /\ stack'[n].node = top.node /\ stack'[n].todo = top.todo \ {c}
        /\ stack'[n].box = Hull(top.box \cup InParent(c, computed[c]))
    BY <1>3
  <2> HIDE DEF top, n
  <2> QED  BY <1>1, <1>4, <2>1, <2>2 DEF OnTrack
<1>6. \A call : OnTrack(call) => OnTrack(call)'
  BY <1>1, OnTrackSame DEF OnTrack
<1>7. \A i \in 1 .. n : stack'[i].node = stack[i].node
  BY <1>1, <1>3
<1> HIDE DEF n
<1>8. CallsOnTrack'
  <2>1. \A i \in 1 .. n : OnTrack(stack[i])
    BY DEF Calls, CallsOnTrack, n
  <2>2. \A i \in 1 .. n : OnTrack(stack'[i])
    BY <1>1, <1>3, <1>5, <2>1
  <2> QED  BY <1>3, <1>6, <2>2 DEF CallsOnTrack
<1>9. CallsDescend'
  <2>1. /\ \A i \in 1 .. n - 1 : stack[i + 1].node \in stack[i].todo
        /\ \A i, j \in 1 .. n : i # j => stack[i].node # stack[j].node
    BY DEF Calls, CallsDescend, n
  <2>2. \A i \in 1 .. n - 1 : stack'[i + 1].node \in stack'[i].todo
    BY <1>1, <1>3, <1>7, <2>1
  <2> QED  BY <1>3, <1>7, <2>1, <2>2 DEF CallsDescend
<1>10. CallsBelowQuery'
  <2>1. PICK S \in SUBSET Entity :
           /\ UpClosed(S)
           /\ parent[stack[1].node] \in S \cup {Null}
           /\ \A i \in 1 .. n : stack[i].node \notin S
    BY <1>1 DEF Calls, CallsBelowQuery, n
  <2>2. 1 \in 1 .. n
    BY <1>1 DEF n
  <2> QED  BY <1>1, <1>3, <1>7, <2>1, <2>2 DEF CallsBelowQuery, UpClosed
<1> QED  BY <1>8, <1>9, <1>10 DEF Calls

\* A recomputation that returns leaves its callers on track.
LEMMA CallsReturn ==
    ASSUME TypeOK, Calls, Return
    PROVE  Calls'
<1> DEFINE n == Len(stack)
           m == n - 1
           t == Top.node
           b == Top.box
<1>1. /\ n \in Nat \ {0} /\ Top = stack[n] /\ stack \in Seq(Call) /\ stack # <<>>
      /\ t \in Entity /\ t \in dirty /\ b \in SUBSET Point
      /\ UNCHANGED <<parent, xf, intrinsic>> /\ dirty' = dirty \ {t}
      /\ computed'[t] = b /\ computed' \in [Entity -> SUBSET Point]
      /\ \A k \in Entity \ {t} : computed'[k] = computed[k]
  <2>1. /\ n \in Nat \ {0} /\ Top = stack[n] /\ stack \in Seq(Call) /\ stack # <<>>
        /\ t \in Entity /\ b \in SUBSET Point
    BY TopType DEF Return, TypeOK, Call, Idle
  <2>2. t \in dirty
    <3>1. n \in 1 .. n
      BY <2>1
    <3>2. OnTrack(stack[n])
      BY <3>1 DEF Calls, CallsOnTrack
    <3> QED  BY <2>1, <3>2 DEF OnTrack
  <2> HIDE DEF n, t, b
  <2>3. dirty' = dirty \ {t} /\ computed' = [computed EXCEPT ![t] = b]
    BY DEF Return, t, b
  <2> QED  BY <2>1, <2>2, <2>3 DEF Return, TypeOK
<1>2. CASE n = 1
  BY <1>2, CallsIdle DEF Return
<1>3. CASE n # 1
  <2> DEFINE calls == Front(stack)
             old == stack[m]
  <2>1. m \in Nat \ {0} /\ m + 1 = n /\ m # n
    BY <1>1, <1>3
  <2>2. /\ calls \in Seq(Call) /\ Len(calls) = m /\ calls # <<>>
        /\ \A i \in 1 .. m : calls[i] = stack[i]
    <3>1. /\ calls \in Seq(Call) /\ Len(calls) = m
          /\ \A i \in 1 .. m : calls[i] = stack[i]
      BY <1>1, FrontProperties
    <3> HIDE DEF calls, m
    <3> QED  BY <2>1, <3>1
  <2>3. stack' = Seen(calls, t, b)
    BY <1>3 DEF Return
  <2>4. old \in Call /\ calls[Len(calls)] = old
    <3> HIDE DEF calls, m, n
    <3> QED  BY <2>1, <2>2, ElementOfSeq
  <2>5. Hull(old.box \cup InParent(t, b)) \in SUBSET Point
    BY <1>1, <2>4, SeenBoxType
  <2>6. /\ Len(stack') = m
        /\ \A i \in 1 .. m - 1 : stack'[i] = stack[i]
        /\ stack'[m] = [node |-> old.node, todo |-> old.todo \ {t},
                        box |-> Hull(old.box \cup InParent(t, b))]
    <3> DEFINE after == Seen(calls, t, b)
    <3> HIDE DEF calls, m, old, t, b
    <3>1. /\ Len(after) = m
          /\ \A i \in 1 .. m - 1 : after[i] = calls[i]
          /\ after[m] = [node |-> old.node, todo |-> old.todo \ {t},
                         box |-> Hull(old.box \cup InParent(t, b))]
      <4> DEFINE l == Len(calls)
      <4>1. /\ Len(after) = l
            /\ \A i \in 1 .. l - 1 : after[i] = calls[i]
            /\ after[l] = [node |-> calls[l].node, todo |-> calls[l].todo \ {t},
                           box |-> Hull(calls[l].box \cup InParent(t, b))]
        <5>1. Hull(calls[l].box \cup InParent(t, b)) \in SUBSET Point
          BY <2>4, <2>5
        <5>2. calls \in Seq(Call) /\ calls # <<>> /\ t \in Entity
          BY <1>1, <2>2
        <5> QED  BY <5>1, <5>2, SeenProperties
      <4> HIDE DEF l
      <4> QED  BY <2>2, <2>4, <4>1 DEF l
    <3> HIDE DEF after
    <3> QED  BY <2>1, <2>2, <2>3, <3>1 DEF after
  <2>7. /\ \A i \in 1 .. m : OnTrack(stack[i]) /\ stack[i].node # t
        /\ \A i \in 1 .. m - 1 : stack[i + 1].node \in stack[i].todo
        /\ \A i, j \in 1 .. m : i # j => stack[i].node # stack[j].node
        /\ t \in old.todo
    <3>1. /\ \A i \in 1 .. n : OnTrack(stack[i])
          /\ \A i \in 1 .. m : stack[i + 1].node \in stack[i].todo
          /\ \A i, j \in 1 .. n : i # j => stack[i].node # stack[j].node
      BY DEF Calls, CallsOnTrack, CallsDescend
    <3>2. stack[n].node = t
      BY <1>1
    <3> HIDE DEF n, t
    <3> QED  BY <1>1, <2>1, <3>1, <3>2
  <2>8. ASSUME NEW i \in 1 .. m
        PROVE  \A call : call = stack[i] => OnTrack(call)'
    <3>1. OnTrack(stack[i]) /\ stack[i].node # t
      BY <2>7
    <3>2. SUFFICES ASSUME NEW call, call = stack[i]
                   PROVE  OnTrack(call)'
      OBVIOUS
    <3>3. \A c \in Children(call.node) \ call.todo : computed'[c] = computed[c]
      BY <1>1, <3>1, <3>2 DEF OnTrack, Children
    <3>4. call.node \in dirty' /\ dirty' \subseteq dirty
      BY <1>1, <3>1, <3>2 DEF OnTrack
    <3> QED  BY <1>1, <3>1, <3>2, <3>3, <3>4, OnTrackSame
  <2> HIDE DEF calls, n, m, t, b, old
  <2>9. ASSUME NEW after, after = stack'[m]
        PROVE  OnTrack(after)'
    <3>0. PICK call : call = old
      OBVIOUS
    <3>1. OnTrack(call)'
      BY <2>1, <2>8, <3>0 DEF old
    <3>2. Children(call.node)' = Children(call.node)
      BY <1>1 DEF Children
    <3>3. ASSUME NEW cache, NEW e, NEW some
          PROVE  BoxOver(cache, e, some)' = BoxOver(cache, e, some)
      <4>1. \A c \in some : InParent(c, cache[c])' = InParent(c, cache[c])
        BY <1>1 DEF InParent
      <4>2. {InParent(c, cache[c]) : c \in some}' = {InParent(c, cache[c]) : c \in some}
        BY <4>1
      <4> QED  BY <1>1, <4>2 DEF BoxOver
    <3>4. /\ call \in Call /\ call.node \in dirty' /\ t \in call.todo
          /\ call.todo \subseteq Children(call.node)
          /\ (Children(call.node) \ call.todo) \cap dirty' = {}
          /\ call.box = BoxOver(computed', call.node, Children(call.node) \ call.todo)
      BY <2>4, <2>7, <3>0, <3>1, <3>2, <3>3 DEF OnTrack
    <3>5. Hull(call.box \cup InParent(t, computed'[t])) =
              BoxOver(computed', call.node, Children(call.node) \ (call.todo \ {t}))
      BY <1>1, <3>4, OneMoreSeen
    <3>6. /\ after.node = call.node /\ after.todo = call.todo \ {t}
          /\ after.box = Hull(call.box \cup InParent(t, computed'[t]))
      BY <1>1, <2>6, <2>9, <3>0
    <3>7. /\ after.todo \subseteq Children(call.node)
          /\ (Children(call.node) \ after.todo) \cap dirty' = {}
      BY <1>1, <3>4, <3>6
    <3>8. Children(after.node)' = Children(call.node)
      BY <3>2, <3>6
    <3>9. after.box = BoxOver(computed', after.node, Children(after.node)' \ after.todo)
      BY <3>5, <3>6, <3>8
    <3> QED  BY <3>3, <3>4, <3>6, <3>7, <3>8, <3>9 DEF OnTrack
  <2>10. CallsOnTrack'
    <3>1. ASSUME NEW i \in 1 .. m
          PROVE  \A after : after = stack'[i] => OnTrack(after)'
      <4>1. CASE i = m
        BY <2>9, <4>1
      <4>2. CASE i # m
        BY <2>1, <2>6, <2>8, <4>2
      <4> QED  BY <4>1, <4>2
    <3>2. 1 .. Len(stack') = 1 .. m
      BY <2>6
    <3> QED  BY <3>1, <3>2 DEF CallsOnTrack
  <2>11. \A i \in 1 .. m : stack'[i].node = stack[i].node
    BY <2>1, <2>6 DEF old
  <2>12. CallsDescend'
    <3>1. \A i \in 1 .. m - 1 : stack'[i + 1].node \in stack'[i].todo
      BY <2>1, <2>6, <2>7, <2>11
    <3> QED  BY <2>6, <2>7, <2>11, <3>1 DEF CallsDescend
  <2>13. CallsBelowQuery'
    <3>1. PICK S \in SUBSET Entity :
             /\ UpClosed(S)
             /\ parent[stack[1].node] \in S \cup {Null}
             /\ \A i \in 1 .. n : stack[i].node \notin S
      BY <1>1 DEF Calls, CallsBelowQuery, n
    <3>2. 1 \in 1 .. m /\ \A i \in 1 .. m : i \in 1 .. n
      BY <2>1
    <3> QED  BY <1>1, <2>6, <2>11, <3>1, <3>2 DEF CallsBelowQuery, UpClosed
  <2> QED  BY <2>10, <2>12, <2>13 DEF Calls
<1> QED  BY <1>2, <1>3

\* Steps keep the calls as they should be: nothing is edited while one is
\* under way.
LEMMA CallsStep ==
    ASSUME TypeOK, Rooted, IntrinsicIsBox, Calls, [Next]_vars
    PROVE  Calls'
<1>1. CASE UNCHANGED vars
  <2>1. UNCHANGED <<parent, xf, intrinsic, dirty, computed, stack>>
    BY <1>1 DEF vars
  <2>2. \A call : OnTrack(call) => OnTrack(call)'
    BY <2>1, OnTrackSame DEF OnTrack
  <2>3. CallsOnTrack'
    BY <2>1, <2>2 DEF Calls, CallsOnTrack
  <2> QED  BY <2>1, <2>3 DEF Calls, CallsDescend, CallsBelowQuery, UpClosed
<1>2. CASE Idle /\ UNCHANGED stack
  BY <1>2, CallsIdle DEF Idle
<1> QED  BY <1>1, <1>2, CallsQuery, CallsVisitDirty, CallsVisitClean, CallsReturn
         DEF Next, Recomputation, SetIntrinsic, RemoveIntrinsic, EditTransform,
             Add, Reparent, Unparent

-----------------------------------------------------------------------------
(* Boxes of whole subtrees *)

\* Every set of entities has one without a child in the set: the subtrees end.
BottomedOut ==
    \A T \in SUBSET Entity : T # {} => \E x \in T : Children(x) \cap T = {}

\* Adopting an entity that is not an ancestor leaves no endless descent.
LEMMA BottomedOutBelow ==
    ASSUME TypeOK, BottomedOut, NEW c \in Entity, NEW p \in Entity,
           MayAdopt(c, p), parent' = [parent EXCEPT ![c] = p]
    PROVE  BottomedOut'
<1>1. PICK A \in SUBSET Entity : p \in A /\ c \notin A /\ UpClosed(A)
  BY DEF MayAdopt, UpClosed
<1>2. /\ \A e \in Entity \ {c} : parent'[e] = parent[e]
      /\ parent'[c] = p
  BY DEF TypeOK
<1>3. \A x \in Entity \ {p} : Children(x)' \subseteq Children(x)
  BY <1>2 DEF Children
<1>4. SUFFICES ASSUME NEW T \in SUBSET Entity, T # {}
               PROVE  \E x \in T : Children(x)' \cap T = {}
  BY DEF BottomedOut
<1>5. CASE T \subseteq A
  <2>1. PICK x \in T : Children(x) \cap T = {}
    BY <1>4 DEF BottomedOut
  <2>2. Children(x)' \cap T \subseteq Children(x)
    BY <1>1, <1>2, <1>5 DEF Children
  <2> QED  BY <2>1, <2>2
<1>6. CASE ~(T \subseteq A)
  <2>1. PICK x \in T \ A : Children(x) \cap (T \ A) = {}
    BY <1>6 DEF BottomedOut
  <2>2. x \in Entity \ {p} /\ Children(x)' \subseteq Children(x)
    BY <1>1, <1>3, <2>1
  <2>3. Children(x) \cap A = {}
    BY <1>1, <2>1, EntityAssumption DEF Children, UpClosed
  <2> QED  BY <2>1, <2>2, <2>3
<1> QED  BY <1>5, <1>6

\* No step makes an endless descent.
LEMMA BottomedOutStep ==
    ASSUME TypeOK, BottomedOut, [Next]_vars
    PROVE  BottomedOut'
<1>1. CASE UNCHANGED parent
  BY <1>1 DEF BottomedOut, Children
<1>2. ASSUME NEW c \in Entity, NEW p \in Entity, Add(c, p) \/ Reparent(c, p)
      PROVE  BottomedOut'
  BY <1>2, BottomedOutBelow DEF Add, Reparent
<1>3. ASSUME NEW c \in Entity, Unparent(c)
      PROVE  BottomedOut'
  <2>1. \A x \in Entity : Children(x)' \subseteq Children(x)
    BY <1>3, EntityAssumption DEF Unparent, TypeOK, Children
  <2> QED  BY <2>1 DEF BottomedOut
<1> QED  BY <1>1, <1>2, <1>3
         DEF Next, Recomputation, SetIntrinsic, RemoveIntrinsic, EditTransform,
             Query, VisitDirty, VisitClean, Return, vars

\* Where the subtrees end, SubtreeBox is what its definition says.
LEMMA SubtreeBoxEquation ==
    ASSUME TypeOK, BottomedOut
    PROVE  \A e \in Entity : SubtreeBox[e] = BoxOver(SubtreeBox, e, Children(e))
<1> DEFINE V == SUBSET Point
           F == [Entity -> V]
           R == {ss \in Entity \X Entity : parent[ss[1]] = ss[2]}
           step == [g \in F |-> [e \in Entity |-> BoxOver(g, e, Children(e))]]
<1>1. Grounded(R, Entity)
  <2>1. ASSUME NEW T \in SUBSET Entity, T # {}
        PROVE  \E x \in T : \A y \in T : <<y, x>> \notin R
    <3>1. PICK x \in T : Children(x) \cap T = {}
      BY <2>1 DEF BottomedOut
    <3> QED  BY <3>1 DEF Children
  <2> HIDE DEF R
  <2> QED  BY <2>1 DEF Grounded
<1>2. ASSUME NEW g \in F, NEW e \in Entity
      PROVE  BoxOver(g, e, Children(e)) \in V
  <2>1. Children(e) \in SUBSET Entity
    BY DEF Children
  <2>2. UNION {InParent(c, g[c]) : c \in Children(e)} \in SUBSET Point
    BY <2>1, UnionType
  <2>3. intrinsic[e] \cup UNION {InParent(c, g[c]) : c \in Children(e)}
            \in SUBSET Point
    BY <2>2 DEF TypeOK
  <2> QED  BY <2>3, HullAssumption DEF BoxOver
<1>3. LooksDown(Entity, V, R, step)
  <2>1. step \in [F -> F]
    <3>1. \A g \in F : [e \in Entity |-> BoxOver(g, e, Children(e))] \in F
      BY <1>2
    <3> QED  BY <3>1
  <2>2. ASSUME NEW g \in F, NEW h \in F, NEW e \in Entity,
               \A d \in Entity : <<d, e>> \in R => g[d] = h[d]
        PROVE  step[g][e] = step[h][e]
    <3>1. \A c \in Children(e) : g[c] = h[c]
      BY <2>2 DEF Children
    <3>2. BoxOver(g, e, Children(e)) = BoxOver(h, e, Children(e))
      BY <3>1 DEF BoxOver
    <3> QED  BY <3>2
  <2>3. V # {}
    OBVIOUS
  <2> HIDE DEF V, step, R
  <2> QED  BY <2>1, <2>2, <2>3 DEF LooksDown
<1>4. PICK g \in F : g = step[g]
  <2> HIDE DEF V, step, R
  <2> QED  BY <1>1, <1>3, RecursionHasSolution
<1>5. g = [e \in Entity |-> BoxOver(g, e, Children(e))]
  BY <1>4
<1>6. SubtreeBox = [e \in Entity |-> BoxOver(SubtreeBox, e, Children(e))]
  BY <1>5 DEF SubtreeBox, BoxOver
<1> HIDE DEF step, R
<1> QED  BY <1>6

\* Caches that fit the children, all the way down, hold the boxes of the
\* subtrees: below a clean entity everything is clean.
LEMMA ExactIfFitting ==
    ASSUME TypeOK, BottomedOut, DirtyUpToTheRoot, CleanFitsChildren
    PROVE  CleanIsExact
<1> DEFINE wrong == {e \in Entity \ dirty : computed[e] # SubtreeBox[e]}
<1>1. SUFFICES ASSUME wrong # {} PROVE FALSE
  BY DEF CleanIsExact
<1>2. PICK e \in wrong : Children(e) \cap wrong = {}
  <2>1. wrong \in SUBSET Entity
    OBVIOUS
  <2> HIDE DEF wrong
  <2> QED  BY <1>1, <2>1 DEF BottomedOut
<1>3. ASSUME NEW c \in Children(e)
      PROVE  computed[c] = SubtreeBox[c]
  <2>1. c \in Entity /\ c \notin dirty
    BY <1>2, <1>3, EntityAssumption DEF Children, DirtyUpToTheRoot
  <2> QED  BY <1>2, <1>3, <2>1
<1>4. BoxOverChildren(e) = BoxOver(SubtreeBox, e, Children(e))
  BY <1>3 DEF BoxOverChildren, BoxOver
<1>5. SubtreeBox[e] = BoxOver(SubtreeBox, e, Children(e))
  BY SubtreeBoxEquation
<1> QED  BY <1>2, <1>4, <1>5 DEF CleanFitsChildren

-----------------------------------------------------------------------------
(* Theorems *)

\* It all holds at first.
LEMMA InitInv == Init => IInv
<1> SUFFICES ASSUME Init PROVE IInv
  OBVIOUS
<1>1. TypeOK
  <2>1. stack \in Seq(Call)
    BY DEF Init
  <2> QED  BY <2>1 DEF Init, TypeOK
<1>2. Rooted /\ IntrinsicIsBox
  <2>1. UpClosed({})
    BY DEF UpClosed
  <2> QED  BY <2>1, HullAssumption DEF Init, Rooted, IntrinsicIsBox
<1>3. Cached
  <2>1. \A e \in Entity : Children(e) = {}
    BY EntityAssumption DEF Init, Children
  <2>2. \A e \in Entity : BoxOverChildren(e) = Hull({})
    BY <2>1 DEF Init, BoxOverChildren
  <2> QED  BY <2>2, HullAssumption
           DEF Init, Cached, DirtyUpToTheRoot, CleanFitsChildren
<1>4. Calls
  <2>1. CallsBelowQuery
    <3>1. UpClosed({}) /\ \A i \in 1 .. Len(stack) : stack[i].node \notin {}
      BY DEF UpClosed
    <3> QED  BY <3>1 DEF Init, CallsBelowQuery
  <2> QED  BY <2>1 DEF Init, Calls, CallsOnTrack, CallsDescend
<1> QED  BY <1>1, <1>2, <1>3, <1>4 DEF IInv

\* Every variable keeps its type, whatever clients do: entities' parents are
\* entities, boxes are sets of points and the recursion is a stack of calls.
THEOREM TypeCorrect == Spec => []TypeOK
<1> DEFINE Inv == TypeOK /\ IntrinsicIsBox
<1>1. Init => Inv
  BY InitInv DEF IInv
<1>2. Inv /\ [Next]_vars => Inv'
  BY TypeStep
<1> QED  BY <1>1, <1>2, PTL DEF Spec

\* The invariant, for clients that keep off the two walks that are too short.
LEMMA InvHolds ==
    ASSUME DirtyMoves = FALSE, DirtyLeaves = FALSE
    PROVE  Spec => []IInv
<1>1. Init => IInv
  BY InitInv
<1>2. IInv /\ [Next]_vars => IInv'
  BY TypeStep, RootedStep, CachedStep, CallsStep DEF IInv
<1> QED  BY <1>1, <1>2, PTL DEF Spec

\* Above a dirty entity everything is dirty (_dirty_ancestors stops at the
\* first that is), for any hierarchy, as long as clients never move a dirty
\* child below a clean parent and never cut off a leaf with an outdated box.
THEOREM DirtinessReachesRoot ==
    ASSUME DirtyMoves = FALSE, DirtyLeaves = FALSE
    PROVE  Spec => []DirtyUpToTheRoot
<1>1. Spec => []IInv
  BY InvHolds
<1>2. IInv => DirtyUpToTheRoot
  BY DEF IInv, Cached
<1> QED  BY <1>1, <1>2, PTL

\* For the same clients, the cache entry of a clean entity is the box over its
\* children as they are (_recompute, and every edit that outdates an entry
\* marks it), in the middle of a query too.
THEOREM CacheFits ==
    ASSUME DirtyMoves = FALSE, DirtyLeaves = FALSE
    PROVE  Spec => []CleanFitsChildren
<1>1. Spec => []IInv
  BY InvHolds
<1>2. IInv => CleanFitsChildren
  BY DEF IInv, Cached
<1> QED  BY <1>1, <1>2, PTL

\* A query answers with the box of the subtree as it is: the cache entry of a
\* clean entity is the box around every intrinsic bound below it, each in the
\* transforms up to it, with no cache in the definition (get_computed_bounds,
\* bounding_hierarchy.h:152-161), for hierarchies of any size and depth and
\* the clients of CacheFits.
THEOREM CacheIsExact ==
    ASSUME DirtyMoves = FALSE, DirtyLeaves = FALSE
    PROVE  Spec => []CleanIsExact
<1>1. Spec => []IInv
  BY InvHolds
<1>2. Init => BottomedOut
  BY EntityAssumption DEF Init, BottomedOut, Children
<1>3. IInv /\ BottomedOut /\ [Next]_vars => BottomedOut'
  BY BottomedOutStep DEF IInv
<1>4. IInv /\ BottomedOut => CleanIsExact
  BY ExactIfFitting DEF IInv, Cached
<1> QED  BY <1>1, <1>2, <1>3, <1>4, PTL DEF Spec

-----------------------------------------------------------------------------
(* Among other listeners: the inductive invariant *)

\* The entity from which the handler of a signal marks first, in the
\* hierarchy as it is when the signal is delivered.
WillMark(par, s) ==
    IF s.name = "added" THEN s.new
    ELSE IF s.name = "transform" THEN par[s.node]
    ELSE s.old

Awaited(par, signals, e) ==
    \E i \in 1 .. Len(signals) : WillMark(par, signals[i]) = e

\* A child of e has been moved, and its second walk will mark e too.
MovedUnder(par, signals, e) ==
    \E i \in 1 .. Len(signals) :
        signals[i].name = "changed" /\ par[signals[i].node] = e

\* A mark may be missing above a dirty entity only where a signal brings it.
DirtyOrAwaited ==
    \A d \in dirty : parent[d] # Null =>
        parent[d] \in dirty \/ Awaited(parent, pending, parent[d])

\* A clean entity's box may be outdated only where a signal brings the mark.
FitsOrAwaited ==
    \A e \in Entity \ dirty :
        \/ computed[e] = BoxOverChildren(e)
        \/ Awaited(parent, pending, e)
        \/ MovedUnder(parent, pending, e)

Owed == DirtyOrAwaited /\ FitsOrAwaited

\* The handler of an unparenting may drop the mark of c: either c has children
\* or bounds, and keeps it, or its box is empty.
Droppable(c) ==
    /\ parent[c] = Null
    /\ (Children(c) = {} /\ intrinsic[c] = {} /\ c \in dirty) => computed[c] = {}

\* What has been unparented, and the signal of it is still under way, all later
\* signals leave alone.
CutsStay ==
    \A i \in 1 .. Len(pending), c \in Entity :
        (pending[i].name = "removed" /\ pending[i].node = c) =>
            /\ Droppable(c)
            /\ pending[i].old # c
            /\ \A j \in i + 1 .. Len(pending) :
                  c \notin {pending[j].node, pending[j].old, pending[j].new}

\* Signals tell of entities.
SignalsFit ==
    /\ pending \in Seq(Signal)
    /\ \A i \in 1 .. Len(pending) :
          /\ pending[i].name = "added" => pending[i].new \in Entity
          /\ pending[i].name \in {"removed", "changed"} => pending[i].old \in Entity

Base == TypeOK /\ IntrinsicIsBox /\ Rooted /\ BottomedOut

-----------------------------------------------------------------------------
(* Lists of signals *)

\* A new signal takes nothing from what is awaited, if it brings the mark for
\* the parent that its entity has lost.
LEMMA PublishKeepsAwaited ==
    ASSUME NEW signals \in Seq(Signal), NEW s \in Signal, NEW par, NEW new,
           \A k \in Entity \ {s.node} : new[k] = par[k],
           \/ new[s.node] = par[s.node]
           \/ par[s.node] \notin Entity
           \/ par[s.node] = WillMark(new, s),
           NEW e \in Entity
    PROVE  /\ Awaited(par, signals, e) => Awaited(new, Append(signals, s), e)
           /\ MovedUnder(par, signals, e) =>
                 \/ MovedUnder(new, Append(signals, s), e)
                 \/ Awaited(new, Append(signals, s), e)
           /\ WillMark(new, s) = e => Awaited(new, Append(signals, s), e)
           /\ s.name = "changed" /\ new[s.node] = e =>
                 MovedUnder(new, Append(signals, s), e)
<1> DEFINE all == Append(signals, s)
           n == Len(signals)
<1>1. /\ Len(all) = n + 1 /\ n \in Nat /\ all[n + 1] = s
      /\ \A i \in 1 .. n : all[i] = signals[i] /\ signals[i] \in Signal
  BY AppendProperties
<1> HIDE DEF all
<1>2. n + 1 \in 1 .. Len(all) /\ 1 .. n \subseteq 1 .. Len(all)
  BY <1>1
<1>0. \A i \in 1 .. n : signals[i].node \in Entity
  BY <1>1 DEF Signal
<1>3. WillMark(new, s) = e => Awaited(new, all, e)
  BY <1>1, <1>2 DEF Awaited
<1>4. ASSUME NEW i \in 1 .. n, WillMark(par, signals[i]) = e
      PROVE  Awaited(new, all, e)
  <2>1. CASE signals[i].name = "transform" /\ signals[i].node = s.node
    BY <1>1, <1>2, <1>3, <1>4, <2>1 DEF WillMark, Awaited
  <2>2. CASE ~(signals[i].name = "transform" /\ signals[i].node = s.node)
    <3>1. WillMark(new, all[i]) = e
      BY <1>0, <1>1, <1>4, <2>2 DEF WillMark
    <3> QED  BY <1>2, <3>1 DEF Awaited
  <2> QED  BY <2>1, <2>2
<1>5. ASSUME NEW i \in 1 .. n, signals[i].name = "changed",
             par[signals[i].node] = e
      PROVE  MovedUnder(new, all, e) \/ Awaited(new, all, e)
  <2>1. CASE new[signals[i].node] = e
    BY <1>1, <1>2, <1>5, <2>1 DEF MovedUnder
  <2>2. CASE new[signals[i].node] # e
    <3>1. signals[i].node = s.node
      BY <1>0, <1>1, <1>5, <2>2
    <3> QED  BY <1>3, <1>5, <2>2, <3>1
  <2> QED  BY <2>1, <2>2
<1>6. s.name = "changed" /\ new[s.node] = e => MovedUnder(new, all, e)
  BY <1>1, <1>2 DEF MovedUnder
<1> QED  BY <1>3, <1>4, <1>5, <1>6 DEF Awaited, MovedUnder, all

\* What the innermost signal brings is all that its delivery takes away.
LEMMA DeliverDropsOne ==
    ASSUME NEW signals \in Seq(Signal), signals # <<>>, NEW par, NEW e
    PROVE  /\ Awaited(par, signals, e) =>
                 \/ Awaited(par, Front(signals), e)
                 \/ WillMark(par, Last(signals)) = e
           /\ MovedUnder(par, signals, e) =>
                 \/ MovedUnder(par, Front(signals), e)
                 \/ Last(signals).name = "changed" /\ par[Last(signals).node] = e
<1> DEFINE n == Len(signals)
           rest == Front(signals)
<1>1. /\ n \in Nat \ {0} /\ Last(signals) = signals[n] /\ Len(rest) = n - 1
      /\ \A i \in 1 .. n - 1 : rest[i] = signals[i]
  BY FrontProperties
<1> HIDE DEF rest
<1>2. \A i \in 1 .. n : i = n \/ (i \in 1 .. Len(rest) /\ rest[i] = signals[i])
  BY <1>1
<1> QED  BY <1>1, <1>2 DEF Awaited, MovedUnder, rest

-----------------------------------------------------------------------------
(* What is owed *)

\* The walk marks no entity without children but the one it starts from.
LEMMA MarkedChildless ==
    ASSUME NEW par \in [Entity -> Entity \cup {Null}],
           NEW D \in SUBSET Entity, NEW e \in Entity,
           NEW a \in Marked(par, D, e), \A b \in Entity : par[b] # a
    PROVE  a \in D \cup {e}
<1> DEFINE S == Marked(par, D, e) \ {a}
<1>1. \A s \in S \ D : par[s] \in S \cup {Null}
  <2>1. \A s \in Marked(par, D, e) \ D :
           par[s] # Null => par[s] \in Marked(par, D, e)
    BY MarkedProperties
  <2>2. \A s \in S : s \in Entity /\ par[s] # a
    BY MarkedType
  <2> QED  BY <2>1, <2>2
<1>2. S \in SUBSET Entity /\ (a \notin D \cup {e} => D \cup {e} \subseteq S)
  BY DEF Marked
<1>3. a \notin S
  OBVIOUS
<1> HIDE DEF S
<1> QED  BY <1>1, <1>2, <1>3 DEF Marked

\* Marking pays what is owed, if it goes on above what it marks and unmarks
\* nothing but what has no children and fits.
LEMMA MarkingPays ==
    ASSUME TypeOK, Owed, UNCHANGED <<parent, xf, computed>>,
           dirty' \in SUBSET Entity,
           \A a \in dirty' \ dirty : parent[a] # Null => parent[a] \in dirty',
           \A d \in dirty \ dirty' :
              /\ \A k \in Entity : parent[k] # d
              /\ computed[d] = BoxOverChildren(d),
           \A e \in Entity \ dirty' : intrinsic'[e] = intrinsic[e],
           \A e \in Entity \ dirty' :
              /\ Awaited(parent, pending, e) => Awaited(parent, pending', e)
              /\ MovedUnder(parent, pending, e) =>
                    MovedUnder(parent, pending', e) \/ Awaited(parent, pending', e)
    PROVE  Owed'
<1>1. ASSUME NEW d \in dirty', parent[d] # Null, parent[d] \notin dirty'
      PROVE  Awaited(parent, pending', parent[d])
  <2>1. parent[d] \in Entity /\ d \in dirty /\ parent[d] \notin dirty
    BY <1>1 DEF TypeOK
  <2> QED  BY <1>1, <2>1 DEF Owed, DirtyOrAwaited
<1>2. ASSUME NEW e \in Entity, e \notin dirty'
      PROVE  \/ computed'[e] = BoxOverChildren(e)'
             \/ Awaited(parent, pending', e)
             \/ MovedUnder(parent, pending', e)
  <2>1. Children(e)' = Children(e)
    BY DEF Children
  <2>2. BoxOverChildren(e)' = BoxOverChildren(e)
    BY <1>2, <2>1, BoxOverChildrenSame
  <2>3. CASE e \in dirty
    BY <1>2, <2>2, <2>3
  <2>4. CASE e \notin dirty
    BY <1>2, <2>2, <2>4 DEF Owed, FitsOrAwaited
  <2> QED  BY <2>3, <2>4
<1>3. DirtyOrAwaited'
  <2>1. parent' = parent
    OBVIOUS
  <2> QED  BY <1>1, <2>1 DEF DirtyOrAwaited
<1>4. FitsOrAwaited'
  <2>1. parent' = parent
    OBVIOUS
  <2> QED  BY <1>2, <2>1 DEF FitsOrAwaited
<1> QED  BY <1>3, <1>4 DEF Owed

\* Edits of intrinsic bounds leave no more owed.
LEMMA OwedIntrinsic ==
    ASSUME TypeOK, Owed, NEW e \in Entity, EditIntrinsic(e)
    PROVE  Owed'
<1>1. /\ UNCHANGED <<parent, xf, pending>>
      /\ \A k \in Entity \ {e} : intrinsic'[k] = intrinsic[k]
  BY DEF EditIntrinsic, RemoveIntrinsic, SetIntrinsic, TypeOK
<1>2. CASE dirty' = Marked(parent, dirty, e) /\ UNCHANGED computed
  <2>1. /\ dirty \cup {e} \subseteq dirty' /\ dirty' \in SUBSET Entity
        /\ \A a \in dirty' \ dirty : parent[a] # Null => parent[a] \in dirty'
    BY <1>2, MarkedProperties, MarkedType DEF TypeOK
  <2> QED  BY <1>1, <1>2, <2>1, MarkingPays
<1>3. CASE /\ RemoveIntrinsic(e) /\ parent[e] = Null /\ Children(e) = {}
  <2>1. /\ dirty' = dirty \ {e} /\ intrinsic'[e] = {} /\ computed'[e] = {}
        /\ \A k \in Entity \ {e} : computed'[k] = computed[k]
    BY <1>3 DEF RemoveIntrinsic, TypeOK
  <2>2. \A k \in Entity : Children(k)' = Children(k) /\ e \notin Children(k)
    BY <1>1, <1>3, EntityAssumption DEF Children
  <2>3. DirtyOrAwaited'
    BY <1>1, <2>1, <2>2, <1>3 DEF Owed, DirtyOrAwaited, Children, TypeOK
  <2>4. ASSUME NEW k \in Entity \ dirty'
        PROVE  \/ computed'[k] = BoxOverChildren(k)'
               \/ Awaited(parent, pending, k)
               \/ MovedUnder(parent, pending, k)
    <3>1. CASE k = e
      <4>1. BoxOverChildren(e)' = Hull({})
        BY <1>3, <2>1, <2>2 DEF BoxOverChildren
      <4> QED  BY <2>1, <3>1, <4>1, HullAssumption
    <3>2. CASE k # e
      <4>1. \A c \in Children(k) : computed'[c] = computed[c] /\ xf'[c] = xf[c]
        BY <1>1, <2>1, <2>2 DEF Children
      <4>2. BoxOverChildren(k)' = BoxOverChildren(k)
        BY <1>1, <2>2, <3>2, <4>1, BoxOverChildrenSame
      <4> QED  BY <2>1, <3>2, <4>2 DEF Owed, FitsOrAwaited
    <3> QED  BY <3>1, <3>2
  <2>5. FitsOrAwaited'
    BY <1>1, <2>4 DEF FitsOrAwaited
  <2> QED  BY <2>3, <2>5 DEF Owed
<1> QED  BY <1>2, <1>3 DEF EditIntrinsic, RemoveIntrinsic, SetIntrinsic

\* A recomputation that returns leaves no more owed: what it cleans fits, and
\* a clean parent of it was awaited before.
LEMMA OwedReturn ==
    ASSUME TypeOK, Owed, Calls, Return, UNCHANGED pending
    PROVE  Owed'
<1> DEFINE t == Top.node
<1>1. /\ t \in Entity /\ t \in dirty /\ Children(t) \cap dirty = {}
      /\ Top.box = BoxOver(computed, t, Children(t))
  <2>1. Top \in Call /\ OnTrack(Top) /\ Top.todo = {}
    BY TopType DEF Return, Calls, CallsOnTrack
  <2> QED  BY <2>1 DEF OnTrack, Call
<1>2. /\ UNCHANGED <<parent, xf, intrinsic, pending>> /\ dirty' = dirty \ {t}
      /\ computed'[t] = Top.box
      /\ \A k \in Entity \ {t} : computed'[k] = computed[k]
  BY <1>1 DEF Return, TypeOK
<1> HIDE DEF t
<1>3. \A k \in Entity : Children(k)' = Children(k)
  BY <1>2 DEF Children
<1>4. DirtyOrAwaited'
  <2>1. \A a \in dirty : parent[a] # t
    BY <1>1 DEF Children, TypeOK
  <2> QED  BY <1>2, <2>1 DEF Owed, DirtyOrAwaited
<1>5. ASSUME NEW k \in Entity \ dirty'
      PROVE  \/ computed'[k] = BoxOverChildren(k)'
             \/ Awaited(parent, pending, k)
             \/ MovedUnder(parent, pending, k)
  <2>1. CASE t \in Children(k)
    <3>1. k \notin dirty /\ parent[t] = k /\ k # Null
      BY <1>1, <1>2, <2>1, EntityAssumption DEF Children
    <3> QED  BY <1>1, <3>1 DEF Owed, DirtyOrAwaited
  <2>2. CASE t \notin Children(k)
    <3>1. BoxOverChildren(k)' = BoxOverChildren(k)
      <4>1. \A c \in Children(k) : computed'[c] = computed[c] /\ xf'[c] = xf[c]
        BY <1>2, <2>2 DEF Children
      <4> QED  BY <1>2, <1>3, <4>1, BoxOverChildrenSame
    <3>2. CASE k = t
      BY <1>1, <1>2, <3>1, <3>2 DEF BoxOver, BoxOverChildren
    <3>3. CASE k # t
      BY <1>2, <3>1, <3>3 DEF Owed, FitsOrAwaited
    <3> QED  BY <3>2, <3>3
  <2> QED  BY <2>1, <2>2
<1>6. FitsOrAwaited'
  BY <1>2, <1>5 DEF FitsOrAwaited
<1> QED  BY <1>4, <1>6 DEF Owed

\* An operation whose signal is still to come leaves owed what the signal
\* brings: whose children it changes, or which of their boxes, is awaited or
\* has a new child that was moved.
LEMMA OwedPublish ==
    ASSUME TypeOK, SignalsFit, Owed, UNCHANGED <<intrinsic, dirty, computed>>,
           NEW s \in Signal, pending' = Append(pending, s),
           parent' \in [Entity -> Entity \cup {Null}],
           \A k \in Entity \ {s.node} : parent'[k] = parent[k] /\ xf'[k] = xf[k],
           \/ parent'[s.node] = parent[s.node]
           \/ parent[s.node] = Null
           \/ parent[s.node] = WillMark(parent', s),
           \A e \in Entity :
              (e = parent'[s.node] /\ (parent[s.node] # e \/ xf'[s.node] # xf[s.node]))
                  => WillMark(parent', s) = e \/ s.name = "changed",
           s.name = "changed" => s.node \notin dirty \/ parent'[s.node] \in dirty
    PROVE  Owed'
<1> DEFINE c == s.node
<1>0. pending \in Seq(Signal) /\ c \in Entity
  BY DEF SignalsFit, Signal
<1>1. ASSUME NEW e \in Entity
      PROVE  /\ Awaited(parent, pending, e) => Awaited(parent', pending', e)
             /\ MovedUnder(parent, pending, e) =>
                   MovedUnder(parent', pending', e) \/ Awaited(parent', pending', e)
             /\ WillMark(parent', s) = e => Awaited(parent', pending', e)
             /\ (s.name = "changed" /\ parent'[c] = e) =>
                   MovedUnder(parent', pending', e)
  <2>1. \/ parent'[c] = parent[c]
        \/ parent[c] \notin Entity
        \/ parent[c] = WillMark(parent', s)
    BY EntityAssumption
  <2> QED  BY <1>0, <2>1, PublishKeepsAwaited
<1>2. ASSUME NEW d \in dirty, parent'[d] # Null
      PROVE  parent'[d] \in dirty \/ Awaited(parent', pending', parent'[d])
  <2>1. d \in Entity /\ parent'[d] \in Entity
    BY <1>2 DEF TypeOK
  <2>2. CASE parent'[d] = parent[d]
    BY <1>1, <1>2, <2>1, <2>2 DEF Owed, DirtyOrAwaited
  <2>3. CASE parent'[d] # parent[d]
    <3>1. d = c
      BY <2>1, <2>3
    <3> QED  BY <1>1, <2>1, <2>3, <3>1
  <2> QED  BY <2>2, <2>3
<1>3. ASSUME NEW e \in Entity \ dirty
      PROVE  \/ computed[e] = BoxOverChildren(e)'
             \/ Awaited(parent', pending', e)
             \/ MovedUnder(parent', pending', e)
  <2>1. CASE parent[c] = e /\ parent'[c] # e
    BY <1>1, <2>1, EntityAssumption
  <2>2. CASE parent'[c] = e /\ (parent[c] # e \/ xf'[c] # xf[c])
    BY <1>1, <2>2
  <2>3. CASE /\ parent[c] = e <=> parent'[c] = e
             /\ parent'[c] = e => xf'[c] = xf[c]
    <3>1. Children(e)' = Children(e)
      BY <2>3 DEF Children
    <3>2. \A k \in Children(e) : xf'[k] = xf[k]
      BY <2>3 DEF Children
    <3>3. BoxOverChildren(e)' = BoxOverChildren(e)
      BY <3>1, <3>2, BoxOverChildrenSame
    <3> QED  BY <1>1, <3>3 DEF Owed, FitsOrAwaited
  <2> QED  BY <2>1, <2>2, <2>3
<1>4. DirtyOrAwaited'
  BY <1>2 DEF DirtyOrAwaited
<1>5. FitsOrAwaited'
  BY <1>3 DEF FitsOrAwaited
<1> QED  BY <1>4, <1>5 DEF Owed

\* What an operation publishes, and that it leaves the cache alone.
LEMMA OwedBegins ==
    ASSUME Base, SignalsFit, Owed, ~DirtyMoves,
           NEW e \in Entity,
           \/ \E x \in Xf \cup {NoXf} : BeginEditTransform(e, x)
           \/ \E p \in Entity : BeginAdd(e, p) \/ BeginReparent(e, p)
           \/ BeginUnparent(e)
    PROVE  Owed'
<1> USE DEF Publish
<1>0. TypeOK /\ parent \in [Entity -> Entity \cup {Null}]
  BY DEF Base, TypeOK
<1>1. ASSUME NEW x \in Xf \cup {NoXf}, BeginEditTransform(e, x)
      PROVE  Owed'
  <2> DEFINE s == [name |-> "transform", node |-> e, old |-> Null, new |-> Null]
  <2>1. s \in Signal /\ s.name = "transform" /\ s.node = e
    BY DEF Signal, Orphan
  <2>2. /\ UNCHANGED <<parent, intrinsic, dirty, computed>>
        /\ pending' = Append(pending, s)
        /\ \A k \in Entity \ {e} : xf'[k] = xf[k]
    BY <1>0, <1>1 DEF BeginEditTransform, TypeOK
  <2>3. WillMark(parent', s) = parent[e] /\ parent' = parent
    BY <2>1, <2>2 DEF WillMark
  <2> HIDE DEF s
  <2> QED  BY <1>0, <2>1, <2>2, <2>3, OwedPublish
<1>2. ASSUME NEW p \in Entity, BeginAdd(e, p)
      PROVE  Owed'
  <2> DEFINE s == [name |-> "added", node |-> e, old |-> Null, new |-> p]
  <2>1. s \in Signal /\ s.name = "added" /\ s.node = e /\ s.new = p
    BY DEF Signal, Orphan
  <2>2. /\ UNCHANGED <<xf, intrinsic, dirty, computed>>
        /\ pending' = Append(pending, s)
        /\ parent[e] = Null /\ parent'[e] = p
        /\ parent' \in [Entity -> Entity \cup {Null}]
        /\ \A k \in Entity \ {e} : parent'[k] = parent[k]
    BY <1>0, <1>2 DEF BeginAdd
  <2>3. WillMark(parent', s) = p
    BY <2>1 DEF WillMark
  <2> HIDE DEF s
  <2> QED  BY <1>0, <2>1, <2>2, <2>3, OwedPublish
<1>3. ASSUME NEW p \in Entity, BeginReparent(e, p)
      PROVE  Owed'
  <2> DEFINE s == [name |-> "changed", node |-> e, old |-> parent[e], new |-> p]
  <2>1. /\ s \in Signal /\ s.name = "changed" /\ s.node = e
        /\ s.old = parent[e] /\ s.new = p
    BY <1>0 DEF Signal, Orphan
  <2>2. /\ UNCHANGED <<xf, intrinsic, dirty, computed>>
        /\ pending' = Append(pending, s)
        /\ parent'[e] = p
        /\ parent' \in [Entity -> Entity \cup {Null}]
        /\ \A k \in Entity \ {e} : parent'[k] = parent[k]
        /\ e \notin dirty \/ p \in dirty
    BY <1>0, <1>3 DEF BeginReparent
  <2>3. WillMark(parent', s) = parent[e]
    BY <2>1 DEF WillMark
  <2> HIDE DEF s
  <2> QED  BY <1>0, <2>1, <2>2, <2>3, OwedPublish
<1>4. ASSUME BeginUnparent(e)
      PROVE  Owed'
  <2> DEFINE s == [name |-> "removed", node |-> e, old |-> parent[e], new |-> Null]
  <2>1. /\ s \in Signal /\ s.name = "removed" /\ s.node = e
        /\ s.old = parent[e] /\ s.new = Null
    BY <1>0 DEF Signal, Orphan
  <2>2. /\ UNCHANGED <<xf, intrinsic, dirty, computed>>
        /\ pending' = Append(pending, s)
        /\ parent'[e] = Null
        /\ parent' \in [Entity -> Entity \cup {Null}]
        /\ \A k \in Entity \ {e} : parent'[k] = parent[k]
    BY <1>0, <1>4 DEF BeginUnparent
  <2>3. WillMark(parent', s) = parent[e]
    BY <2>1 DEF WillMark
  <2> HIDE DEF s
  <2> QED  BY <1>0, <2>1, <2>2, <2>3, OwedPublish, EntityAssumption
<1> QED  BY <1>1, <1>2, <1>3, <1>4

\* Facts about the signal that is delivered.
LEMMA Innermost ==
    ASSUME SignalsFit, CutsStay, pending # <<>>
    PROVE  /\ Len(pending) \in Nat \ {0}
           /\ Last(pending) = pending[Len(pending)] /\ Last(pending) \in Signal
           /\ Last(pending).node \in Entity
           /\ Last(pending).name = "added" => Last(pending).new \in Entity
           /\ Last(pending).name \in {"removed", "changed"} =>
                 Last(pending).old \in Entity
           /\ Last(pending).name = "removed" =>
                 Droppable(Last(pending).node) /\ Last(pending).old # Last(pending).node
<1>1. /\ Len(pending) \in Nat \ {0} /\ Last(pending) = pending[Len(pending)]
      /\ Last(pending) \in Signal
  BY FrontProperties DEF SignalsFit
<1>2. Len(pending) \in 1 .. Len(pending)
  BY <1>1
<1> QED  BY <1>1, <1>2 DEF SignalsFit, CutsStay, Signal

\* The handlers of BoundsSystem pay what their signal was to bring.
LEMMA OwedDeliver ==
    ASSUME TypeOK, SignalsFit, Owed, CutsStay, Deliver
    PROVE  Owed'
<1> DEFINE s == Last(pending)
<1>1. /\ UNCHANGED <<parent, xf, intrinsic, computed>>
      /\ pending' = Front(pending) /\ pending # <<>>
      /\ pending \in Seq(Signal)
  BY DEF Deliver, SignalsFit
<1>2. ASSUME NEW e
      PROVE  /\ Awaited(parent, pending, e) =>
                   Awaited(parent, pending', e) \/ WillMark(parent, s) = e
             /\ MovedUnder(parent, pending, e) =>
                   \/ MovedUnder(parent, pending', e)
                   \/ s.name = "changed" /\ parent[s.node] = e
  BY <1>1, DeliverDropsOne
<1>3. /\ s.node \in Entity
      /\ s.name = "added" => s.new \in Entity
      /\ s.name \in {"removed", "changed"} => s.old \in Entity
      /\ s.name = "removed" => Droppable(s.node) /\ s.old # s.node
  BY <1>1, Innermost
<1>4. \/ s.name = "added" /\ OnAdded(s)
      \/ s.name = "removed" /\ OnChildRemoved(s.node, s.old)
      \/ s.name = "changed" /\ OnChanged(s)
      \/ s.name = "transform" /\ MarkParent(s.node)
  BY DEF Deliver
<1>5. parent \in [Entity -> Entity \cup {Null}] /\ dirty \in SUBSET Entity
  BY DEF TypeOK
<1> HIDE DEF s
<1>6. CASE s.name = "added"
  <2>1. dirty' = Marked(parent, dirty, s.new) /\ WillMark(parent, s) = s.new
    BY <1>4, <1>6 DEF OnAdded, WillMark
  <2>2. /\ dirty \cup {s.new} \subseteq dirty' /\ dirty' \in SUBSET Entity
        /\ \A a \in dirty' \ dirty : parent[a] # Null => parent[a] \in dirty'
    BY <1>3, <1>5, <1>6, <2>1, MarkedProperties, MarkedType
  <2> QED  BY <1>1, <1>2, <1>6, <2>1, <2>2, MarkingPays
<1>7. CASE s.name = "transform"
  <2>1. WillMark(parent, s) = parent[s.node]
    BY <1>7 DEF WillMark
  <2>2. CASE parent[s.node] = Null
    <3>1. dirty' = dirty
      BY <1>4, <1>7, <2>2 DEF MarkParent
    <3> QED  BY <1>1, <1>2, <1>5, <1>7, <2>1, <2>2, <3>1, MarkingPays, EntityAssumption
  <2>3. CASE parent[s.node] # Null
    <3>1. dirty' = Marked(parent, dirty, parent[s.node])
      BY <1>4, <1>7, <2>3 DEF MarkParent
    <3> DEFINE p == parent[s.node]
    <3>0. p \in Entity
      BY <1>3, <1>5, <2>3
    <3>2. /\ dirty \cup {p} \subseteq dirty' /\ dirty' \in SUBSET Entity
          /\ \A a \in dirty' \ dirty : parent[a] # Null => parent[a] \in dirty'
      <4> HIDE DEF p
      <4>1. dirty' = Marked(parent, dirty, p)
        BY <3>1 DEF p
      <4> QED  BY <1>5, <3>0, <4>1, MarkedProperties, MarkedType
    <3> QED  BY <1>1, <1>2, <1>7, <2>1, <3>2, MarkingPays
  <2> QED  BY <2>2, <2>3
<1>8. CASE s.name = "changed"
  <2> DEFINE M == Marked(parent, dirty, s.old)
  <2>1. WillMark(parent, s) = s.old /\ dirty' = Marked(parent, M, s.node)
    BY <1>4, <1>8 DEF WillMark, OnChanged
  <2>2. /\ dirty \cup {s.old} \subseteq M /\ M \in SUBSET Entity
        /\ \A a \in M \ dirty : parent[a] # Null => parent[a] \in M
    BY <1>3, <1>5, <1>8, MarkedProperties, MarkedType
  <2> HIDE DEF M
  <2>3. /\ M \cup {s.node} \subseteq dirty' /\ dirty' \in SUBSET Entity
        /\ \A a \in dirty' \ M : parent[a] # Null => parent[a] \in dirty'
    BY <1>3, <1>5, <2>1, <2>2, MarkedProperties, MarkedType
  <2>4. \A a \in dirty' \ dirty : parent[a] # Null => parent[a] \in dirty'
    BY <2>2, <2>3
  <2>5. ASSUME NEW e \in Entity \ dirty'
        PROVE  /\ Awaited(parent, pending, e) => Awaited(parent, pending', e)
               /\ MovedUnder(parent, pending, e) =>
                     MovedUnder(parent, pending', e) \/ Awaited(parent, pending', e)
    <3>1. Awaited(parent, pending, e) => Awaited(parent, pending', e)
      BY <1>2, <2>1, <2>2, <2>3
    <3>2. ASSUME parent[s.node] = e
          PROVE  Awaited(parent, pending', e)
      <4>1. s.node \in dirty
        BY <2>3, <2>4, <3>2, EntityAssumption
      <4> QED  BY <2>2, <2>3, <3>1, <3>2, <4>1, EntityAssumption
               DEF Owed, DirtyOrAwaited
    <3> QED  BY <1>2, <3>1, <3>2
  <2> QED  BY <1>1, <2>2, <2>3, <2>4, <2>5, MarkingPays
<1>9. CASE s.name = "removed"
  <2> DEFINE M == Marked(parent, dirty, s.old)
  <2>1. /\ WillMark(parent, s) = s.old
        /\ dirty' = IF Children(s.node) = {} /\ intrinsic[s.node] = {}
                    THEN M \ {s.node} ELSE M
    <3>1. parent' = parent /\ OnChildRemoved(s.node, s.old)
      BY <1>1, <1>4, <1>9
    <3> QED  BY <1>9, <3>1 DEF WillMark, OnChildRemoved
  <2>2. /\ dirty \cup {s.old} \subseteq M /\ M \in SUBSET Entity
        /\ \A a \in M \ dirty : parent[a] # Null => parent[a] \in M
    BY <1>3, <1>5, <1>9, MarkedProperties, MarkedType
  <2>3. s.old # s.node
    BY <1>3, <1>9
  <2>4. CASE dirty' = M
    <3> HIDE DEF M
    <3> QED  BY <1>1, <1>2, <1>9, <2>1, <2>2, <2>4, MarkingPays
  <2>5. CASE /\ dirty' = M \ {s.node}
             /\ Children(s.node) = {} /\ intrinsic[s.node] = {}
    <3>1. \A k \in Entity : parent[k] # s.node
      BY <2>5 DEF Children
    <3>2. s.node \in M => s.node \in dirty
      BY <1>3, <1>5, <1>9, <2>3, <3>1, MarkedChildless
    <3> HIDE DEF M
    <3>3. \A a \in dirty' \ dirty : parent[a] # Null => parent[a] \in dirty'
      BY <2>2, <2>5, <3>1
    <3>4. s.node \in dirty => computed[s.node] = BoxOverChildren(s.node)
      <4>1. BoxOverChildren(s.node) = Hull({})
        BY <2>5 DEF BoxOverChildren
      <4> QED  BY <1>3, <1>9, <2>5, <4>1, HullAssumption DEF Droppable
    <3>5. \A d \in dirty \ dirty' : d = s.node
      BY <2>2, <2>5
    <3>6. ASSUME NEW e \in Entity \ dirty'
          PROVE  /\ Awaited(parent, pending, e) => Awaited(parent, pending', e)
                 /\ MovedUnder(parent, pending, e) => MovedUnder(parent, pending', e)
      BY <1>2, <1>9, <2>1, <2>2, <2>3, <2>5
    <3> QED  BY <1>1, <2>2, <2>5, <3>1, <3>3, <3>4, <3>5, <3>6, MarkingPays
  <2> QED  BY <2>1, <2>4, <2>5
<1> QED  BY <1>4, <1>6, <1>7, <1>8, <1>9

-----------------------------------------------------------------------------
(* What has been cut off *)

\* Steps that publish nothing keep the rule, if they leave what has been cut
\* off without children or bounds as it is, or clean.
LEMMA CutsKept ==
    ASSUME CutsStay, UNCHANGED parent, Len(pending') <= Len(pending),
           Len(pending) \in Nat, Len(pending') \in Nat,
           \A i \in 1 .. Len(pending') : pending'[i] = pending[i],
           \A i \in 1 .. Len(pending'), c \in Entity :
              /\ pending[i].name = "removed" /\ pending[i].node = c
              /\ Children(c) = {} /\ intrinsic'[c] = {} /\ c \in dirty'
              => /\ c \in dirty /\ intrinsic[c] = {}
                 /\ computed'[c] = computed[c]
    PROVE  CutsStay'
<1>1. SUFFICES ASSUME NEW i \in 1 .. Len(pending'), NEW c \in Entity,
                      pending'[i].name = "removed", pending'[i].node = c
               PROVE  /\ Droppable(c)'
                      /\ pending'[i].old # c
                      /\ \A j \in i + 1 .. Len(pending') :
                            c \notin {pending'[j].node, pending'[j].old,
                                     pending'[j].new}
  BY DEF CutsStay
<1>2. /\ i \in 1 .. Len(pending) /\ pending'[i] = pending[i]
      /\ pending[i].name = "removed" /\ pending[i].node = c
  BY <1>1
<1>3. /\ Droppable(c) /\ pending[i].old # c
      /\ \A j \in i + 1 .. Len(pending) :
            c \notin {pending[j].node, pending[j].old, pending[j].new}
  BY <1>2 DEF CutsStay
<1>4. Children(c)' = Children(c)
  BY DEF Children
<1>5. Droppable(c)'
  BY <1>1, <1>2, <1>3, <1>4 DEF Droppable
<1>6. \A j \in i + 1 .. Len(pending') :
         j \in i + 1 .. Len(pending) /\ pending'[j] = pending[j]
  OBVIOUS
<1> QED  BY <1>2, <1>3, <1>5, <1>6

\* An operation that may edit S edits nothing that has been cut off.
LEMMA EditsNoCut ==
    ASSUME ~EditsRemoved, NEW S, MayEdit(S), SignalsFit,
           NEW i \in 1 .. Len(pending), pending[i].name = "removed"
    PROVE  pending[i].node \notin S
<1>1. pending[i] \in Range(pending)
  BY DEF SignalsFit, Range
<1> QED  BY <1>1 DEF MayEdit

\* Signals tell of entities.
LEMMA SignalNodes ==
    ASSUME SignalsFit, NEW i \in 1 .. Len(pending)
    PROVE  pending[i].node \in Entity
<1>1. pending[i] \in Signal
  BY ElementOfSeq DEF SignalsFit
<1> QED  BY <1>1 DEF Signal

\* Edits of bounds keep the rule.
LEMMA CutsIntrinsic ==
    ASSUME TypeOK, SignalsFit, CutsStay, ~EditsRemoved,
           NEW e \in Entity, EditIntrinsic(e)
    PROVE  CutsStay'
<1>1. /\ UNCHANGED <<parent, pending>> /\ MayEdit({e})
      /\ \A k \in Entity \ {e} : intrinsic'[k] = intrinsic[k]
      /\ \A k \in Entity \ {e} : computed'[k] = computed[k]
      /\ dirty' = Marked(parent, dirty, e) \/ dirty' = dirty \ {e}
  BY DEF EditIntrinsic, SetIntrinsic, RemoveIntrinsic, TypeOK
<1>2. Len(pending) \in Nat
  BY DEF SignalsFit
<1>3. ASSUME NEW i \in 1 .. Len(pending), pending[i].name = "removed",
             Children(pending[i].node) = {}, pending[i].node \in dirty'
      PROVE  /\ pending[i].node \in Entity \ {e}
             /\ pending[i].node \in dirty
  <2>1. pending[i].node \in Entity
    BY <1>2, SignalNodes
  <2>2. pending[i].node # e
    BY <1>1, <1>3, EditsNoCut
  <2>3. \A k \in Entity : parent[k] # pending[i].node
    BY <1>3 DEF Children
  <2>4. CASE dirty' = Marked(parent, dirty, e)
    <3>1. pending[i].node \in dirty \cup {e}
      BY <1>3, <2>3, <2>4, MarkedChildless DEF TypeOK
    <3> QED  BY <2>1, <2>2, <3>1
  <2>5. CASE dirty' = dirty \ {e}
    BY <1>3, <2>1, <2>2, <2>5
  <2> QED  BY <1>1, <2>4, <2>5
<1>4. Len(pending') = Len(pending) /\ \A i \in 1 .. Len(pending') : pending'[i] = pending[i]
  BY <1>1
<1> QED  BY <1>1, <1>2, <1>3, <1>4, CutsKept

\* So do queries: what is recomputed is no longer dirty.
LEMMA CutsQueried ==
    ASSUME TypeOK, SignalsFit, CutsStay, Recomputation \/ \E e \in Entity : Query(e),
           UNCHANGED pending
    PROVE  CutsStay'
<1>1. /\ UNCHANGED <<parent, intrinsic>> /\ dirty' \subseteq dirty
      /\ \A k \in dirty' : computed'[k] = computed[k]
  <2>1. CASE Return
    <3>1. dirty' = dirty \ {Top.node} /\ computed' = [computed EXCEPT ![Top.node] = Top.box]
      BY <2>1 DEF Return
    <3>2. \A k \in dirty' : computed'[k] = computed[k]
      BY <3>1 DEF TypeOK
    <3> QED  BY <2>1, <3>1, <3>2 DEF Return
  <2>2. CASE ~Return
    BY <2>2 DEF Recomputation, VisitDirty, VisitClean, Query
  <2> QED  BY <2>1, <2>2
<1>2. Len(pending) \in Nat
  BY DEF SignalsFit
<1> QED  BY <1>1, <1>2, CutsKept

\* So do the handlers of signals about something else.
LEMMA CutsDeliver ==
    ASSUME TypeOK, SignalsFit, CutsStay, Deliver
    PROVE  CutsStay'
<1> DEFINE s == Last(pending)
           n == Len(pending)
<1>1. /\ UNCHANGED <<parent, xf, intrinsic, computed>>
      /\ pending' = Front(pending) /\ pending # <<>>
      /\ pending \in Seq(Signal)
  BY DEF Deliver, SignalsFit
<1>2. /\ n \in Nat \ {0} /\ s = pending[n] /\ Len(pending') = n - 1
      /\ \A i \in 1 .. n - 1 : pending'[i] = pending[i]
  BY <1>1, FrontProperties
<1>3. /\ s.node \in Entity
      /\ s.name = "added" => s.new \in Entity
      /\ s.name \in {"removed", "changed"} => s.old \in Entity
  BY <1>1, Innermost
<1>4. \/ s.name = "added" /\ OnAdded(s)
      \/ s.name = "removed" /\ OnChildRemoved(s.node, s.old)
      \/ s.name = "changed" /\ OnChanged(s)
      \/ s.name = "transform" /\ MarkParent(s.node)
  BY DEF Deliver
<1>5. parent \in [Entity -> Entity \cup {Null}] /\ dirty \in SUBSET Entity
  BY DEF TypeOK
<1>6. \A i \in 1 .. n - 1 : pending[i].name = "removed" =>
         pending[i].node \notin {s.node, s.old, s.new}
  BY <1>2, SignalNodes DEF CutsStay
<1> HIDE DEF s, n
<1>7. ASSUME NEW c, c \notin {s.node, s.old, s.new}, Children(c) = {}, c \in dirty'
      PROVE  c \in dirty
  <2>1. \A b \in Entity : parent[b] # c
    BY <1>7 DEF Children
  <2>2. ASSUME NEW e \in Entity, NEW D \in SUBSET Entity, c # e,
               c \in Marked(parent, D, e)
        PROVE  c \in D
    BY <1>5, <2>1, <2>2, MarkedChildless
  <2>3. CASE s.name = "added"
    BY <1>3, <1>4, <1>5, <1>7, <2>2, <2>3 DEF OnAdded
  <2>4. CASE s.name = "removed"
    <3>1. c \in Marked(parent, dirty, s.old)
      BY <1>1, <1>4, <1>7, <2>4 DEF OnChildRemoved
    <3> QED  BY <1>3, <1>5, <1>7, <2>2, <2>4, <3>1
  <2>5. CASE s.name = "changed"
    <3>1. c \in Marked(parent, Marked(parent, dirty, s.old), s.node)
      BY <1>4, <1>7, <2>5 DEF OnChanged
    <3>2. c \in Marked(parent, dirty, s.old)
      BY <1>3, <1>7, <2>2, <3>1, MarkedType
    <3> QED  BY <1>3, <1>5, <1>7, <2>2, <2>5, <3>2
  <2>6. CASE s.name = "transform"
    <3>1. CASE parent[s.node] = Null
      BY <1>4, <1>7, <2>6, <3>1 DEF MarkParent
    <3>2. CASE parent[s.node] # Null
      <4>1. c \in Marked(parent, dirty, parent[s.node])
        BY <1>4, <1>7, <2>6, <3>2 DEF MarkParent
      <4>2. parent[s.node] \in Entity /\ c # parent[s.node]
        BY <1>3, <1>5, <2>1, <3>2
      <4> QED  BY <1>5, <2>2, <4>1, <4>2
    <3> QED  BY <3>1, <3>2
  <2> QED  BY <1>4, <2>3, <2>4, <2>5, <2>6
<1>8. ASSUME NEW i \in 1 .. Len(pending'), pending[i].name = "removed",
             Children(pending[i].node) = {}, pending[i].node \in dirty'
      PROVE  pending[i].node \in dirty
  BY <1>2, <1>6, <1>7, <1>8
<1>9. Len(pending') <= Len(pending) /\ Len(pending) \in Nat /\ Len(pending') \in Nat
  BY <1>2 DEF n
<1> QED  BY <1>1, <1>2, <1>8, <1>9, CutsKept

\* And so do new operations, which edit nothing that has been cut off.
LEMMA CutsPublish ==
    ASSUME TypeOK, SignalsFit, CutsStay, UNCHANGED <<intrinsic, dirty, computed>>,
           NEW s \in Signal, pending' = Append(pending, s),
           \A i \in 1 .. Len(pending) : pending[i].name = "removed" =>
              pending[i].node \notin {s.node, s.old, s.new},
           \A k \in Entity \ {s.node} : parent'[k] = parent[k],
           \/ UNCHANGED parent
           \/ {parent[s.node], parent'[s.node]} \subseteq {s.old, s.new, Null},
           s.name = "removed" => Droppable(s.node)' /\ s.old # s.node
    PROVE  CutsStay'
<1> DEFINE n == Len(pending)
<1>1. /\ n \in Nat /\ Len(pending') = n + 1 /\ pending'[n + 1] = s
      /\ \A i \in 1 .. n : pending'[i] = pending[i]
  BY AppendProperties DEF SignalsFit
<1>2. SUFFICES ASSUME NEW i \in 1 .. Len(pending'), NEW c \in Entity,
                      pending'[i].name = "removed", pending'[i].node = c
               PROVE  /\ Droppable(c)'
                      /\ pending'[i].old # c
                      /\ \A j \in i + 1 .. Len(pending') :
                            c \notin {pending'[j].node, pending'[j].old,
                                     pending'[j].new}
  BY DEF CutsStay
<1>3. CASE i \in 1 .. n
  <2>1. /\ Droppable(c) /\ pending[i].old # c
        /\ \A j \in i + 1 .. n :
              c \notin {pending[j].node, pending[j].old, pending[j].new}
    BY <1>1, <1>2, <1>3 DEF CutsStay
  <2>2. c \notin {s.node, s.old, s.new} /\ c # Null
    BY <1>1, <1>2, <1>3, EntityAssumption
  <2>3. parent'[c] = parent[c] /\ Children(c)' = Children(c)
    <3>1. CASE UNCHANGED parent
      BY <3>1 DEF Children
    <3>2. CASE {parent[s.node], parent'[s.node]} \subseteq {s.old, s.new, Null}
      <4>1. \A k \in Entity : parent'[k] = c <=> parent[k] = c
        BY <2>2, <3>2
      <4> QED  BY <2>2, <4>1 DEF Children
    <3> QED  BY <3>1, <3>2
  <2>4. Droppable(c)'
    BY <2>1, <2>3 DEF Droppable
  <2>5. ASSUME NEW j \in i + 1 .. n + 1
        PROVE  c \notin {pending'[j].node, pending'[j].old, pending'[j].new}
    <3>1. CASE j = n + 1
      BY <1>1, <2>2, <3>1
    <3>2. CASE j # n + 1
      <4>1. j \in i + 1 .. n /\ j \in 1 .. n
        BY <1>1, <1>3, <3>2
      <4> QED  BY <1>1, <2>1, <4>1
    <3> QED  BY <3>1, <3>2
  <2> QED  BY <1>1, <1>3, <2>1, <2>4, <2>5
<1>4. CASE i = n + 1
  <2>1. pending'[i] = s /\ i + 1 .. Len(pending') = {}
    BY <1>1, <1>4
  <2> QED  BY <1>2, <2>1
<1> QED  BY <1>1, <1>3, <1>4

\* The operations keep the rule with what they publish.
LEMMA CutsBegins ==
    ASSUME Base, SignalsFit, CutsStay, ~EditsRemoved, ~DirtyLeaves,
           NEW e \in Entity,
           \/ \E x \in Xf \cup {NoXf} : BeginEditTransform(e, x)
           \/ \E p \in Entity : BeginAdd(e, p) \/ BeginReparent(e, p)
           \/ BeginUnparent(e)
    PROVE  CutsStay'
<1> USE DEF Publish
<1>0. TypeOK /\ parent \in [Entity -> Entity \cup {Null}] /\ pending \in Seq(Signal)
  BY DEF Base, TypeOK, SignalsFit
<1>1. ASSUME NEW x \in Xf \cup {NoXf}, BeginEditTransform(e, x)
      PROVE  CutsStay'
  <2> DEFINE s == [name |-> "transform", node |-> e, old |-> Null, new |-> Null]
  <2>1. /\ s \in Signal /\ s.name = "transform" /\ s.node = e
        /\ s.old = Null /\ s.new = Null
    BY DEF Signal, Orphan
  <2>2. /\ UNCHANGED <<parent, intrinsic, dirty, computed>> /\ MayEdit({e})
        /\ pending' = Append(pending, s)
    BY <1>1 DEF BeginEditTransform
  <2> HIDE DEF s
  <2>3. \A i \in 1 .. Len(pending) : pending[i].name = "removed" =>
           pending[i].node \notin {s.node, s.old, s.new}
    BY <2>1, <2>2, EditsNoCut, SignalNodes, EntityAssumption
  <2> QED  BY <1>0, <2>1, <2>2, <2>3, CutsPublish
<1>2. ASSUME NEW p \in Entity, BeginAdd(e, p)
      PROVE  CutsStay'
  <2> DEFINE s == [name |-> "added", node |-> e, old |-> Null, new |-> p]
  <2>1. /\ s \in Signal /\ s.name = "added" /\ s.node = e
        /\ s.old = Null /\ s.new = p
    BY DEF Signal, Orphan
  <2>2. /\ UNCHANGED <<xf, intrinsic, dirty, computed>> /\ MayEdit({e, p})
        /\ pending' = Append(pending, s)
        /\ parent[e] = Null /\ parent'[e] = p
        /\ \A k \in Entity \ {e} : parent'[k] = parent[k]
    BY <1>0, <1>2 DEF BeginAdd
  <2> HIDE DEF s
  <2>3. \A i \in 1 .. Len(pending) : pending[i].name = "removed" =>
           pending[i].node \notin {s.node, s.old, s.new}
    BY <2>1, <2>2, EditsNoCut, SignalNodes, EntityAssumption
  <2> QED  BY <1>0, <2>1, <2>2, <2>3, CutsPublish
<1>3. ASSUME NEW p \in Entity, BeginReparent(e, p)
      PROVE  CutsStay'
  <2> DEFINE s == [name |-> "changed", node |-> e, old |-> parent[e], new |-> p]
  <2>1. /\ s \in Signal /\ s.name = "changed" /\ s.node = e
        /\ s.old = parent[e] /\ s.new = p
    BY <1>0 DEF Signal, Orphan
  <2>2. /\ UNCHANGED <<xf, intrinsic, dirty, computed>> /\ MayEdit({e, p, parent[e]})
        /\ pending' = Append(pending, s)
        /\ parent'[e] = p
        /\ \A k \in Entity \ {e} : parent'[k] = parent[k]
    BY <1>0, <1>3 DEF BeginReparent
  <2> HIDE DEF s
  <2>3. \A i \in 1 .. Len(pending) : pending[i].name = "removed" =>
           pending[i].node \notin {s.node, s.old, s.new}
    BY <2>1, <2>2, EditsNoCut
  <2> QED  BY <1>0, <2>1, <2>2, <2>3, CutsPublish
<1>4. ASSUME BeginUnparent(e)
      PROVE  CutsStay'
  <2> DEFINE s == [name |-> "removed", node |-> e, old |-> parent[e], new |-> Null]
  <2>1. /\ s \in Signal /\ s.name = "removed" /\ s.node = e
        /\ s.old = parent[e] /\ s.new = Null
    BY <1>0 DEF Signal, Orphan
  <2>2. /\ UNCHANGED <<xf, intrinsic, dirty, computed>> /\ MayEdit({e, parent[e]})
        /\ pending' = Append(pending, s)
        /\ parent'[e] = Null /\ parent[e] # Null
        /\ \A k \in Entity \ {e} : parent'[k] = parent[k]
        /\ \/ e \notin dirty \/ computed[e] = {}
           \/ Children(e) # {} \/ intrinsic[e] # {}
    BY <1>0, <1>4 DEF BeginUnparent
  <2>3. parent[e] # e
    BY <2>2 DEF Base, Rooted, UpClosed
  <2>4. Children(e)' = Children(e)
    BY <2>2, <2>3, EntityAssumption DEF Children
  <2>5. Droppable(e)'
    BY <2>2, <2>4 DEF Droppable
  <2> HIDE DEF s
  <2>6. \A i \in 1 .. Len(pending) : pending[i].name = "removed" =>
           pending[i].node \notin {s.node, s.old, s.new}
    BY <2>1, <2>2, EditsNoCut, SignalNodes, EntityAssumption
  <2> QED  BY <1>0, <2>1, <2>2, <2>3, <2>5, <2>6, CutsPublish
<1> QED  BY <1>1, <1>2, <1>3, <1>4

-----------------------------------------------------------------------------
(* Types and the hierarchy *)

\* Operations publish signals that fit, and keep the types.
LEMMA TypesBegin ==
    ASSUME Base, SignalsFit, NEW e \in Entity,
           \/ \E x \in Xf \cup {NoXf} : BeginEditTransform(e, x)
           \/ \E p \in Entity : BeginAdd(e, p) \/ BeginReparent(e, p)
           \/ BeginUnparent(e)
    PROVE  /\ SignalsFit' /\ TypeOK' /\ IntrinsicIsBox' /\ Len(pending') <= MaxPending
           /\ Calls'
<1> DEFINE Goal == \E s \in Signal :
                      /\ pending' = Append(pending, s)
                      /\ s.name = "added" => s.new \in Entity
                      /\ s.name \in {"removed", "changed"} => s.old \in Entity
<1>0. parent \in [Entity -> Entity \cup {Null}]
  BY DEF Base, TypeOK
<1>1. ASSUME NEW x \in Xf \cup {NoXf}, BeginEditTransform(e, x)
      PROVE  Goal
  <2> DEFINE s == [name |-> "transform", node |-> e, old |-> Null, new |-> Null]
  <2>1. s \in Signal
    BY <1>0 DEF Signal, Orphan
  <2>2. pending' = Append(pending, s)
    BY <1>0, <1>1 DEF BeginEditTransform, Publish
  <2>3. s.name = "transform"
    OBVIOUS
  <2> HIDE DEF s
  <2> QED  BY <2>1, <2>2, <2>3
<1>2. ASSUME NEW p \in Entity, BeginAdd(e, p)
      PROVE  Goal
  <2> DEFINE s == [name |-> "added", node |-> e, old |-> Null, new |-> p]
  <2>1. s \in Signal
    BY <1>0 DEF Signal, Orphan
  <2>2. pending' = Append(pending, s)
    BY <1>0, <1>2 DEF BeginAdd, Publish
  <2>3. s.name = "added" /\ s.new \in Entity
    OBVIOUS
  <2> HIDE DEF s
  <2> QED  BY <2>1, <2>2, <2>3
<1>3. ASSUME NEW p \in Entity, BeginReparent(e, p)
      PROVE  Goal
  <2> DEFINE s == [name |-> "changed", node |-> e, old |-> parent[e], new |-> p]
  <2>1. s \in Signal
    BY <1>0 DEF Signal, Orphan
  <2>2. pending' = Append(pending, s) /\ parent[e] \in Entity
    BY <1>0, <1>3 DEF BeginReparent, Publish
  <2>3. s.name = "changed" /\ s.old = parent[e]
    OBVIOUS
  <2> HIDE DEF s
  <2> QED  BY <2>1, <2>2, <2>3
<1>4. ASSUME BeginUnparent(e)
      PROVE  Goal
  <2> DEFINE s == [name |-> "removed", node |-> e, old |-> parent[e], new |-> Null]
  <2>1. s \in Signal
    BY <1>0 DEF Signal, Orphan
  <2>2. pending' = Append(pending, s) /\ parent[e] \in Entity
    BY <1>0, <1>4 DEF BeginUnparent, Publish
  <2>3. s.name = "removed" /\ s.old = parent[e]
    OBVIOUS
  <2> HIDE DEF s
  <2> QED  BY <2>1, <2>2, <2>3
<1>5. Goal
  BY <1>1, <1>2, <1>3, <1>4
<1>6. SignalsFit'
  <2>0. PICK s \in Signal : /\ pending' = Append(pending, s)
                            /\ s.name = "added" => s.new \in Entity
                            /\ s.name \in {"removed", "changed"} => s.old \in Entity
    BY <1>5
  <2> DEFINE n == Len(pending)
  <2>1. /\ n \in Nat /\ Len(pending') = n + 1 /\ pending'[n + 1] = s
        /\ pending' \in Seq(Signal)
        /\ \A i \in 1 .. n : pending'[i] = pending[i]
    BY <2>0, AppendProperties DEF SignalsFit
  <2>2. \A i \in 1 .. Len(pending') : i = n + 1 \/ i \in 1 .. n
    BY <2>1
  <2> QED  BY <2>0, <2>1, <2>2 DEF SignalsFit
<1>7. TypeOK' /\ IntrinsicIsBox'
  BY DEF BeginEditTransform, BeginAdd, BeginReparent, BeginUnparent, Base, TypeOK,
         IntrinsicIsBox
<1>8. Len(pending') <= MaxPending
  <2>1. Len(pending') = Len(pending) + 1 /\ Len(pending) \in Nat
    BY <1>5, AppendProperties DEF SignalsFit
  <2>2. Len(pending) < MaxPending
    BY DEF BeginEditTransform, BeginAdd, BeginReparent, BeginUnparent, Publish
  <2> QED  BY <2>1, <2>2, MaxPendingAssumption
<1>9. Calls'
  <2>1. stack' = <<>>
    BY DEF BeginEditTransform, BeginAdd, BeginReparent, BeginUnparent, MayEdit, Idle
  <2> QED  BY <2>1, CallsIdle
<1> QED  BY <1>6, <1>7, <1>8, <1>9

\* Operations keep the hierarchy free of cycles.
LEMMA ForestBegins ==
    ASSUME Base, NEW e \in Entity,
           \/ \E x \in Xf \cup {NoXf} : BeginEditTransform(e, x)
           \/ \E p \in Entity : BeginAdd(e, p) \/ BeginReparent(e, p)
           \/ BeginUnparent(e)
    PROVE  Rooted' /\ BottomedOut'
<1>1. CASE UNCHANGED parent
  BY <1>1 DEF Base, Rooted, UpClosed, BottomedOut, Children
<1>2. ASSUME NEW p \in Entity, BeginAdd(e, p) \/ BeginReparent(e, p)
      PROVE  Rooted' /\ BottomedOut'
  BY <1>2, RootedBelow, BottomedOutBelow DEF Base, BeginAdd, BeginReparent
<1>3. CASE BeginUnparent(e)
  <2>1. \A k \in Entity : parent'[k] \in {parent[k], Null}
    BY <1>3 DEF BeginUnparent, Base, TypeOK
  <2>2. \A x \in Entity : Children(x)' \subseteq Children(x)
    BY <2>1, EntityAssumption DEF Children
  <2>3. Rooted'
    BY <2>1 DEF Base, Rooted, UpClosed
  <2> QED  BY <2>2, <2>3 DEF Base, BottomedOut
<1> QED  BY <1>1, <1>2, <1>3 DEF BeginEditTransform

\* A delivery keeps the types and the hierarchy.
LEMMA BaseDeliver ==
    ASSUME Base, SignalsFit, Len(pending) <= MaxPending, Deliver
    PROVE  Base' /\ SignalsFit' /\ Calls' /\ Len(pending') <= MaxPending
<1>1. /\ UNCHANGED <<parent, xf, intrinsic, computed, stack>> /\ stack = <<>>
      /\ pending' = Front(pending) /\ pending # <<>> /\ pending \in Seq(Signal)
      /\ \/ dirty' = dirty
         \/ \E D, e : dirty' = Marked(parent, D, e)
         \/ \E D, e, c : dirty' = Marked(parent, D, e) \ {c}
  BY DEF Deliver, OnAdded, OnChildRemoved, OnChanged, MarkParent, Idle, SignalsFit
<1>2. dirty' \in SUBSET Entity
  BY <1>1, MarkedType DEF Base, TypeOK
<1>3. TypeOK' /\ IntrinsicIsBox'
  BY <1>1, <1>2 DEF Base, TypeOK, IntrinsicIsBox
<1>4. Rooted' /\ BottomedOut'
  BY <1>1 DEF Base, Rooted, UpClosed, BottomedOut, Children
<1>5. /\ Len(pending) \in Nat \ {0} /\ Len(pending') = Len(pending) - 1
      /\ pending' \in Seq(Signal)
      /\ \A i \in 1 .. Len(pending) - 1 : pending'[i] = pending[i]
  BY <1>1, FrontProperties
<1>6. SignalsFit' /\ Len(pending') <= MaxPending
  BY <1>5, MaxPendingAssumption DEF SignalsFit
<1> QED  BY <1>1, <1>3, <1>4, <1>6, CallsIdle DEF Base

\* What does not publish or deliver is a step of Bounds.
LEMMA BaseQuiet ==
    ASSUME Base, Calls, SignalsFit, Next, UNCHANGED pending
    PROVE  Base' /\ Calls' /\ SignalsFit'
<1>1. TypeOK' /\ IntrinsicIsBox'
  BY TypeStep DEF Base
<1>2. Rooted' /\ BottomedOut'
  BY RootedStep, BottomedOutStep DEF Base
<1>3. Calls'
  BY CallsStep DEF Base
<1>4. SignalsFit'
  BY DEF SignalsFit
<1> QED  BY <1>1, <1>2, <1>3, <1>4 DEF Base

-----------------------------------------------------------------------------
(* Theorems *)

\* The parts of the invariant that hold whatever handlers edit.
Typed == Base /\ Calls /\ SignalsFit /\ Len(pending) <= MaxPending

\* It all holds at first.
LEMMA ReentryInitInv == ReentryInit => Typed /\ Owed /\ CutsStay
<1> SUFFICES ASSUME ReentryInit
             PROVE  Typed /\ Owed /\ CutsStay
  OBVIOUS
<1>1. IInv /\ BottomedOut /\ dirty = {}
  <2>1. IInv
    BY InitInv DEF ReentryInit
  <2> QED  BY <2>1, EntityAssumption DEF ReentryInit, Init, BottomedOut, Children
<1>2. Base /\ Calls
  BY <1>1 DEF IInv, Base
<1>3. pending = <<>> /\ pending \in Seq(Signal) /\ Len(pending) = 0
  BY DEF ReentryInit
<1>4. SignalsFit /\ CutsStay /\ Len(pending) <= MaxPending
  BY <1>3, MaxPendingAssumption DEF SignalsFit, CutsStay
<1>5. Owed
  BY <1>1 DEF IInv, Cached, CleanFitsChildren, Owed, DirtyOrAwaited, FitsOrAwaited
<1> QED  BY <1>2, <1>4, <1>5 DEF Typed

\* Steps keep the types, the hierarchy and the calls.
LEMMA TypedStep ==
    ASSUME Typed, [ReentryNext]_reentryVars
    PROVE  Typed'
<1>1. CASE UNCHANGED reentryVars
  <2>1. UNCHANGED vars /\ UNCHANGED pending
    BY <1>1 DEF reentryVars
  <2>2. TypeOK' /\ IntrinsicIsBox' /\ Rooted' /\ BottomedOut' /\ Calls'
    BY <2>1, TypeStep, RootedStep, BottomedOutStep, CallsStep DEF Typed, Base
  <2> QED  BY <2>1, <2>2 DEF Typed, Base, SignalsFit
<1>2. CASE Answer \/ \E e \in Entity : Ask(e) \/ EditIntrinsic(e)
  <2>1. Next /\ UNCHANGED pending
    BY <1>2 DEF Answer, Ask, EditIntrinsic, Next
  <2> QED  BY <2>1, BaseQuiet DEF Typed
<1>3. CASE Deliver
  BY <1>3, BaseDeliver DEF Typed
<1>4. ASSUME NEW e \in Entity,
             \/ \E x \in Xf \cup {NoXf} : BeginEditTransform(e, x)
             \/ \E p \in Entity : BeginAdd(e, p) \/ BeginReparent(e, p)
             \/ BeginUnparent(e)
      PROVE  Typed'
  BY <1>4, TypesBegin, ForestBegins DEF Typed, Base
<1> QED  BY <1>1, <1>2, <1>3, <1>4 DEF ReentryNext

\* Steps keep what is owed awaited, if clients keep off the two short walks and
\* handlers off what is being unparented.
LEMMA OwedStep ==
    ASSUME Typed, Owed, CutsStay, ~DirtyMoves, ~DirtyLeaves, ~EditsRemoved,
           [ReentryNext]_reentryVars
    PROVE  Owed' /\ CutsStay'
<1>0. TypeOK /\ Base /\ SignalsFit /\ Calls
  BY DEF Typed, Base
<1>1. CASE UNCHANGED <<parent, xf, intrinsic, dirty, computed, pending>>
  <2>1. CutsStay'
    BY <1>1 DEF CutsStay, Droppable, Children
  <2>2. Owed'
    BY <1>0, <1>1, MarkingPays DEF TypeOK
  <2> QED  BY <2>1, <2>2
<1>2. CASE Answer \/ \E e \in Entity : Ask(e)
  <2>1. CutsStay'
    BY <1>0, <1>2, CutsQueried DEF Answer, Ask
  <2>2. CASE Return
    BY <1>0, <1>2, <2>1, <2>2, OwedReturn DEF Answer, Ask, Query
  <2>3. CASE ~Return
    BY <1>1, <1>2, <2>3 DEF Answer, Ask, Recomputation, VisitDirty, VisitClean, Query
  <2> QED  BY <2>2, <2>3
<1>3. ASSUME NEW e \in Entity, EditIntrinsic(e)
      PROVE  Owed' /\ CutsStay'
  BY <1>0, <1>3, OwedIntrinsic, CutsIntrinsic
<1>4. CASE Deliver
  BY <1>0, <1>4, OwedDeliver, CutsDeliver
<1>5. ASSUME NEW e \in Entity,
             \/ \E x \in Xf \cup {NoXf} : BeginEditTransform(e, x)
             \/ \E p \in Entity : BeginAdd(e, p) \/ BeginReparent(e, p)
             \/ BeginUnparent(e)
      PROVE  Owed' /\ CutsStay'
  BY <1>0, <1>5, OwedBegins, CutsBegins
<1> QED  BY <1>1, <1>2, <1>3, <1>4, <1>5 DEF ReentryNext, reentryVars, vars

\* Every variable keeps its type, and signals nest no deeper than the bound,
\* whatever clients and handlers do.
THEOREM ReentryTypeCorrect == ReentrySpec => []ReentryTypeOK
<1>1. ReentryInit => Typed
  BY ReentryInitInv
<1>2. Typed /\ [ReentryNext]_reentryVars => Typed'
  BY TypedStep
<1>3. Typed => ReentryTypeOK
  BY DEF Typed, Base, SignalsFit, ReentryTypeOK
<1> QED  BY <1>1, <1>2, <1>3, PTL DEF ReentrySpec

\* The invariant, for those clients.
LEMMA ReentryInvHolds ==
    ASSUME DirtyMoves = FALSE, DirtyLeaves = FALSE, EditsRemoved = FALSE
    PROVE  ReentrySpec => [](Typed /\ Owed)
<1>1. ReentryInit => Typed /\ Owed /\ CutsStay
  BY ReentryInitInv
<1>2. (Typed /\ Owed /\ CutsStay) /\ [ReentryNext]_reentryVars
          => (Typed /\ Owed /\ CutsStay)'
  BY TypedStep, OwedStep
<1> QED  BY <1>1, <1>2, PTL DEF ReentrySpec

\* When no signal is under way nothing is owed.
LEMMA QuietOwesNothing ==
    ASSUME Typed, Owed, Quiet
    PROVE  DirtyUpToTheRoot /\ CleanIsExact
<1>1. \A e : ~Awaited(parent, pending, e) /\ ~MovedUnder(parent, pending, e)
  BY DEF Quiet, Awaited, MovedUnder
<1>2. DirtyUpToTheRoot /\ CleanFitsChildren
  BY <1>1 DEF Owed, DirtyOrAwaited, FitsOrAwaited, DirtyUpToTheRoot,
              CleanFitsChildren
<1> QED  BY <1>2, ExactIfFitting DEF Typed, Base

\* When the outermost operation has returned everything above a dirty entity
\* is dirty (_on_child_added, _on_child_removed, _on_reparent and
\* _dirty_parent_after_transform_edit deliver their marks last), however deep
\* handlers nested their edits, as long as the clients keep off the two short
\* walks and handlers leave alone what is just being unparented.
THEOREM ReentryDirtiness ==
    ASSUME DirtyMoves = FALSE, DirtyLeaves = FALSE, EditsRemoved = FALSE
    PROVE  ReentrySpec => []DirtyWhenQuiet
<1>1. ReentrySpec => [](Typed /\ Owed)
  BY ReentryInvHolds
<1>2. Typed /\ Owed => DirtyWhenQuiet
  BY QuietOwesNothing DEF DirtyWhenQuiet
<1> QED  BY <1>1, <1>2, PTL

\* For the same clients, whatever is not marked then has the box of its
\* subtree as it is (get_computed_bounds answers right), although handlers may
\* have recomputed and cleaned what the outer operations had yet to mark.
THEOREM ReentryExact ==
    ASSUME DirtyMoves = FALSE, DirtyLeaves = FALSE, EditsRemoved = FALSE
    PROVE  ReentrySpec => []ExactWhenQuiet
<1>1. ReentrySpec => [](Typed /\ Owed)
  BY ReentryInvHolds
<1>2. Typed /\ Owed => ExactWhenQuiet
  BY QuietOwesNothing DEF ExactWhenQuiet
<1> QED  BY <1>1, <1>2, PTL

=============================================================================
