--------------------------- MODULE TranslationProofs ---------------------------
(***************************************************************************)
(* The names the translator gives, for every schema and request.           *)
(***************************************************************************)
EXTENDS Translation, TLAPS
-----------------------------------------------------------------------------
(* Names: numbers are below the counter, a root connection's page belongs  *)
(* to a root field met before.                                             *)
NamesInv ==
  /\ \A p \in placed : p.name[1] = "p" => p.name[2] \in Nat /\ p.name[2] < next
  /\ \A p \in placed : p.name[1] \in {"offset", "first"} =>
       \E i \in DOMAIN top : top[i] = <<"connection", p.name[2]>>
  /\ ParametersKept

(* Frames: a frame's variable is at most its depth, the variables further  *)
(* in are above it, the aliases bound so far are numbered upwards and      *)
(* below it, and those the projection uses are bound but for @cypher.      *)
FrameInv(frame) ==
  /\ frame.var <= frame.depth
  /\ \A j \in DOMAIN frame.bound : frame.bound[j][2] < frame.depth
  /\ \A j, k \in DOMAIN frame.bound : j < k => frame.bound[j][2] < frame.bound[k][2]
  /\ \A a \in frame.used : a[1] = "cypher" \/ \E j \in DOMAIN frame.bound : a = frame.bound[j]

StackInv ==
  /\ \A i \in DOMAIN stack : FrameInv(stack[i])
  /\ \A i, j \in DOMAIN stack : i < j => stack[i].depth < stack[j].var
-----------------------------------------------------------------------------
(* What one call of add and addNamed leaves behind: new placeholders have  *)
(* the values of the map, new numbers lie between the old counter and the  *)
(* new one, and an old entry changes only under a given name.              *)
LEMMA RegisterEffect ==
  ASSUME NEW tokens \in Seq(Values \cup {Exists}), NEW named,
         \A n \in DOMAIN named : n[1] # "p",
         next \in Nat, Register(tokens, named)
  PROVE  /\ next' \in Nat /\ next <= next'
         /\ \A p \in placed' \ placed :
              /\ p.name \in DOMAIN params' /\ params'[p.name] = p.value
              /\ \/ p.name \in DOMAIN named
                 \/ p.name[1] = "p" /\ p.name[2] \in Nat /\ p.name[2] < next'
         /\ \A n \in DOMAIN params :
              /\ n \in DOMAIN params'
              /\ n \notin DOMAIN named /\ (n[1] = "p" => n[2] < next) => params'[n] = params[n]
<1> DEFINE numbers == NumberedParams(tokens)
           new == With(named, numbers)
<1>1. next' \in Nat /\ next <= next' /\ Len(tokens) \in Nat /\ next' = next + Len(tokens)
  BY DEF Register
<1>2. \A n \in DOMAIN numbers : n[1] = "p" /\ n[2] \in Nat /\ next <= n[2] /\ n[2] < next'
  <2>1. \A j \in DOMAIN tokens : j \in 1..Len(tokens)
    OBVIOUS
  <2>2. \A n \in DOMAIN numbers : \E i \in DOMAIN tokens : n = <<"p", next + i - 1>>
    BY DEF NumberedParams, Numbered
  <2> QED  BY <1>1, <2>1, <2>2
<1>3. DOMAIN new = DOMAIN named \cup DOMAIN numbers
  BY DEF With
<1>4. params' = With(new, params) /\ placed' = placed \cup {[name |-> n, value |-> new[n]] : n \in DOMAIN new}
  BY DEF Register
<1>5. DOMAIN params' = DOMAIN new \cup DOMAIN params /\ \A n \in DOMAIN new : params'[n] = new[n]
  BY <1>4 DEF With
<1>6. \A n \in DOMAIN params \ DOMAIN new : params'[n] = params[n]
  BY <1>4 DEF With
<1>7. ASSUME NEW p \in placed' \ placed
      PROVE  /\ p.name \in DOMAIN params' /\ params'[p.name] = p.value
             /\ \/ p.name \in DOMAIN named
                \/ p.name[1] = "p" /\ p.name[2] \in Nat /\ p.name[2] < next'
  <2>1. PICK n \in DOMAIN new : p = [name |-> n, value |-> new[n]]
    BY <1>4
  <2>2. p.name = n /\ p.value = new[n]
    BY <2>1
  <2> HIDE DEF new, numbers
  <2> QED  BY <1>2, <1>3, <1>5, <2>2
<1>8. ASSUME NEW n \in DOMAIN params
      PROVE  /\ n \in DOMAIN params'
             /\ n \notin DOMAIN named /\ (n[1] = "p" => n[2] < next) => params'[n] = params[n]
  <2> HIDE DEF new, numbers
  <2>1. n \in DOMAIN params'
    BY <1>5
  <2>2. n \notin DOMAIN named /\ (n[1] = "p" => n[2] < next) => n \notin DOMAIN new
    BY <1>2, <1>3
  <2> QED  BY <1>6, <2>1, <2>2
<1> QED  BY <1>1, <1>7, <1>8

(* A root field adds its alias at the end of top and nothing before it.    *)
Extended(alias) == top' = Append(top, alias)

(* A registration keeps NamesInv: given names are not numbers, and a root  *)
(* page is registered together with its field's alias.                     *)
LEMMA RegisterKeepsNames ==
  ASSUME TypeOK, NamesInv,
         NEW tokens \in Seq(Values \cup {Exists}), NEW named, Register(tokens, named),
         \A n \in DOMAIN named : n[1] # "p",
         top' = top \/ \E alias \in RootKinds \X Types : Extended(alias),
         \A n \in DOMAIN named : n[1] \in {"offset", "first"} =>
           n[2] \in Types /\ Extended(<<"connection", n[2]>>)
  PROVE  NamesInv'
<1> USE DEF TypeOK
<1>1. /\ next' \in Nat /\ next <= next'
      /\ \A p \in placed' \ placed :
           /\ p.name \in DOMAIN params' /\ params'[p.name] = p.value
           /\ \/ p.name \in DOMAIN named
              \/ p.name[1] = "p" /\ p.name[2] \in Nat /\ p.name[2] < next'
      /\ \A n \in DOMAIN params :
           /\ n \in DOMAIN params'
           /\ n \notin DOMAIN named /\ (n[1] = "p" => n[2] < next) => params'[n] = params[n]
  BY RegisterEffect
<1>2. /\ \A i \in DOMAIN top : i \in DOMAIN top' /\ top'[i] = top[i]
      /\ \A alias \in RootKinds \X Types :
           Extended(alias) => Len(top) + 1 \in DOMAIN top' /\ top'[Len(top) + 1] = alias
  <2> DEFINE Aliases == RootKinds \X Types
  <2>1. top \in Seq(Aliases) /\ (top' = top \/ \E alias \in Aliases : top' = Append(top, alias))
    BY DEF Extended
  <2> HIDE DEF Aliases
  <2>2. ASSUME NEW alias \in Aliases, top' = Append(top, alias)
        PROVE  /\ \A i \in DOMAIN top : i \in DOMAIN top' /\ top'[i] = top[i]
               /\ Len(top) + 1 \in DOMAIN top' /\ top'[Len(top) + 1] = alias
    BY <2>1, <2>2
  <2>3. \A i \in DOMAIN top : i \in DOMAIN top' /\ top'[i] = top[i]
    BY <2>1, <2>2
  <2> QED  BY <2>2, <2>3 DEF Aliases, Extended
<1>3. ASSUME NEW p \in placed', p.name[1] = "p"
      PROVE  p.name[2] \in Nat /\ p.name[2] < next'
  BY <1>1, <1>3 DEF NamesInv
<1>4. ASSUME NEW p \in placed', p.name[1] \in {"offset", "first"}
      PROVE  \E i \in DOMAIN top' : top'[i] = <<"connection", p.name[2]>>
  <2>1. CASE p \in placed
    BY <1>2, <1>4, <2>1 DEF NamesInv
  <2>2. CASE p \notin placed
    <3>1. p.name[2] \in Types /\ Extended(<<"connection", p.name[2]>>)
      BY <1>1, <1>4, <2>2
    <3>2. <<"connection", p.name[2]>> \in RootKinds \X Types
      BY <3>1 DEF RootKinds
    <3> QED  BY <1>2, <3>1, <3>2
  <2> QED  BY <2>1, <2>2
<1>5. ASSUME NEW p \in placed'
      PROVE  /\ p.name \in DOMAIN params'
             /\ \/ p.name[1] = "p"
                \/ p.name[1] \in {"offset", "first"} /\ SelectedOnce(<<"connection", p.name[2]>>)'
                => params'[p.name] = p.value
  <2>1. CASE p \notin placed
    BY <1>1, <2>1
  <2>2. CASE p \in placed /\ p.name[1] = "p"
    BY <1>1, <2>2 DEF NamesInv, ParametersKept
  <2>3. CASE p \in placed /\ p.name[1] \in {"offset", "first"} /\ SelectedOnce(<<"connection", p.name[2]>>)'
    <3>1. PICK i \in DOMAIN top : top[i] = <<"connection", p.name[2]>>
      BY <2>3 DEF NamesInv
    <3>2. ~Extended(<<"connection", p.name[2]>>)
      <4> SUFFICES ASSUME Extended(<<"connection", p.name[2]>>) PROVE FALSE
        OBVIOUS
      <4>1. <<"connection", p.name[2]>> \in RootKinds \X Types
        BY <3>1
      <4>2. i = Len(top) + 1
        BY <1>2, <2>3, <3>1, <4>1 DEF SelectedOnce
      <4> QED  BY <4>2
    <3>3. SelectedOnce(<<"connection", p.name[2]>>)
      BY <1>2, <2>3 DEF SelectedOnce
    <3> QED  BY <1>1, <2>3, <3>2, <3>3 DEF NamesInv, ParametersKept
  <2>4. CASE p \in placed /\ p.name[1] # "p" /\ ~(p.name[1] \in {"offset", "first"} /\ SelectedOnce(<<"connection", p.name[2]>>)')
    BY <1>1, <2>4 DEF NamesInv, ParametersKept
  <2> QED  BY <2>1, <2>2, <2>3, <2>4
<1>6. ParametersKept'
  BY <1>5 DEF ParametersKept
<1> QED  BY <1>3, <1>4, <1>6 DEF NamesInv
-----------------------------------------------------------------------------
(* The frames actions build are well formed. *)
LEMMA RootFrame ==
  ASSUME NEW kind \in {"list", "nodes", "similar", "answer"}, NEW alias \in RootKinds \X Types,
         NEW sorted \in BOOLEAN
  PROVE  Root(kind, alias, sorted) \in Frames /\ FrameInv(Root(kind, alias, sorted))
<1>1. <<>> \in Seq(BlockAliases) /\ DOMAIN <<>> = {}
  OBVIOUS
<1> QED  BY <1>1 DEF Root, Frame, Frames, FrameInv

LEMMA ChildFrame ==
  ASSUME NEW kind \in {"sub", "edges"}, NEW label \in {"sub", "conn"}, NEW sorted \in BOOLEAN,
         NEW parent \in Frames
  PROVE  LET child == Child(kind, label, sorted, parent) IN
         /\ child \in Frames /\ FrameInv(child)
         /\ child.alias \in BlockAliases /\ child.alias[2] = parent.depth
         /\ child.var = parent.depth + 1
<1>1. <<>> \in Seq(BlockAliases) /\ DOMAIN <<>> = {}
  OBVIOUS
<1>2. parent.depth \in Nat
  BY DEF Frames
<1> QED  BY <1>1, <1>2 DEF Child, Frame, Frames, FrameInv, BlockAliases

LEMMA BoundFrame ==
  ASSUME NEW frame \in Frames, FrameInv(frame),
         NEW alias \in BlockAliases, alias[2] = frame.depth
  PROVE  LET g == Bind(frame, alias) IN
         /\ g \in Frames /\ FrameInv(g)
         /\ g.alias = frame.alias /\ g.var = frame.var /\ g.depth = frame.depth + 1
<1> DEFINE g == Bind(frame, alias)
           b == Append(frame.bound, alias)
<1>1. /\ frame.bound \in Seq(BlockAliases) /\ frame.depth \in Nat /\ frame.var \in Nat
      /\ frame.used \in SUBSET (BlockAliases \cup ({"cypher"} \X Nat))
  BY DEF Frames
<1>2. /\ g.alias = frame.alias /\ g.var = frame.var /\ g.depth = frame.depth + 1
      /\ g.bound = b /\ g.used = frame.used \cup {alias}
      /\ g.kind = frame.kind /\ g.sorted = frame.sorted
  BY DEF Bind, Frames
<1>3. g \in Frames
  <2>1. b \in Seq(BlockAliases)
    BY <1>1
  <2> HIDE DEF b
  <2>2. g = [kind |-> frame.kind, alias |-> frame.alias, sorted |-> frame.sorted, var |-> frame.var,
             depth |-> frame.depth + 1, bound |-> b, used |-> frame.used \cup {alias}]
    <3>1. frame = [kind |-> frame.kind, alias |-> frame.alias, sorted |-> frame.sorted,
                   var |-> frame.var, depth |-> frame.depth, bound |-> frame.bound, used |-> frame.used]
      BY DEF Frames
    <3>2. DOMAIN g = {"kind", "alias", "sorted", "var", "depth", "bound", "used"}
      BY <3>1 DEF Bind
    <3>3. g = [x \in {"kind", "alias", "sorted", "var", "depth", "bound", "used"} |-> g[x]]
      BY <3>2 DEF Bind
    <3> QED  BY <1>2, <3>3
  <2>3. frame.depth + 1 \in Nat /\ frame.used \cup {alias} \in SUBSET (BlockAliases \cup ({"cypher"} \X Nat))
    BY <1>1
  <2> QED  BY <2>1, <2>2, <2>3 DEF Frames
<1>4. \A j \in DOMAIN b : b[j] = IF j \in DOMAIN frame.bound THEN frame.bound[j] ELSE alias
  BY <1>1
<1>5. /\ \A j \in DOMAIN b : j \notin DOMAIN frame.bound => j = Len(frame.bound) + 1
      /\ \A j \in DOMAIN frame.bound : j \in DOMAIN b /\ j \in Nat /\ j <= Len(frame.bound)
      /\ Len(frame.bound) + 1 \in DOMAIN b /\ Len(frame.bound) \in Nat
  BY <1>1
<1>6. \A j \in DOMAIN frame.bound : frame.bound[j][2] \in Nat
  BY <1>1 DEF BlockAliases
<1> HIDE DEF g, b
<1>7. \A j \in DOMAIN b : b[j][2] < frame.depth + 1
  BY <1>1, <1>4, <1>6 DEF FrameInv
<1>8. ASSUME NEW j \in DOMAIN b, NEW k \in DOMAIN b, j < k
      PROVE  b[j][2] < b[k][2]
  <2>1. j \in DOMAIN frame.bound
    BY <1>5, <1>8
  <2> QED  BY <1>4, <1>6, <1>8, <2>1 DEF FrameInv
<1>9. ASSUME NEW a \in frame.used \cup {alias}
      PROVE  a[1] = "cypher" \/ \E j \in DOMAIN b : a = b[j]
  <2>1. Len(frame.bound) + 1 \notin DOMAIN frame.bound
    BY <1>5
  <2> QED  BY <1>4, <1>5, <2>1 DEF FrameInv
<1>10. g.var <= g.depth
  BY <1>1, <1>2 DEF FrameInv
<1> QED  BY <1>2, <1>3, <1>7, <1>8, <1>9, <1>10 DEF FrameInv, g

(* What a projection uses and cannot see is lost to a sort, to a caller    *)
(* that drops the blocks, or is an alias of a @cypher field.               *)
LEMMA DanglingKinds ==
  ASSUME NEW frame \in Frames, FrameInv(frame), NEW d \in Dangling(frame)
  PROVE  d.sorted \/ d.kind \in {"nodes", "similar", "edges"} \/ d.alias[1] = "cypher"
<1>1. PICK a \in frame.used \ Visible(frame) :
        d = [kind |-> frame.kind, sorted |-> frame.sorted, alias |-> a]
  BY DEF Dangling
<1>2. d.kind = frame.kind /\ d.sorted = frame.sorted /\ d.alias = a
  BY <1>1
<1>3. frame.kind \in {"list", "nodes", "similar", "answer", "sub", "edges"} /\ frame.sorted \in BOOLEAN
  BY DEF Frames
<1>4. CASE frame.kind \in KeepsBlocks /\ ~frame.sorted
  <2>1. Visible(frame) = {frame.bound[j] : j \in DOMAIN frame.bound}
    BY <1>4 DEF Visible
  <2> QED  BY <1>1, <1>2, <2>1 DEF FrameInv
<1> QED  BY <1>2, <1>3, <1>4 DEF KeepsBlocks
-----------------------------------------------------------------------------
(* The three things actions do to the stack. *)
StackType ==
  /\ stack \in Seq(Frames)
  /\ \A i \in DOMAIN stack : i > 1 =>
       stack[i].alias \in BlockAliases /\ stack[i].alias[2] = stack[i - 1].depth

LEMMA StackStarted ==
  ASSUME NEW g \in Frames, FrameInv(g), stack' = <<>> \/ stack' = <<g>>
  PROVE  StackType' /\ StackInv'
<1>1. CASE stack' = <<>>
  <2>1. stack' \in Seq(Frames) /\ DOMAIN stack' = {}
    BY <1>1
  <2> QED  BY <2>1 DEF StackType, StackInv
<1>2. CASE stack' = <<g>>
  <2>1. stack' \in Seq(Frames) /\ DOMAIN stack' = {1} /\ stack'[1] = g
    BY <1>2
  <2> QED  BY <2>1 DEF StackType, StackInv
<1> QED  BY <1>1, <1>2

LEMMA StackPushed ==
  ASSUME StackType, StackInv, stack # <<>>,
         NEW g \in Frames, FrameInv(g), g.alias \in BlockAliases, g.alias[2] = Top.depth,
         g.var = Top.depth + 1, stack' = Append(stack, g)
  PROVE  StackType' /\ StackInv'
<1>1. /\ stack \in Seq(Frames) /\ Len(stack) \in DOMAIN stack /\ Top = stack[Len(stack)]
      /\ Len(stack) \in Nat /\ DOMAIN stack = 1..Len(stack)
  BY DEF StackType, Top
<1>2. /\ stack' \in Seq(Frames) /\ Len(stack') = Len(stack) + 1 /\ DOMAIN stack' = 1..(Len(stack) + 1)
      /\ \A i \in 1..Len(stack) : stack'[i] = stack[i]
      /\ stack'[Len(stack) + 1] = g
  BY <1>1
<1>3. \A i \in DOMAIN stack : stack[i].depth \in Nat /\ stack[i].var \in Nat
  <2>1. \A i \in DOMAIN stack : stack[i] \in Frames
    BY <1>1
  <2> QED  BY <2>1 DEF Frames
<1>4. ASSUME NEW i \in DOMAIN stack', i > 1
      PROVE  stack'[i].alias \in BlockAliases /\ stack'[i].alias[2] = stack'[i - 1].depth
  <2>1. CASE i = Len(stack) + 1
    <3>1. i - 1 = Len(stack) /\ Len(stack) \in 1..Len(stack)
      BY <1>1, <2>1
    <3>2. stack'[i - 1] = Top /\ stack'[i] = g
      BY <1>1, <1>2, <2>1, <3>1
    <3> QED  BY <3>2
  <2>2. CASE i \in 1..Len(stack)
    <3>1. i - 1 \in 1..Len(stack)
      BY <1>1, <1>4, <2>2
    <3> QED  BY <1>1, <1>2, <1>4, <2>2, <3>1 DEF StackType
  <2>3. i = Len(stack) + 1 \/ i \in 1..Len(stack)
    BY <1>1, <1>2
  <2> QED  BY <2>1, <2>2, <2>3
<1>5. \A i \in DOMAIN stack' : FrameInv(stack'[i])
  BY <1>1, <1>2 DEF StackInv
<1>6. ASSUME NEW i \in DOMAIN stack', NEW j \in DOMAIN stack', i < j
      PROVE  stack'[i].depth < stack'[j].var
  <2>1. i \in 1..Len(stack) /\ stack'[i] = stack[i]
    BY <1>1, <1>2, <1>6
  <2>2. CASE j \in 1..Len(stack)
    BY <1>1, <1>2, <1>6, <2>1, <2>2 DEF StackInv
  <2>3. CASE j = Len(stack) + 1
    <3>1. stack[i].depth <= Top.depth
      <4>1. CASE i = Len(stack)
        BY <1>1, <1>3, <4>1
      <4>2. CASE i < Len(stack)
        <5>1. stack[i].depth < Top.var /\ Top.var <= Top.depth
          BY <1>1, <2>1, <4>2 DEF StackInv, FrameInv
        <5> QED  BY <1>1, <1>3, <2>1, <5>1
      <4> QED  BY <1>1, <2>1, <4>1, <4>2
    <3> QED  BY <1>1, <1>2, <1>3, <2>1, <2>3, <3>1
  <2> QED  BY <1>1, <1>2, <2>2, <2>3
<1> QED  BY <1>2, <1>4, <1>5, <1>6 DEF StackType, StackInv

LEMMA StackReplaced ==
  ASSUME StackType, StackInv, NEW m \in DOMAIN stack,
         NEW g \in Frames, FrameInv(g), g.alias = stack[m].alias, g.var = stack[m].var,
         stack' \in Seq(Frames), Len(stack') = m, stack'[m] = g,
         \A i \in 1..(m - 1) : stack'[i] = stack[i]
  PROVE  StackType' /\ StackInv'
<1>1. stack \in Seq(Frames) /\ m \in Nat /\ m \in 1..Len(stack) /\ DOMAIN stack = 1..Len(stack)
  BY DEF StackType
<1>2. DOMAIN stack' = 1..m
  OBVIOUS
<1>3. \A i \in 1..m : i \in DOMAIN stack /\ stack'[i].alias = stack[i].alias /\ stack'[i].var = stack[i].var
  BY <1>1
<1>4. ASSUME NEW i \in 1..m, i > 1
      PROVE  stack'[i].alias \in BlockAliases /\ stack'[i].alias[2] = stack'[i - 1].depth
  <2>1. i - 1 \in 1..(m - 1)
    BY <1>1, <1>4
  <2> QED  BY <1>3, <1>4, <2>1 DEF StackType
<1>5. \A i \in 1..m : FrameInv(stack'[i])
  BY <1>1, <1>3 DEF StackInv
<1>6. ASSUME NEW i \in 1..m, NEW j \in 1..m, i < j
      PROVE  stack'[i].depth < stack'[j].var
  <2>1. i \in 1..(m - 1)
    BY <1>1, <1>6
  <2> QED  BY <1>3, <1>6, <2>1 DEF StackInv
<1> QED  BY <1>2, <1>4, <1>5, <1>6 DEF StackType, StackInv
-----------------------------------------------------------------------------
Inv == TypeOK /\ NamesInv /\ StackInv /\ PlainProjectionsBound

LEMMA InvInit == Init => Inv
<1> SUFFICES ASSUME Init PROVE Inv
  OBVIOUS
<1>1. /\ stack \in Seq(Frames) /\ DOMAIN stack = {}
      /\ top \in Seq(RootKinds \X Types)
      /\ 0 \in 0..MaxSelections
  BY TranslationAssumption DEF Init
<1> QED  BY <1>1 DEF Init, Inv, TypeOK, NamesInv, ParametersKept, StackInv, PlainProjectionsBound

(* The tokens every action registers. *)
LEMMA Tokens ==
  /\ \A where \in Wheres : where \in Seq(Values \cup {Exists})
  /\ \A sets \in Inputs : sets \in Seq(Values \cup {Exists})
  /\ \A search \in Searches : search \in Seq(Values \cup {Exists})
  /\ \A input \in Values : <<input>> \in Seq(Values \cup {Exists})
  /\ <<>> \in Seq(Values \cup {Exists})
<1>1. Seq(Values) \subseteq Seq(Values \cup {Exists})
  OBVIOUS
<1> QED  BY <1>1, TranslationAssumption

(* A step that descends into a root field, or meets one without selection  *)
(* set, keeps the invariant.                                               *)
LEMMA RootFieldStep ==
  ASSUME Inv, NEW operation, NEW kind \in RootKinds, NEW t \in Types,
         NEW frameKind \in {"list", "nodes", "similar", "answer"}, NEW sorted \in BOOLEAN,
         NEW frames \in {<<>>, <<Root(frameKind, <<kind, t>>, sorted)>>},
         RootField(operation, <<kind, t>>, frames),
         NEW tokens \in Seq(Values \cup {Exists}), NEW named, Register(tokens, named),
         \A n \in DOMAIN named : n[1] # "p",
         \A n \in DOMAIN named : n[1] \in {"offset", "first"} => kind = "connection" /\ n[2] = t
  PROVE  Inv'
<1> DEFINE alias == <<kind, t>>
<1>1. alias \in RootKinds \X Types
  OBVIOUS
<1>2. top' = Append(top, alias) /\ stack' = frames /\ dangling' = dangling
  BY DEF RootField
<1>3. TypeOK
  BY DEF Inv
<1>4. StackType' /\ StackInv'
  BY <1>1, <1>2, RootFrame, StackStarted
<1>5. next' \in Nat
  BY <1>3, RegisterEffect DEF TypeOK
<1>6. top' \in Seq(RootKinds \X Types)
  BY <1>1, <1>2, <1>3 DEF TypeOK
<1>7. TypeOK'
  BY <1>3, <1>4, <1>5, <1>6, TranslationAssumption DEF TypeOK, StackType, RootField, Select
<1>8. NamesInv'
  BY <1>1, <1>2, <1>3, RegisterKeepsNames DEF Inv, Extended
<1>9. PlainProjectionsBound'
  BY <1>2 DEF Inv, PlainProjectionsBound
<1> QED  BY <1>4, <1>7, <1>8, <1>9 DEF Inv

(* The same for a field of a selection set. *)
LEMMA NestedFieldStep ==
  ASSUME Inv, InSelectionSet, StackType', StackInv',
         NEW tokens \in Seq(Values \cup {Exists}), NEW named, Register(tokens, named),
         \A n \in DOMAIN named : n[1] \notin {"p", "offset", "first"}
  PROVE  Inv'
<1>1. TypeOK /\ top' = top /\ dangling' = dangling
  BY DEF Inv, InSelectionSet
<1>2. next' \in Nat
  BY <1>1, RegisterEffect DEF TypeOK
<1>3. TypeOK'
  BY <1>1, <1>2, TranslationAssumption DEF TypeOK, StackType, InSelectionSet, Select
<1>4. NamesInv'
  BY <1>1, RegisterKeepsNames DEF Inv
<1>5. PlainProjectionsBound'
  BY <1>1 DEF Inv, PlainProjectionsBound
<1> QED  BY <1>3, <1>4, <1>5 DEF Inv

(* Given names are neither numbers nor, below the root, root pages. *)
LEMMA GivenNames ==
  /\ DOMAIN NoParams = {}
  /\ \A t, page : \A n \in DOMAIN RootPage(t, page) : n[1] # "p" /\ n[2] = t
  /\ \A depth, page : \A n \in DOMAIN NestedPage(depth, page) : n[1] \notin {"p", "offset", "first"}
  /\ \A args \in CypherCalls : \A n \in DOMAIN args : n[1] \notin {"p", "offset", "first"}
BY TranslationAssumption DEF NoParams, RootPage, NestedPage, PageParams

(* An open selection set, and the stack below it. *)
LEMMA TopOfStack ==
  ASSUME TypeOK, stack # <<>>
  PROVE  /\ Len(stack) \in Nat /\ Len(stack) \in DOMAIN stack /\ Top = stack[Len(stack)] /\ Top \in Frames
         /\ Below \in Seq(Frames) /\ Len(Below) = Len(stack) - 1
         /\ \A i \in 1..(Len(stack) - 1) : Below[i] = stack[i]
<1>1. stack \in Seq(Frames)
  BY DEF TypeOK
<1>2. Len(stack) \in Nat /\ Len(stack) \in DOMAIN stack /\ DOMAIN stack = 1..Len(stack)
  BY <1>1
<1>3. Below \in Seq(Frames) /\ Len(Below) = Len(stack) - 1
  BY <1>1, <1>2 DEF Below
<1>4. \A i \in 1..(Len(stack) - 1) : Below[i] = stack[i]
  BY <1>1, <1>2 DEF Below
<1>5. stack[Len(stack)] \in Frames
  BY <1>1, <1>2
<1> QED  BY <1>2, <1>3, <1>4, <1>5 DEF Top

(* Replacing the innermost frame by one with its alias and variable. *)
LEMMA TopReplaced ==
  ASSUME Inv, stack # <<>>, NEW g \in Frames, FrameInv(g), g.alias = Top.alias, g.var = Top.var,
         stack' = Append(Below, g)
  PROVE  StackType' /\ StackInv'
<1>1. TypeOK /\ StackInv /\ StackType
  BY DEF Inv, TypeOK, StackType
<1>2. /\ Len(stack) \in Nat /\ Len(stack) \in DOMAIN stack /\ Top = stack[Len(stack)]
      /\ Below \in Seq(Frames) /\ Len(Below) = Len(stack) - 1
      /\ \A i \in 1..(Len(stack) - 1) : Below[i] = stack[i]
  BY <1>1, TopOfStack
<1>3. /\ stack' \in Seq(Frames) /\ Len(stack') = Len(stack) /\ stack'[Len(stack)] = g
      /\ \A i \in 1..(Len(stack) - 1) : stack'[i] = Below[i]
  BY <1>2
<1> QED  BY <1>1, <1>2, <1>3, StackReplaced

LEMMA CypherStep ==
  ASSUME Inv, NEW args \in CypherCalls, SelectCypher(args)
  PROVE  Inv'
<1> DEFINE g == [Top EXCEPT !.depth = @ + 1, !.used = @ \cup {<<"cypher", Top.depth + 1>>}]
<1>1. TypeOK /\ StackInv /\ stack # <<>> /\ stack' = Append(Below, g)
  BY DEF Inv, SelectCypher, InSelectionSet
<1>2. Top \in Frames /\ FrameInv(Top)
  BY <1>1, TopOfStack DEF StackInv
<1>3. /\ Top.depth \in Nat /\ Top.var \in Nat /\ Top.bound \in Seq(BlockAliases)
      /\ Top.used \in SUBSET (BlockAliases \cup ({"cypher"} \X Nat))
  BY <1>2 DEF Frames
<1>4. /\ g.alias = Top.alias /\ g.var = Top.var /\ g.bound = Top.bound /\ g.depth = Top.depth + 1
      /\ g.used = Top.used \cup {<<"cypher", Top.depth + 1>>} /\ g \in Frames
  <2>1. Top = [kind |-> Top.kind, alias |-> Top.alias, sorted |-> Top.sorted, var |-> Top.var,
               depth |-> Top.depth, bound |-> Top.bound, used |-> Top.used]
    BY <1>2 DEF Frames
  <2>2. DOMAIN g = {"kind", "alias", "sorted", "var", "depth", "bound", "used"}
    BY <2>1
  <2>3. g = [x \in {"kind", "alias", "sorted", "var", "depth", "bound", "used"} |-> g[x]]
    BY <2>2
  <2>4. /\ g.alias = Top.alias /\ g.var = Top.var /\ g.bound = Top.bound /\ g.depth = Top.depth + 1
        /\ g.used = Top.used \cup {<<"cypher", Top.depth + 1>>}
        /\ g.kind = Top.kind /\ g.sorted = Top.sorted
    BY <2>1
  <2> HIDE DEF g
  <2>5. g = [kind |-> Top.kind, alias |-> Top.alias, sorted |-> Top.sorted, var |-> Top.var,
             depth |-> Top.depth + 1, bound |-> Top.bound,
             used |-> Top.used \cup {<<"cypher", Top.depth + 1>>}]
    BY <2>3, <2>4
  <2>6. /\ Top.depth + 1 \in Nat
        /\ Top.used \cup {<<"cypher", Top.depth + 1>>} \in SUBSET (BlockAliases \cup ({"cypher"} \X Nat))
    BY <1>3
  <2> QED  BY <1>2, <2>4, <2>5, <2>6 DEF Frames
<1>5. \A j \in DOMAIN Top.bound : Top.bound[j][2] \in Nat
  <2>1. \A j \in DOMAIN Top.bound : Top.bound[j] \in BlockAliases
    BY <1>3
  <2> QED  BY <2>1 DEF BlockAliases
<1> HIDE DEF g
<1>6. FrameInv(g)
  BY <1>2, <1>3, <1>4, <1>5 DEF FrameInv
<1>7. StackType' /\ StackInv'
  BY <1>1, <1>4, <1>6, TopReplaced
<1>8. InSelectionSet /\ Register(<<>>, args)
  BY DEF SelectCypher
<1> QED  BY <1>7, <1>8, Tokens, GivenNames, NestedFieldStep

LEMMA SubStep ==
  ASSUME Inv, NEW where \in Wheres, NEW sorted \in BOOLEAN, SelectSub(where, sorted)
  PROVE  Inv'
<1> DEFINE g == Child("sub", "sub", sorted, Top)
<1>1. TypeOK /\ StackType /\ StackInv /\ stack # <<>> /\ stack' = Append(stack, g)
  BY DEF Inv, TypeOK, StackType, SelectSub, InSelectionSet
<1>2. Top \in Frames
  BY <1>1, TopOfStack
<1>3. /\ g \in Frames /\ FrameInv(g) /\ g.alias \in BlockAliases /\ g.alias[2] = Top.depth
      /\ g.var = Top.depth + 1
  BY <1>2, ChildFrame
<1> HIDE DEF g
<1>4. StackType' /\ StackInv'
  BY <1>1, <1>3, StackPushed
<1>5. InSelectionSet /\ Register(where, NoParams)
  BY DEF SelectSub
<1> QED  BY <1>4, <1>5, Tokens, GivenNames, NestedFieldStep

LEMMA ConnectionStep ==
  ASSUME Inv, NEW where \in Wheres, NEW page \in Pages, NEW node \in BOOLEAN,
         SelectConnection(where, page, node)
  PROVE  Inv'
<1>1. TypeOK /\ StackType /\ StackInv /\ stack # <<>>
  BY DEF Inv, TypeOK, StackType, SelectConnection, InSelectionSet
<1>2. Top \in Frames /\ FrameInv(Top)
  BY <1>1, TopOfStack DEF StackInv
<1>3. ASSUME node = TRUE PROVE StackType' /\ StackInv'
  <2> DEFINE g == Child("edges", "conn", TRUE, Top)
  <2>1. stack' = Append(stack, g)
    BY <1>3 DEF SelectConnection
  <2>2. /\ g \in Frames /\ FrameInv(g) /\ g.alias \in BlockAliases /\ g.alias[2] = Top.depth
        /\ g.var = Top.depth + 1
    BY <1>2, ChildFrame
  <2> HIDE DEF g
  <2> QED  BY <1>1, <2>1, <2>2, StackPushed
<1>4. ASSUME node = FALSE PROVE StackType' /\ StackInv'
  <2> DEFINE a == <<"conn", Top.depth>>
             g == Bind(Top, a)
  <2>1. stack' = Append(Below, g)
    BY <1>4 DEF SelectConnection
  <2>2. a \in BlockAliases /\ a[2] = Top.depth
    BY <1>2 DEF Frames, BlockAliases
  <2> HIDE DEF a
  <2>3. g \in Frames /\ FrameInv(g) /\ g.alias = Top.alias /\ g.var = Top.var
    BY <1>2, <2>2, BoundFrame
  <2> HIDE DEF g
  <2> QED  BY <1>1, <2>1, <2>3, TopReplaced
<1>5. StackType' /\ StackInv'
  BY <1>3, <1>4
<1>6. InSelectionSet /\ Register(where, NestedPage(Top.depth, page))
  BY DEF SelectConnection
<1> QED  BY <1>5, <1>6, Tokens, GivenNames, NestedFieldStep

(* Leaving a selection set. *)
LEMMA LeaveRootStep == ASSUME Inv, LeaveRoot PROVE Inv'
<1>1. /\ TypeOK /\ StackInv /\ stack # <<>> /\ stack' = <<>>
      /\ dangling' = dangling \cup Dangling(Top)
      /\ UNCHANGED <<op, phase, top, selections, next, params, placed>>
  BY DEF Inv, LeaveRoot, scopeVars
<1>2. Top \in Frames /\ FrameInv(Top)
  BY <1>1, TopOfStack DEF StackInv
<1>3. StackType' /\ StackInv'
  BY <1>1, <1>2, StackStarted
<1>4. TypeOK'
  BY <1>1, <1>3 DEF TypeOK, StackType
<1>5. NamesInv'
  BY <1>1 DEF Inv, NamesInv, ParametersKept, SelectedOnce
<1>6. PlainProjectionsBound'
  BY <1>1, <1>2, DanglingKinds DEF Inv, PlainProjectionsBound
<1> QED  BY <1>3, <1>4, <1>5, <1>6 DEF Inv

LEMMA LeaveNestedStep == ASSUME Inv, LeaveNested PROVE Inv'
<1> DEFINE m == Len(stack) - 1
           g == Bind(stack[m], Top.alias)
<1>1. /\ TypeOK /\ StackType /\ StackInv /\ stack # <<>> /\ Len(stack) > 1
      /\ stack' = [Below EXCEPT ![Len(Below)] = Bind(@, Top.alias)]
      /\ dangling' = dangling \cup Dangling(Top)
      /\ UNCHANGED <<op, phase, top, selections, next, params, placed>>
  BY DEF Inv, TypeOK, StackType, LeaveNested, scopeVars
<1>2. /\ Len(stack) \in Nat /\ Len(stack) \in DOMAIN stack /\ Top = stack[Len(stack)] /\ Top \in Frames
      /\ Below \in Seq(Frames) /\ Len(Below) = m
      /\ \A i \in 1..m : Below[i] = stack[i]
  BY <1>1, TopOfStack
<1>3. m \in Nat /\ m \in DOMAIN stack /\ m \in 1..m /\ stack[m] \in Frames /\ FrameInv(stack[m]) /\ FrameInv(Top)
  BY <1>1, <1>2 DEF StackType, StackInv
<1>4. Top.alias \in BlockAliases /\ Top.alias[2] = stack[m].depth
  BY <1>1, <1>2 DEF StackType
<1>5. g \in Frames /\ FrameInv(g) /\ g.alias = stack[m].alias /\ g.var = stack[m].var
  BY <1>3, <1>4, BoundFrame
<1>6. Below[m] = stack[m] /\ stack' = [Below EXCEPT ![m] = g]
  BY <1>1, <1>2, <1>3
<1> HIDE DEF g, m
<1>7. /\ stack' \in Seq(Frames) /\ Len(stack') = m /\ stack'[m] = g
      /\ \A i \in 1..(m - 1) : stack'[i] = stack[i]
  BY <1>2, <1>3, <1>5, <1>6
<1>8. StackType' /\ StackInv'
  BY <1>1, <1>3, <1>5, <1>7, StackReplaced
<1>9. TypeOK'
  BY <1>1, <1>8 DEF TypeOK, StackType
<1>10. NamesInv'
  BY <1>1 DEF Inv, NamesInv, ParametersKept, SelectedOnce
<1>11. PlainProjectionsBound'
  BY <1>1, <1>2, <1>3, DanglingKinds DEF Inv, PlainProjectionsBound
<1> QED  BY <1>8, <1>9, <1>10, <1>11 DEF Inv
-----------------------------------------------------------------------------
LEMMA QueryFieldStep == ASSUME Inv, QueryField PROVE Inv'
<1>1. PICK t \in Types :
        \/ \E where \in Wheres, sorted \in BOOLEAN : RootList(t, where, sorted)
        \/ \E where \in Wheres, page \in Pages, node \in BOOLEAN : RootConnection(t, where, page, node)
        \/ \E search \in Searches, node \in BOOLEAN : RootSimilar(t, search, node)
  BY DEF QueryField
<1>2. ASSUME NEW where \in Wheres, NEW sorted \in BOOLEAN, RootList(t, where, sorted)
      PROVE  Inv'
  <2> DEFINE frames == <<Root("list", <<"list", t>>, sorted)>>
  <2>1. RootField("query", <<"list", t>>, frames) /\ Register(where, NoParams)
    BY <1>2 DEF RootList
  <2>2. where \in Seq(Values \cup {Exists}) /\ DOMAIN NoParams = {} /\ "list" \in RootKinds
    BY Tokens, GivenNames DEF RootKinds
  <2> QED  BY <2>1, <2>2, RootFieldStep
<1>3. ASSUME NEW where \in Wheres, NEW page \in Pages, NEW node \in BOOLEAN,
             RootConnection(t, where, page, node)
      PROVE  Inv'
  <2> DEFINE frames == IF node THEN <<Root("nodes", <<"connection", t>>, TRUE)>> ELSE <<>>
  <2>1. RootField("query", <<"connection", t>>, frames) /\ Register(where, RootPage(t, page))
    BY <1>3 DEF RootConnection
  <2>2. frames \in {<<>>, <<Root("nodes", <<"connection", t>>, TRUE)>>}
    OBVIOUS
  <2>3. where \in Seq(Values \cup {Exists}) /\ "connection" \in RootKinds
    BY Tokens DEF RootKinds
  <2>4. \A n \in DOMAIN RootPage(t, page) : n[1] # "p" /\ n[2] = t
    BY GivenNames
  <2> HIDE DEF frames
  <2> QED  BY <2>1, <2>2, <2>3, <2>4, RootFieldStep
<1>4. ASSUME NEW search \in Searches, NEW node \in BOOLEAN, RootSimilar(t, search, node)
      PROVE  Inv'
  <2> DEFINE frames == IF node THEN <<Root("similar", <<"similar", t>>, FALSE)>> ELSE <<>>
  <2>1. RootField("query", <<"similar", t>>, frames) /\ Register(search, NoParams)
    BY <1>4 DEF RootSimilar
  <2>2. frames \in {<<>>, <<Root("similar", <<"similar", t>>, FALSE)>>}
    OBVIOUS
  <2>3. search \in Seq(Values \cup {Exists}) /\ DOMAIN NoParams = {} /\ "similar" \in RootKinds
    BY Tokens, GivenNames DEF RootKinds
  <2> HIDE DEF frames
  <2> QED  BY <2>1, <2>2, <2>3, RootFieldStep
<1> QED  BY <1>1, <1>2, <1>3, <1>4

(* A mutation field, whatever it registers. *)
LEMMA AnswerStep ==
  ASSUME Inv, NEW operation \in RootKinds, NEW t \in Types, NEW nodes \in BOOLEAN,
         Answer(operation, t, nodes),
         NEW tokens \in Seq(Values \cup {Exists}), Register(tokens, NoParams)
  PROVE  Inv'
<1> DEFINE frames == IF nodes THEN <<Root("answer", <<operation, t>>, FALSE)>> ELSE <<>>
<1>1. RootField("mutation", <<operation, t>>, frames)
  BY DEF Answer
<1>2. frames \in {<<>>, <<Root("answer", <<operation, t>>, FALSE)>>}
  OBVIOUS
<1>3. DOMAIN NoParams = {}
  BY GivenNames
<1> HIDE DEF frames
<1> QED  BY <1>1, <1>2, <1>3, RootFieldStep

LEMMA MutationFieldStep == ASSUME Inv, MutationField PROVE Inv'
<1>1. PICK t \in Types :
        \/ \E input \in Values, nested \in Inputs, nodes \in BOOLEAN : Create(t, input, nested, nodes)
        \/ \E where \in Wheres, sets \in Inputs, nodes \in BOOLEAN : Update(t, where, sets, nodes)
        \/ \E where \in Wheres : Delete(t, where)
        \/ \E input \in Values, nodes \in BOOLEAN : Merge(t, input, nodes)
        \/ \E input \in Values : Connect(t, input)
  BY DEF MutationField
<1>2. {"create", "update", "delete", "merge", "connect"} \subseteq RootKinds
  BY DEF RootKinds
<1> DEFINE Toks == Values \cup {Exists}
<1>3. \A a, b : a \in Seq(Toks) /\ b \in Seq(Toks) => a \o b \in Seq(Toks)
  OBVIOUS
<1>4. ASSUME NEW input \in Values, NEW nested \in Inputs, NEW nodes \in BOOLEAN,
             Create(t, input, nested, nodes)
      PROVE  Inv'
  <2>1. <<input>> \o nested \in Seq(Values \cup {Exists})
    BY <1>3, Tokens
  <2> QED  BY <1>2, <1>4, <2>1, AnswerStep DEF Create
<1>5. ASSUME NEW where \in Wheres, NEW sets \in Inputs, NEW nodes \in BOOLEAN,
             Update(t, where, sets, nodes)
      PROVE  Inv'
  <2>1. where \o sets \in Seq(Values \cup {Exists})
    BY <1>3, Tokens
  <2> QED  BY <1>2, <1>5, <2>1, AnswerStep DEF Update
<1>6. ASSUME NEW where \in Wheres, Delete(t, where) PROVE Inv'
  BY <1>2, <1>6, Tokens, AnswerStep DEF Delete
<1>7. ASSUME NEW input \in Values, NEW nodes \in BOOLEAN, Merge(t, input, nodes) PROVE Inv'
  BY <1>2, <1>7, Tokens, AnswerStep DEF Merge
<1>8. ASSUME NEW input \in Values, Connect(t, input) PROVE Inv'
  BY <1>2, <1>8, Tokens, AnswerStep DEF Connect
<1> QED  BY <1>1, <1>4, <1>5, <1>6, <1>7, <1>8

LEMMA InvStep == Inv /\ [Next]_vars => Inv'
<1> SUFFICES ASSUME Inv, [Next]_vars PROVE Inv'
  OBVIOUS
<1>1. CASE QueryField
  BY <1>1, QueryFieldStep
<1>2. CASE MutationField
  BY <1>2, MutationFieldStep
<1>3. CASE NestedField
  BY <1>3, CypherStep, SubStep, ConnectionStep DEF NestedField
<1>4. CASE LeaveRoot
  BY <1>4, LeaveRootStep
<1>5. CASE LeaveNested
  BY <1>5, LeaveNestedStep
<1>6. CASE Reject \/ Finish \/ UNCHANGED vars
  <2>1. /\ phase' \in {"walk", "done", "failed"}
        /\ UNCHANGED <<op, stack, top, selections, dangling, next, params, placed>>
    BY <1>6 DEF Inv, TypeOK, Reject, Finish, vars, scopeVars
  <2> QED  BY <2>1 DEF Inv, TypeOK, NamesInv, ParametersKept, SelectedOnce, StackInv, PlainProjectionsBound
<1> QED  BY <1>1, <1>2, <1>3, <1>4, <1>5, <1>6 DEF Next

LEMMA Invariance == Spec => []Inv
<1> QED  BY InvInit, InvStep, PTL DEF Spec
-----------------------------------------------------------------------------
(* Numbers, names and frames of the translator are what TypeOK says        *)
(* (params.go, projection.go), for every schema and request.               *)
THEOREM TypeCorrect == Spec => []TypeOK
<1>1. Inv => TypeOK
  BY DEF Inv
<1> QED  BY <1>1, Invariance, PTL

(* However many filters, inputs, searches and root connections a request   *)
(* combines, each placeholder of theirs denotes its own value              *)
(* (params.go:38-51, query.go:258-261).                                    *)
THEOREM ParametersStay == Spec => []ParametersKept
<1>1. Inv => ParametersKept
  BY DEF Inv, NamesInv
<1> QED  BY <1>1, Invariance, PTL

(* However deep a request nests, the selection sets around a field have    *)
(* variables of their own (subquery.go:14-20).                             *)
THEOREM VariablesApart == Spec => []VariablesDistinct
<1>1. Inv => VariablesDistinct
  <2> SUFFICES ASSUME Inv, NEW i \in DOMAIN stack, NEW j \in DOMAIN stack, i < j
               PROVE  stack[i].var # stack[j].var
    BY DEF Inv, TypeOK, VariablesDistinct
  <2>1. stack[i] \in Frames /\ stack[j] \in Frames
    BY DEF Inv, TypeOK
  <2>2. stack[i].var <= stack[i].depth /\ stack[i].depth < stack[j].var
    BY DEF Inv, StackInv, FrameInv
  <2> QED  BY <2>1, <2>2 DEF Frames
<1> QED  BY <1>1, Invariance, PTL

(* However many nested fields a selection set has, their blocks bind       *)
(* aliases of their own (projection.go:10-106).                            *)
THEOREM AliasesApart == Spec => []AliasesDistinct
<1>1. Inv => AliasesDistinct
  <2> SUFFICES ASSUME Inv, NEW i \in DOMAIN stack
               PROVE  LET bound == stack[i].bound IN
                      /\ \A j, k \in DOMAIN bound : j # k => bound[j] # bound[k]
                      /\ i < Len(stack) => \A j \in DOMAIN bound : bound[j] # stack[i + 1].alias
    BY DEF AliasesDistinct
  <2> DEFINE bound == stack[i].bound
  <2>1. /\ stack \in Seq(Frames) /\ stack[i] \in Frames /\ FrameInv(stack[i])
        /\ bound \in Seq(BlockAliases) /\ stack[i].depth \in Nat
    <3>1. stack \in Seq(Frames) /\ stack[i] \in Frames
      BY DEF Inv, TypeOK
    <3> QED  BY <3>1 DEF Frames, Inv, StackInv
  <2>2. \A j \in DOMAIN bound : bound[j][2] \in Nat /\ j \in Nat
    <3>1. \A j \in DOMAIN bound : bound[j] \in BlockAliases /\ j \in Nat
      BY <2>1
    <3> QED  BY <3>1 DEF BlockAliases
  <2>3. \A j, k \in DOMAIN bound : j < k => bound[j] # bound[k]
    BY <2>1, <2>2 DEF FrameInv
  <2>4. \A j, k \in DOMAIN bound : j # k => bound[j] # bound[k]
    BY <2>2, <2>3
  <2>5. ASSUME i < Len(stack), NEW j \in DOMAIN bound
        PROVE  bound[j] # stack[i + 1].alias
    <3>1. i + 1 \in DOMAIN stack /\ i + 1 > 1 /\ (i + 1) - 1 = i
      BY <2>1, <2>5
    <3>2. stack[i + 1].alias[2] = stack[i].depth
      BY <3>1 DEF Inv, TypeOK
    <3>3. bound[j][2] < stack[i].depth
      BY <2>1 DEF FrameInv
    <3> QED  BY <2>1, <2>2, <3>2, <3>3
  <2> QED  BY <2>4, <2>5
<1> QED  BY <1>1, Invariance, PTL

(* A projection that its caller neither sorts nor strips of its blocks     *)
(* uses only aliases these blocks bind, @cypher fields aside               *)
(* (query.go:99-130, subquery.go:57-79, query.go:427-449).                 *)
THEOREM PlainProjections == Spec => []PlainProjectionsBound
<1>1. Inv => PlainProjectionsBound
  BY DEF Inv
<1> QED  BY <1>1, Invariance, PTL
=============================================================================
