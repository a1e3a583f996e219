-------------------------- MODULE EcmaModuleProofs --------------------------
(***************************************************************************)
(* Linking and evaluation of modules, for every graph of modules, if the   *)
(* callbacks of a link do not link or evaluate.  The link is the search of *)
(* Tarjan for strongly connected components: what it links is closed under *)
(* imports.                                                                *)
(***************************************************************************)
EXTENDS EcmaModule, EcmaModuleExports, FiniteSetTheorems, SequenceFacts, TLAPS

-----------------------------------------------------------------------------
(* The inductive invariant.                                                *)

States == {"unlinked", "linking", "linked", "evaluating", "evaluated", "error"}
ItemSet == [module : Module, parent : Nat, dfs : Nat, node : Nat]
LinkFrame == [op : {"link"}, at : {"resolve", "callback", "visit", "linked"},
              items : Seq(ItemSet), current : Nat, index : Nat]
EvaluateFrame == [op : {"evaluate"}, at : {"ok", "wait", "error", "body", "changed"},
                  module : Module, node : Nat]
ImportFrame == [op : {"import"}, at : {"ok", "wait", "error"}, module : Module]
Frame == LinkFrame \cup EvaluateFrame \cup ImportFrame

TypeOK ==
  /\ imports \in [Module -> Seq(Module)]
  /\ resolved = [m \in Module |-> resolved[m]]
  /\ state \in [Module -> States]
  /\ ancestor \in [Module -> Nat]
  /\ scope \in [Module -> BOOLEAN]
  /\ ran \in [Module -> Nat]
  /\ calls \in Seq(Frame)

\* Items point to their parents, which are below, and were numbered in order.
ItemsOK(f) ==
  /\ f.current \in 1 .. Len(f.items)
  /\ \A k \in 1 .. Len(f.items) : /\ f.items[k].parent < k
                                  /\ f.items[k].parent = 0 <=> k = 1
                                  /\ f.items[k].node >= 1
  /\ \A k \in 1 .. Len(f.items) : f.items[k].dfs <= f.index
  /\ f.items[1].dfs = 0

\* The modules of the items are distinct.
OrderOK(f) ==
  \A j, k \in 1 .. Len(f.items) : j < k =>
    f.items[j].dfs < f.items[k].dfs /\ f.items[j].module # f.items[k].module

\* They are being linked; the last one is linked when it is reported.
ItemStates(f) ==
  \A k \in 1 .. Len(f.items) :
    /\ f.at = "linked" /\ k = Len(f.items) => state[f.items[k].module] = "linked"
    /\ f.at # "linked" \/ k # Len(f.items) => state[f.items[k].module] = "linking"

StackOK(f) == ItemsOK(f) /\ OrderOK(f) /\ ItemStates(f)

\* A is the path of the search: the current item, its parent and so on.
Path(f, A) ==
  /\ A \subseteq 1 .. Len(f.items)
  /\ f.current \in A
  /\ \A a \in A :
       /\ a <= f.current
       /\ a # 1 => /\ f.items[a].parent \in A
                   /\ \A b \in A : b < a => b <= f.items[a].parent

\* The ancestor index of a module is not above its own.
AncestorLow(f) ==
  \A k \in 1 .. Len(f.items) : ancestor[f.items[k].module] <= f.items[k].dfs

\* The requests of all modules on the stack are resolved, those of the current one when
\* its imports are visited.
ResolvedOK(f) ==
  \A k \in 1 .. Len(f.items) :
    k # f.current \/ f.at \in {"visit", "linked"} => Unresolved(f.items[k].module) = {}

\* A module off the path is done,
OffPathDone(f, A) ==
  \A k \in 1 .. Len(f.items) : k \notin A =>
    scope[f.items[k].module] /\ f.items[k].node > Len(imports[f.items[k].module])

\* and the last item of the path before it has an ancestor index that is not above its.
OffPathLow(f, A) ==
  \A k \in 1 .. Len(f.items) : k \notin A =>
    \A a \in A : a < k /\ (\A b \in A : b < k => b <= a) =>
      ancestor[f.items[a].module] <= ancestor[f.items[k].module]

\* An import that was looked at is not unlinked, and its index bounds the ancestor index
\* of the module that imports it.
SeenOK(f) ==
  \A k \in 1 .. Len(f.items) : \A i \in 1 .. Len(imports[f.items[k].module]) :
    i < f.items[k].node =>
      /\ state[imports[f.items[k].module][i]] # "unlinked"
      /\ \A j \in 1 .. Len(f.items) : f.items[j].module = imports[f.items[k].module][i] =>
           ancestor[f.items[k].module] <= f.items[j].dfs

SearchOK(f, A) ==
  AncestorLow(f) /\ ResolvedOK(f) /\ OffPathDone(f, A) /\ OffPathLow(f, A) /\ SeenOK(f)

\* The current item is the root of a component.
RootOK(f) ==
  LET r == f.items[f.current]
  IN f.at = "linked" =>
       ancestor[r.module] = r.dfs /\ scope[r.module] /\ r.node > Len(imports[r.module])

\* There is a link only at the top, and it links what is being linked.
LinkOK ==
  /\ \A c \in 1 .. Len(calls) : calls[c].op = "link" =>
       /\ c = Len(calls)
       /\ StackOK(calls[c]) /\ RootOK(calls[c])
       /\ \E A \in SUBSET (1 .. Len(calls[c].items)) :
            Path(calls[c], A) /\ SearchOK(calls[c], A)
  /\ \A m \in Module : state[m] = "linking" =>
       \E c \in 1 .. Len(calls) :
         /\ calls[c].op = "link"
         /\ \E k \in 1 .. Len(calls[c].items) : calls[c].items[k].module = m

\* Calls that wait have the call that they wait for above them.
WaitOK ==
  \A c \in 1 .. Len(calls) : calls[c].at = "wait" =>
    /\ c < Len(calls)
    /\ calls[c].op = "import" => calls[c + 1].op \in {"link", "evaluate"}
    /\ calls[c].op = "evaluate" =>
         /\ calls[c].node \in 1 .. Len(imports[calls[c].module])
         /\ calls[c + 1].op = "evaluate"
         /\ calls[c + 1].module = imports[calls[c].module][calls[c].node]

\* The import t is evaluated, or being evaluated by one of the first c calls.
Ready(c, t) ==
  \/ state[t] = "evaluated"
  \/ \E b \in 1 .. c : calls[b].op = "evaluate" /\ calls[b].module = t

\* What the call c, an evaluation, knows: its module is being evaluated until the end,
\* its body has not run before, and the imports that it has passed are ready.
EvaluateCall(c) ==
  LET f == calls[c]
      t(i) == imports[f.module][i]
  IN /\ f.node <= Len(imports[f.module])
     /\ f.at # "changed" => state[f.module] = "evaluating"
     /\ f.at = "changed" => state[f.module] \in {"evaluated", "error"}
     /\ f.at \in {"ok", "wait", "error"} => ran[f.module] = 0
     /\ f.at \in {"ok", "body"} => \A i \in 1 .. f.node : Ready(c, t(i))
     /\ f.at = "wait" => \A i \in 1 .. f.node - 1 : Ready(c, t(i))
     /\ f.at = "body" => f.node = Len(imports[f.module])

EvaluateCalls == \A c \in 1 .. Len(calls) : calls[c].op = "evaluate" => EvaluateCall(c)

\* No module is evaluated by two calls.
CallsDistinct ==
  \A b, c \in 1 .. Len(calls) :
    calls[b].op = "evaluate" /\ calls[c].op = "evaluate" /\ calls[b].module = calls[c].module
      => b = c

\* A module that is being evaluated has a call.
EvaluatingOnStack ==
  \A m \in Module : state[m] = "evaluating" =>
    \E c \in 1 .. Len(calls) : calls[c].op = "evaluate" /\ calls[c].module = m

RanOnce ==
  \A m \in Module : /\ ran[m] <= 1
                    /\ state[m] \in {"unlinked", "linking", "linked"} => ran[m] = 0

EvaluateOK == EvaluateCalls /\ CallsDistinct /\ EvaluatingOnStack /\ RanOnce

Inv == TypeOK /\ LinkOK /\ WaitOK /\ EvaluateOK /\ LinkedClosed

-----------------------------------------------------------------------------
(* Lemmas about calls.                                                     *)

\* The frames of the three operations.
LEMMA FrameKinds ==
  ASSUME NEW f \in Frame
  PROVE  /\ f.op \in {"link", "evaluate", "import"}
         /\ f.op = "link" => f \in LinkFrame
         /\ f.op = "evaluate" => f \in EvaluateFrame
         /\ f.op = "import" => f \in ImportFrame
  BY DEF Frame, LinkFrame, EvaluateFrame, ImportFrame

LEMMA CallsType ==
  ASSUME TypeOK
  PROVE  /\ Len(calls) \in Nat /\ (calls = <<>> <=> Len(calls) = 0)
         /\ DOMAIN calls = 1 .. Len(calls)
         /\ \A c \in 1 .. Len(calls) : calls[c] \in Frame
<1> HIDE DEF Frame
<1> QED BY EmptyLen, LenProperties, ElementOfSeq DEF TypeOK

LEMMA CallsLen ==
  ASSUME TypeOK, calls # <<>>
  PROVE  \E n \in Nat : n = Len(calls) /\ n > 0
<1>1. Len(calls) \in Nat /\ (calls = <<>> <=> Len(calls) = 0)
  BY CallsType
<1> QED BY <1>1

LEMMA ImportsType ==
  ASSUME TypeOK, NEW m \in Module
  PROVE  /\ imports[m] \in Seq(Module) /\ Len(imports[m]) \in Nat
         /\ DOMAIN imports[m] = 1 .. Len(imports[m])
         /\ \A i \in 1 .. Len(imports[m]) : imports[m][i] \in Module
<1>1. imports[m] \in Seq(Module)
  BY DEF TypeOK
<1> QED BY <1>1, EmptyLen, LenProperties, ElementOfSeq

LEMMA ItemsType ==
  ASSUME NEW f \in LinkFrame
  PROVE  /\ f.items \in Seq(ItemSet) /\ Len(f.items) \in Nat
         /\ \A k \in 1 .. Len(f.items) : /\ f.items[k] \in ItemSet
                                         /\ f.items[k].module \in Module
                                         /\ f.items[k].parent \in Nat
                                         /\ f.items[k].dfs \in Nat
                                         /\ f.items[k].node \in Nat
         /\ f.current \in Nat /\ f.index \in Nat
<1>1. f.items \in Seq(ItemSet) /\ f.current \in Nat /\ f.index \in Nat
  BY DEF LinkFrame
<1>2. Len(f.items) \in Nat /\ \A k \in 1 .. Len(f.items) : f.items[k] \in ItemSet
  BY <1>1, EmptyLen, ElementOfSeq
<1> QED BY <1>1, <1>2 DEF ItemSet

\* A call returns: only the place of a call that waits for it changes.
LEMMA Returned ==
  ASSUME NEW fs \in Seq(Frame), NEW r \in {"ok", "error"}
  PROVE  LET gs == Return(fs, r)
             n == Len(fs)
         IN /\ gs \in Seq(Frame) /\ Len(gs) = n
            /\ \A i \in 1 .. n : i < n \/ fs[i].at # "wait" => gs[i] = fs[i]
            /\ \A i \in 1 .. n : i = n /\ fs[i].at = "wait" => gs[i] = [fs[i] EXCEPT !.at = r]
<1>1. PICK n \in Nat : n = Len(fs) /\ (fs = <<>> <=> n = 0)
  BY EmptyLen
<1>2. CASE fs # <<>> /\ fs[n].at = "wait"
  <2> DEFINE e == [fs[n] EXCEPT !.at = r]
  <2>1. n \in 1 .. n /\ fs[n] \in Frame
    BY <1>1, <1>2, ElementOfSeq
  <2>2. e \in Frame
    <3>1. fs[n].op \in {"evaluate", "import"}
      BY <1>2, <2>1, FrameKinds DEF LinkFrame
    <3>2. CASE fs[n].op = "evaluate"
      <4>1. fs[n] \in EvaluateFrame
        BY <2>1, <3>2, FrameKinds
      <4>2. e \in EvaluateFrame
        BY <4>1 DEF EvaluateFrame
      <4> QED BY <4>2 DEF Frame
    <3>3. CASE fs[n].op = "import"
      <4>1. fs[n] \in ImportFrame
        BY <2>1, <3>3, FrameKinds
      <4>2. e \in ImportFrame
        BY <4>1 DEF ImportFrame
      <4> QED BY <4>2 DEF Frame
    <3> QED BY <3>1, <3>2, <3>3
  <2>3. Return(fs, r) = [fs EXCEPT ![n] = e]
    BY <1>1, <1>2 DEF Return
  <2> HIDE DEF e
  <2>4. /\ [fs EXCEPT ![n] = e] \in Seq(Frame)
        /\ Len([fs EXCEPT ![n] = e]) = n
        /\ \A j \in 1 .. n : [fs EXCEPT ![n] = e][j] = IF j = n THEN e ELSE fs[j]
    BY <1>1, <2>1, <2>2, ExceptSeq
  <2> QED BY <1>1, <1>2, <2>3, <2>4 DEF e
<1>3. CASE ~(fs # <<>> /\ fs[n].at = "wait")
  <2>1. Return(fs, r) = fs
    BY <1>1, <1>3 DEF Return
  <2> QED BY <1>1, <1>3, <2>1
<1> QED BY <1>2, <1>3

-----------------------------------------------------------------------------
(* Steps of a link and the calls below it.                                 *)

Early == {"unlinked", "linking", "linked"}

\* What every step of a link leaves of the other variables.
LinkKeeps ==
  /\ imports' = imports /\ ran' = ran
  /\ resolved' = [m \in Module |-> resolved'[m]]
  /\ state' \in [Module -> States]
  /\ ancestor' \in [Module -> Nat]
  /\ scope' \in [Module -> BOOLEAN]
  /\ \A m \in Module : state'[m] = state[m] \/ (state[m] \in Early /\ state'[m] \in Early)

\* An evaluation that is left alone keeps what it knows, if no evaluation below it is
\* lost and the modules that are evaluated or being evaluated stay so.
LEMMA CallKept ==
  ASSUME TypeOK, NEW c \in 1 .. Len(calls), calls[c].op = "evaluate", calls[c] \in Frame,
         EvaluateCall(c), calls'[c] = calls[c], imports' = imports, ran' = ran,
         \A m \in Module : state[m] \in {"evaluating", "evaluated", "error"} => state'[m] = state[m],
         \A b \in 1 .. c : calls[b].op = "evaluate" => calls'[b] = calls[b]
  PROVE  EvaluateCall(c)'
<1> DEFINE m == calls[c].module
<1>1. m \in Module /\ calls[c].node \in Nat
  BY FrameKinds DEF EvaluateFrame
<1>2. Len(imports[m]) \in Nat /\ \A i \in 1 .. Len(imports[m]) : imports[m][i] \in Module
  BY <1>1, ImportsType
<1>3. ASSUME NEW t \in Module, Ready(c, t) PROVE Ready(c, t)'
  BY <1>3 DEF Ready
<1>4. \A i \in 1 .. calls[c].node : imports[m][i] \in Module
  BY <1>1, <1>2 DEF EvaluateCall
<1>5. /\ calls[c].at \in {"ok", "body"} => \A i \in 1 .. calls[c].node : Ready(c, imports[m][i])'
      /\ calls[c].at = "wait" => \A i \in 1 .. calls[c].node - 1 : Ready(c, imports[m][i])'
  <2>1. /\ calls[c].at \in {"ok", "body"} => \A i \in 1 .. calls[c].node : Ready(c, imports[m][i])
        /\ calls[c].at = "wait" => \A i \in 1 .. calls[c].node - 1 : Ready(c, imports[m][i])
    BY DEF EvaluateCall
  <2>2. \A i \in 1 .. calls[c].node - 1 : imports[m][i] \in Module
    BY <1>1, <1>4
  <2>3. calls'[c].module = m /\ imports' = imports
    OBVIOUS
  <2>4. CASE calls[c].at \in {"ok", "body"}
    <3>1. \A i \in 1 .. calls[c].node : Ready(c, imports[m][i])'
      BY <1>3, <1>4, <2>1, <2>3, <2>4
    <3> QED BY <2>4, <3>1
  <2>5. CASE calls[c].at = "wait"
    <3>1. \A i \in 1 .. calls[c].node - 1 : Ready(c, imports[m][i])'
      BY <1>3, <2>1, <2>2, <2>3, <2>5
    <3> QED BY <2>5, <3>1
  <2> QED BY <2>4, <2>5
<1> QED BY <1>1, <1>5 DEF EvaluateCall

\* Steps that touch no evaluation.
LEMMA EvaluateKept ==
  ASSUME Inv, imports' = imports, ran' = ran,
         \A m \in Module : state'[m] = state[m] \/ (state[m] \in Early /\ state'[m] \in Early),
         \A c \in 1 .. Len(calls) : calls[c].op = "evaluate" =>
           c \in 1 .. Len(calls') /\ calls'[c] = calls[c],
         \A c \in 1 .. Len(calls') : calls'[c].op = "evaluate" =>
           c \in 1 .. Len(calls) /\ calls[c].op = "evaluate"
  PROVE  EvaluateOK'
<1>1. \A m \in Module : /\ state[m] \in {"evaluating", "evaluated", "error"} => state'[m] = state[m]
                        /\ state'[m] \in {"evaluating", "evaluated", "error"} => state'[m] = state[m]
                        /\ state'[m] \in Early => state[m] \in Early
  BY DEF Early, Inv, TypeOK, States
<1>2. EvaluateCalls'
  <2> SUFFICES ASSUME NEW c \in 1 .. Len(calls'), calls'[c].op = "evaluate" PROVE EvaluateCall(c)'
    BY DEF EvaluateCalls
  <2>1. c \in 1 .. Len(calls) /\ calls'[c] = calls[c] /\ calls[c].op = "evaluate"
    OBVIOUS
  <2>2. EvaluateCall(c)
    BY <2>1 DEF Inv, EvaluateOK, EvaluateCalls
  <2>3. Len(calls) \in Nat /\ calls[c] \in Frame
    BY <2>1, CallsType DEF Inv
  <2>4. \A b \in 1 .. c : b \in 1 .. Len(calls)
    BY <2>1, <2>3
  <2>5. \A b \in 1 .. c : calls[b].op = "evaluate" => calls'[b] = calls[b]
    BY <2>4
  <2> QED BY <1>1, <2>1, <2>2, <2>3, <2>5, CallKept DEF Inv
<1>3. CallsDistinct'
  BY DEF Inv, EvaluateOK, CallsDistinct
<1>4. EvaluatingOnStack'
  BY <1>1 DEF Inv, EvaluateOK, EvaluatingOnStack
<1>5. RanOnce'
  BY <1>1 DEF Inv, EvaluateOK, RanOnce, Early
<1> QED BY <1>2, <1>3, <1>4, <1>5 DEF EvaluateOK

\* Calls below a link are those of imports, bodies and callbacks; a step of the link
\* does not change what they rely on.
LEMMA LinkStep ==
  ASSUME Inv, LinkKeeps, calls # <<>>, Top.op = "link",
         NEW g \in LinkFrame, calls' = Append(Below, g),
         StackOK(g)', RootOK(g)',
         NEW A \in SUBSET (1 .. Len(g.items)), Path(g, A), SearchOK(g, A)',
         \A m \in Module : state'[m] = "linking" =>
           \E k \in 1 .. Len(g.items) : g.items[k].module = m
  PROVE  TypeOK' /\ LinkOK' /\ WaitOK' /\ EvaluateOK'
<1>1. PICK n \in Nat : n = Len(calls) /\ n > 0
  BY CallsLen DEF Inv
<1>2. \A c \in 1 .. n : calls[c] \in Frame
  BY <1>1, CallsType DEF Inv
<1>3. g \in Frame
  BY DEF Frame
<1>4. /\ calls' \in Seq(Frame) /\ Len(calls') = n
      /\ \A c \in 1 .. n - 1 : calls'[c] = calls[c]
      /\ calls'[n] = g
  <2> HIDE DEF Frame
  <2> QED BY <1>1, <1>3, ReplaceLast DEF Below, Inv, TypeOK
<1>5. g.op = "link" /\ g.at # "wait"
  BY DEF LinkFrame
<1>6. calls[n].op = "link" /\ calls[n].at # "wait"
  <2>1. calls[n] \in Frame /\ calls[n].op = "link"
    BY <1>1, <1>2 DEF Top
  <2>2. calls[n] \in LinkFrame
    BY <2>1, FrameKinds
  <2> QED BY <2>1, <2>2 DEF LinkFrame
<1>7. TypeOK'
  BY <1>4 DEF LinkKeeps, Inv, TypeOK
<1>8. \A c \in 1 .. n : c # n => calls[c].op # "link" /\ calls'[c].op # "link"
  BY <1>1, <1>4 DEF Inv, LinkOK
<1>9. LinkOK'
  <2>1. \A c \in 1 .. n : calls'[c].op = "link" => c = n
    BY <1>8
  <2>2. \E B \in SUBSET (1 .. Len(g.items)) : Path(g, B)' /\ SearchOK(g, B)'
    BY DEF Path
  <2>3. ASSUME NEW m \in Module, state'[m] = "linking"
        PROVE  \E c \in 1 .. n : /\ calls'[c].op = "link"
                                 /\ \E k \in 1 .. Len(calls'[c].items) : calls'[c].items[k].module = m
    <3>1. n \in 1 .. n
      BY <1>1
    <3> QED BY <1>4, <1>5, <2>3, <3>1
  <2> QED BY <1>1, <1>4, <1>5, <2>1, <2>2, <2>3 DEF LinkOK
<1>10. WaitOK'
  <2> SUFFICES ASSUME NEW c \in 1 .. n, calls'[c].at = "wait"
               PROVE  /\ c < n
                      /\ calls'[c].op = "import" => calls'[c + 1].op \in {"link", "evaluate"}
                      /\ calls'[c].op = "evaluate" =>
                           /\ calls'[c].node \in 1 .. Len(imports[calls'[c].module])
                           /\ calls'[c + 1].op = "evaluate"
                           /\ calls'[c + 1].module = imports[calls'[c].module][calls'[c].node]
    BY <1>4 DEF WaitOK, LinkKeeps
  <2>1. c # n /\ c \in 1 .. n - 1 /\ calls'[c] = calls[c]
    BY <1>4, <1>5
  <2>2. c + 1 \in 1 .. n /\ (c + 1 # n => calls'[c + 1] = calls[c + 1])
    BY <1>4, <2>1
  <2>3. calls'[c + 1].op = calls[c + 1].op
    BY <1>4, <1>5, <1>6, <2>2
  <2>4. calls[c].op = "evaluate" => c + 1 # n
    BY <1>1, <1>6, <2>1 DEF Inv, WaitOK
  <2> QED BY <1>1, <2>1, <2>2, <2>3, <2>4 DEF Inv, WaitOK
<1>11. EvaluateOK'
  <2>1. \A c \in 1 .. n : calls[c].op = "evaluate" \/ calls'[c].op = "evaluate" =>
          calls'[c] = calls[c]
    BY <1>4, <1>5, <1>6
  <2> QED BY <1>1, <1>4, <2>1, EvaluateKept DEF LinkKeeps
<1> QED BY <1>7, <1>9, <1>10, <1>11

\* The link returns, and nothing is being linked any more.
LEMMA LinkEnds ==
  ASSUME Inv, LinkKeeps, calls # <<>>, Top.op = "link",
         NEW r \in {"ok", "error"}, calls' = Return(Below, r),
         \A m \in Module : state'[m] # "linking"
  PROVE  TypeOK' /\ LinkOK' /\ WaitOK' /\ EvaluateOK'
<1>1. PICK n \in Nat : n = Len(calls) /\ n > 0
  BY CallsLen DEF Inv
<1>2. /\ Below \in Seq(Frame) /\ Len(Below) = n - 1
      /\ \A c \in 1 .. n - 1 : Below[c] = calls[c]
  <2> HIDE DEF Frame
  <2> QED BY <1>1, FrontProperties DEF Below, Inv, TypeOK
<1>3. /\ calls' \in Seq(Frame) /\ Len(calls') = n - 1
      /\ \A c \in 1 .. n - 1 : c < n - 1 \/ Below[c].at # "wait" => calls'[c] = Below[c]
      /\ \A c \in 1 .. n - 1 : c = n - 1 /\ Below[c].at = "wait" =>
           calls'[c] = [Below[c] EXCEPT !.at = r]
  BY <1>2, Returned
<1>4. \A c \in 1 .. n - 1 : c < n - 1 \/ calls[c].at # "wait" => calls'[c] = calls[c]
  BY <1>2, <1>3
<1>5. calls[n].op = "link"
  BY <1>1 DEF Top
<1>6. \A c \in 1 .. n : calls[c] \in Frame
  BY <1>1, CallsType DEF Inv
<1>7. ASSUME NEW c \in 1 .. n - 1, c = n - 1, calls[c].at = "wait"
      PROVE  calls[c].op = "import" /\ calls'[c].op = "import" /\ calls'[c].at # "wait"
  <2>1. calls[c] \in Frame /\ c \in 1 .. n /\ c + 1 = n
    BY <1>1, <1>6, <1>7
  <2>2. calls[c].op # "evaluate"
    BY <1>1, <1>5, <1>7, <2>1 DEF Inv, WaitOK
  <2>3. calls[c].op # "link"
    BY <1>7, <2>1, FrameKinds DEF LinkFrame
  <2>4. calls[c] \in ImportFrame /\ calls[c].op = "import"
    BY <2>1, <2>2, <2>3, FrameKinds
  <2>5. calls'[c] = [calls[c] EXCEPT !.at = r]
    BY <1>2, <1>3, <1>7
  <2> QED BY <2>4, <2>5 DEF ImportFrame
<1>8. TypeOK'
  BY <1>3 DEF LinkKeeps, Inv, TypeOK
<1>9. \A c \in 1 .. n - 1 : c \in 1 .. n /\ calls[c].op # "link" /\ calls'[c].op # "link"
  <2>1. \A c \in 1 .. n - 1 : c \in 1 .. n /\ calls[c].op # "link"
    BY <1>1 DEF Inv, LinkOK
  <2> QED BY <1>4, <1>7, <2>1
<1>10. LinkOK'
  BY <1>3, <1>9 DEF LinkOK
<1>11. WaitOK'
  <2> SUFFICES ASSUME NEW c \in 1 .. n - 1, calls'[c].at = "wait"
               PROVE  /\ c < n - 1
                      /\ calls'[c].op = "import" => calls'[c + 1].op \in {"link", "evaluate"}
                      /\ calls'[c].op = "evaluate" =>
                           /\ calls'[c].node \in 1 .. Len(imports[calls'[c].module])
                           /\ calls'[c + 1].op = "evaluate"
                           /\ calls'[c + 1].module = imports[calls'[c].module][calls'[c].node]
    BY <1>3 DEF WaitOK, LinkKeeps
  <2>1. c < n - 1 /\ calls'[c] = calls[c]
    BY <1>4, <1>7
  <2>2. c + 1 \in 1 .. n - 1 /\ c \in 1 .. n
    BY <2>1
  <2>3. /\ calls[c].op = "import" => calls[c + 1].op \in {"link", "evaluate"}
        /\ calls[c].op = "evaluate" =>
             /\ calls[c].node \in 1 .. Len(imports[calls[c].module])
             /\ calls[c + 1].op = "evaluate"
             /\ calls[c + 1].module = imports[calls[c].module][calls[c].node]
    BY <1>1, <2>1, <2>2 DEF Inv, WaitOK
  <2>4. /\ calls'[c + 1].op = calls[c + 1].op
        /\ calls[c + 1].op = "evaluate" => calls'[c + 1] = calls[c + 1]
    BY <1>4, <1>7, <2>2
  <2> QED BY <2>1, <2>3, <2>4
<1>12. EvaluateOK'
  <2>1. \A c \in 1 .. n : calls[c].op = "evaluate" => c \in 1 .. n - 1 /\ calls'[c] = calls[c]
    BY <1>4, <1>5, <1>7
  <2>2. \A c \in 1 .. n - 1 : calls'[c].op = "evaluate" => c \in 1 .. n /\ calls[c].op = "evaluate"
    BY <1>4, <1>7
  <2> QED BY <1>1, <1>3, <2>1, <2>2, EvaluateKept DEF LinkKeeps
<1> QED BY <1>8, <1>10, <1>11, <1>12

-----------------------------------------------------------------------------
(* What is linked stays closed.                                            *)

Done(m) == state[m] \notin {"unlinked", "linking"}

\* t belongs to the component that a link reports.
Pending(t) ==
  \E c \in DOMAIN calls :
    /\ calls[c].op = "link"
    /\ calls[c].at = "linked"
    /\ \E k \in calls[c].current .. Len(calls[c].items) : calls[c].items[k].module = t

ClosedAt(m) ==
  /\ scope[m]
  /\ Unresolved(m) = {}
  /\ \A i \in DOMAIN imports[m] :
       /\ scope[imports[m][i]]
       /\ state[imports[m][i]] # "unlinked"
       /\ state[imports[m][i]] = "linking" => Pending(imports[m][i])

LEMMA ClosedDef ==
  LinkedClosed <=> phase # "assert" /\ \A m \in Module : Done(m) => ClosedAt(m)
  BY DEF LinkedClosed, Done, ClosedAt, Pending

\* A module stays closed when no import of it is unlinked.
LEMMA ClosedKept ==
  ASSUME Inv, imports' = imports,
         \A m \in Module : scope[m] => scope'[m],
         \A m \in Module : resolved[m] \subseteq resolved'[m],
         \A m \in Module : Done(m) => Done(m)',
         \A m \in Module : Pending(m) => /\ state'[m] # "unlinked"
                                         /\ state'[m] = "linking" => Pending(m)',
         NEW m \in Module, Done(m)
  PROVE  ClosedAt(m)'
<1>1. ClosedAt(m)
  BY ClosedDef DEF Inv
<1>2. \A i \in DOMAIN imports[m] : imports[m][i] \in Module
  BY ImportsType DEF Inv
<1>3. Unresolved(m)' = {}
  BY <1>1 DEF ClosedAt, Unresolved
<1>4. ASSUME NEW i \in DOMAIN imports[m]
      PROVE  /\ scope'[imports[m][i]]
             /\ state'[imports[m][i]] # "unlinked"
             /\ state'[imports[m][i]] = "linking" => Pending(imports[m][i])'
  <2>0. PICK t \in Module : t = imports[m][i]
    BY <1>2
  <2>1. scope[t] /\ state[t] # "unlinked" /\ (state[t] = "linking" => Pending(t))
    BY <1>1, <2>0 DEF ClosedAt
  <2>2. scope'[t]
    BY <2>1
  <2>3. CASE state[t] = "linking"
    <3>1. state'[t] # "unlinked" /\ (state'[t] = "linking" => Pending(t)')
      BY <2>1, <2>3
    <3> QED BY <2>0, <2>2, <3>1
  <2>4. CASE state[t] # "linking"
    <3>1. Done(t)'
      BY <2>1, <2>4 DEF Done
    <3> QED BY <2>0, <2>2, <3>1 DEF Done
  <2> QED BY <2>3, <2>4
<1> QED BY <1>1, <1>3, <1>4 DEF ClosedAt

\* The link that a step leaves at the top.
LEMMA NextTop ==
  ASSUME TypeOK, calls # <<>>, NEW g \in LinkFrame, calls' = Append(Below, g)
  PROVE  \A t : g.at = "linked" /\ (\E j \in g.current .. Len(g.items) : g.items[j].module = t)
           => Pending(t)'
<1>1. PICK n \in Nat : n = Len(calls) /\ n > 0
  BY CallsLen
<1>2. g \in Frame /\ g.op = "link"
  BY DEF Frame, LinkFrame
<1>3. calls' \in Seq(Frame) /\ Len(calls') = n /\ calls'[n] = g
  <2> HIDE DEF Frame
  <2> QED BY <1>1, <1>2, ReplaceLast DEF Below, TypeOK
<1>4. DOMAIN calls' = 1 .. n /\ n \in 1 .. n
  <2> HIDE DEF Frame
  <2> QED BY <1>1, <1>3, LenProperties
<1> QED BY <1>2, <1>3, <1>4 DEF Pending

\* The link at the top.
LEMMA TopLink ==
  ASSUME Inv, calls # <<>>, Top.op = "link"
  PROVE  \E f \in LinkFrame :
           /\ f = Top
           /\ StackOK(f) /\ RootOK(f)
           /\ \E A \in SUBSET (1 .. Len(f.items)) : Path(f, A) /\ SearchOK(f, A)
           /\ \A m \in Module : state[m] = "linking" =>
                \E k \in 1 .. Len(f.items) : f.items[k].module = m
           /\ \A t \in Module : Pending(t) <=>
                f.at = "linked" /\ \E k \in f.current .. Len(f.items) : f.items[k].module = t
<1>1. PICK n \in Nat : n = Len(calls) /\ n > 0
  BY CallsLen DEF Inv
<1>2. n \in 1 .. n /\ DOMAIN calls = 1 .. n /\ calls[n] \in Frame /\ Top = calls[n]
  BY <1>1, CallsType DEF Inv, Top
<1>3. PICK f : f = calls[n]
  OBVIOUS
<1>4. f \in LinkFrame /\ f.op = "link"
  BY <1>2, <1>3, FrameKinds
<1>5. /\ StackOK(f) /\ RootOK(f)
      /\ \E A \in SUBSET (1 .. Len(f.items)) : Path(f, A) /\ SearchOK(f, A)
  BY <1>1, <1>2, <1>3, <1>4 DEF Inv, LinkOK
<1>6. \A c \in 1 .. n : calls[c].op = "link" => c = n
  BY <1>1 DEF Inv, LinkOK
<1>7. \A m \in Module : state[m] = "linking" =>
        \E k \in 1 .. Len(f.items) : f.items[k].module = m
  BY <1>1, <1>3, <1>6 DEF Inv, LinkOK
<1>8. \A t \in Module : Pending(t) <=>
        f.at = "linked" /\ \E k \in f.current .. Len(f.items) : f.items[k].module = t
  BY <1>2, <1>3, <1>4, <1>6 DEF Pending
<1> QED BY <1>2, <1>3, <1>4, <1>5, <1>7, <1>8

\* The modules that wait to be reported are linked or still wait.
ReportedKept(f, g) ==
  \A k \in f.current .. Len(f.items) :
    /\ state'[f.items[k].module] # "unlinked"
    /\ state'[f.items[k].module] = "linking" =>
         /\ g.at = "linked"
         /\ \E j \in g.current .. Len(g.items) : g.items[j].module = f.items[k].module

\* A step of the link, with what it does to the closure of the linked modules.
LEMMA LinkStepInv ==
  ASSUME Inv, LinkKeeps, calls # <<>>, Top.op = "link", phase' = phase,
         NEW f \in LinkFrame, f = Top,
         NEW g \in LinkFrame, calls' = Append(Below, g),
         StackOK(g)', RootOK(g)',
         NEW A \in SUBSET (1 .. Len(g.items)), Path(g, A), SearchOK(g, A)',
         \A m \in Module : state'[m] = "linking" =>
           \E k \in 1 .. Len(g.items) : g.items[k].module = m,
         \A m \in Module : scope[m] => scope'[m],
         \A m \in Module : resolved[m] \subseteq resolved'[m],
         \A m \in Module : Done(m) => Done(m)',
         f.at = "linked" => ReportedKept(f, g),
         \A m \in Module : Done(m)' /\ ~Done(m) => ClosedAt(m)'
  PROVE  Inv'
<1>1. TypeOK' /\ LinkOK' /\ WaitOK' /\ EvaluateOK'
  BY LinkStep
<1>5. \A t : g.at = "linked" /\ (\E j \in g.current .. Len(g.items) : g.items[j].module = t)
        => Pending(t)'
  BY NextTop DEF Inv
<1>6. \A t \in Module : Pending(t) =>
        f.at = "linked" /\ \E k \in f.current .. Len(f.items) : f.items[k].module = t
  <2>1. PICK h \in LinkFrame : h = Top /\ \A t \in Module : Pending(t) <=>
          h.at = "linked" /\ \E k \in h.current .. Len(h.items) : h.items[k].module = t
    <3> HIDE DEF LinkFrame
    <3> QED BY TopLink
  <2> QED BY <2>1
<1>7. \A t \in Module : Pending(t) => /\ state'[t] # "unlinked"
                                      /\ state'[t] = "linking" => Pending(t)'
  BY <1>5, <1>6 DEF ReportedKept
<1>8. \A m \in Module : Done(m)' => ClosedAt(m)'
  <2> SUFFICES ASSUME NEW m \in Module, Done(m)' PROVE ClosedAt(m)'
    OBVIOUS
  <2>1. CASE Done(m)
    BY <1>7, <2>1, ClosedKept DEF LinkKeeps
  <2> QED BY <2>1
<1>9. phase' # "assert"
  BY DEF Inv, LinkedClosed
<1>10. LinkedClosed'
  BY <1>8, <1>9 DEF LinkedClosed, Done, ClosedAt, Pending
<1> QED BY <1>1, <1>10 DEF Inv

\* A step that only goes to another place of the search.
LEMMA PlaceStep ==
  ASSUME Inv, calls # <<>>, Top.op = "link", Top.at \in {"resolve", "callback"},
         NEW p \in {"resolve", "callback", "visit"}, calls' = Goto(p),
         UNCHANGED <<imports, scope, state, ancestor, ran, phase>>,
         resolved' = [m \in Module |-> resolved'[m]],
         \A m \in Module : resolved[m] \subseteq resolved'[m],
         p = "visit" => Unresolved(CurrentModule) = {}
  PROVE  Inv'
<1>1. PICK f \in LinkFrame :
        /\ f = Top
        /\ StackOK(f) /\ RootOK(f)
        /\ \E A \in SUBSET (1 .. Len(f.items)) : Path(f, A) /\ SearchOK(f, A)
        /\ \A m \in Module : state[m] = "linking" =>
             \E k \in 1 .. Len(f.items) : f.items[k].module = m
  BY TopLink
<1>2. PICK A \in SUBSET (1 .. Len(f.items)) : Path(f, A) /\ SearchOK(f, A)
  BY <1>1
<1>3. PICK g : g = [f EXCEPT !.at = p]
  OBVIOUS
<1>4. /\ g \in LinkFrame /\ g.items = f.items /\ g.current = f.current
      /\ g.index = f.index /\ g.at = p /\ f.at \in {"resolve", "callback"}
  BY <1>1, <1>3 DEF LinkFrame
<1>5. calls' = Append(Below, g)
  BY <1>1, <1>3 DEF Goto
<1>6. LinkKeeps
  BY DEF LinkKeeps, Inv, TypeOK
<1>7. StackOK(g)'
  BY <1>1, <1>4 DEF StackOK, ItemsOK, OrderOK, ItemStates
<1>8. RootOK(g)'
  BY <1>4 DEF RootOK
<1>9. Path(g, A)
  BY <1>2, <1>4 DEF Path
<1>10. \A k \in 1 .. Len(f.items) : f.items[k].module \in Module
  BY ItemsType
<1>11. \A k \in 1 .. Len(f.items) :
         k # f.current \/ p = "visit" => Unresolved(f.items[k].module)' = {}
  <2>1. CurrentModule = f.items[f.current].module
    BY <1>1 DEF CurrentModule, Current
  <2>2. \A k \in 1 .. Len(f.items) :
          k # f.current \/ p = "visit" => Unresolved(f.items[k].module) = {}
    BY <1>2, <2>1 DEF SearchOK, ResolvedOK
  <2> QED BY <1>10, <2>2 DEF Unresolved
<1>12. SearchOK(g, A)'
  <2>1. AncestorLow(g)' /\ OffPathDone(g, A)' /\ OffPathLow(g, A)' /\ SeenOK(g)'
    BY <1>2, <1>4 DEF SearchOK, AncestorLow, OffPathDone, OffPathLow, SeenOK
  <2>2. ResolvedOK(g)'
    BY <1>4, <1>11 DEF ResolvedOK, Unresolved
  <2> QED BY <2>1, <2>2 DEF SearchOK
<1>13. \A m \in Module : Done(m)' <=> Done(m)
  BY DEF Done
<1> QED BY <1>1, <1>4, <1>5, <1>6, <1>7, <1>8, <1>9, <1>12, <1>13, LinkStepInv

LEMMA NextItem ==
  ASSUME NEW x \in ItemSet, NEW e, e = [x EXCEPT !.node = @ + 1]
  PROVE  /\ e \in ItemSet /\ e.module = x.module /\ e.parent = x.parent
         /\ e.dfs = x.dfs /\ e.node = x.node + 1
<1>1. x.node + 1 \in Nat
  BY DEF ItemSet
<1> QED BY <1>1 DEF ItemSet

\* The link goes to the next node of the current item.
LEMMA NextNodeFrame ==
  ASSUME NEW f \in LinkFrame, f.current \in 1 .. Len(f.items),
         NEW g, g = [f EXCEPT !.items[f.current].node = @ + 1]
  PROVE  /\ g \in LinkFrame /\ Len(g.items) = Len(f.items)
         /\ g.at = f.at /\ g.current = f.current /\ g.index = f.index
         /\ \A k \in 1 .. Len(f.items) :
              /\ g.items[k].module = f.items[k].module
              /\ g.items[k].parent = f.items[k].parent
              /\ g.items[k].dfs = f.items[k].dfs
              /\ k # f.current => g.items[k].node = f.items[k].node
              /\ k = f.current => g.items[k].node = f.items[k].node + 1
<1>1. PICK c \in Nat : c = f.current /\ c \in 1 .. Len(f.items)
  BY ItemsType
<1>2. PICK s \in Seq(ItemSet) : s = f.items
  BY ItemsType
<1>3. PICK x \in ItemSet : x = s[c]
  BY <1>1, <1>2, ItemsType
<1>4. PICK e : e = [x EXCEPT !.node = @ + 1]
  OBVIOUS
<1>5. /\ e \in ItemSet /\ e.module = x.module /\ e.parent = x.parent
      /\ e.dfs = x.dfs /\ e.node = x.node + 1
  BY <1>4, NextItem
<1>6. g = [f EXCEPT !.items = [s EXCEPT ![c] = e]]
  BY <1>1, <1>2, <1>3, <1>4 DEF LinkFrame
<1>7. /\ [s EXCEPT ![c] = e] \in Seq(ItemSet)
      /\ Len([s EXCEPT ![c] = e]) = Len(s)
      /\ \A k \in 1 .. Len(s) : [s EXCEPT ![c] = e][k] = IF k = c THEN e ELSE s[k]
  <2> HIDE DEF ItemSet
  <2>1. c \in 1 .. Len(s)
    BY <1>1, <1>2
  <2> QED BY <1>5, <2>1, ExceptSeq
<1>8. PICK u \in Seq(ItemSet) : u = [s EXCEPT ![c] = e]
  BY <1>7
<1>9. /\ g \in LinkFrame /\ g.items = u /\ g.at = f.at /\ g.current = f.current
      /\ g.index = f.index
  BY <1>6, <1>8 DEF LinkFrame
<1>10. Len(u) = Len(s) /\ \A k \in 1 .. Len(s) : u[k] = IF k = c THEN e ELSE s[k]
  BY <1>7, <1>8
<1>11. \A k \in 1 .. Len(s) : /\ k # c => u[k] = s[k]
                              /\ k = c => u[k] = e
  BY <1>10
<1> HIDE DEF LinkFrame, ItemSet
<1> QED BY <1>1, <1>2, <1>3, <1>5, <1>9, <1>10, <1>11

LEMMA LowerFacts ==
  ASSUME NEW a \in Nat, NEW b \in Nat
  PROVE  Lower(a, b) \in Nat /\ Lower(a, b) <= a /\ Lower(a, b) <= b
  BY DEF Lower

\* The node of an import that is not unlinked is passed over.
LEMMA VisitOtherStep ==
  ASSUME Inv, VisitOther
  PROVE  Inv'
<1>0. /\ calls # <<>> /\ Top.op = "link" /\ Top.at = "visit"
      /\ calls' = Append(Below, NextNode) /\ phase' = phase /\ ran' = ran /\ state' = state
      /\ imports' = imports /\ resolved' = resolved /\ scope' = scope
      /\ NodesLeft /\ state[Target] # "unlinked"
      /\ state[Target] = "linking" =>
           ancestor' = [ancestor EXCEPT ![CurrentModule] = Lower(@, ancestor[Target])]
      /\ state[Target] # "linking" => ancestor' = ancestor
  BY DEF VisitOther, In, graphVars
<1>1. PICK f \in LinkFrame :
        /\ f = Top
        /\ StackOK(f) /\ RootOK(f)
        /\ \E A \in SUBSET (1 .. Len(f.items)) : Path(f, A) /\ SearchOK(f, A)
        /\ \A m \in Module : state[m] = "linking" =>
             \E k \in 1 .. Len(f.items) : f.items[k].module = m
  BY <1>0, TopLink
<1>2. PICK A \in SUBSET (1 .. Len(f.items)) : Path(f, A) /\ SearchOK(f, A)
  BY <1>1
<1>3. PICK g : g = [f EXCEPT !.items[f.current].node = @ + 1]
  OBVIOUS
<1>4. f.at = "visit" /\ f.current \in 1 .. Len(f.items)
  BY <1>0, <1>1 DEF StackOK, ItemsOK
<1>5. /\ g \in LinkFrame /\ Len(g.items) = Len(f.items)
      /\ g.at = f.at /\ g.current = f.current /\ g.index = f.index
      /\ \A k \in 1 .. Len(f.items) :
           /\ g.items[k].module = f.items[k].module
           /\ g.items[k].parent = f.items[k].parent
           /\ g.items[k].dfs = f.items[k].dfs
           /\ k # f.current => g.items[k].node = f.items[k].node
           /\ k = f.current => g.items[k].node = f.items[k].node + 1
  BY <1>3, <1>4, NextNodeFrame
<1>6. calls' = Append(Below, g)
  BY <1>0, <1>1, <1>3 DEF NextNode
<1>7. \A k \in 1 .. Len(f.items) : /\ f.items[k].module \in Module /\ f.items[k].dfs \in Nat
                                   /\ f.items[k].node \in Nat /\ f.items[k].parent \in Nat
  BY ItemsType
<1>8. PICK m \in Module : m = f.items[f.current].module
  BY <1>4, <1>7
<1>9. PICK d \in 1 .. Len(imports[m]) : d = f.items[f.current].node
  <2>1. Len(imports[m]) \in Nat
    BY ImportsType DEF Inv
  <2>2. f.items[f.current].node >= 1 /\ f.items[f.current].node \in Nat
    BY <1>1, <1>4, <1>7 DEF StackOK, ItemsOK
  <2>3. f.items[f.current].node <= Len(imports[m])
    BY <1>0, <1>1, <1>8 DEF NodesLeft, Current, CurrentModule
  <2> QED BY <2>1, <2>2, <2>3
<1>10. PICK t \in Module : t = Target /\ t = imports[m][d]
  BY <1>1, <1>8, <1>9, ImportsType DEF Target, Current, CurrentModule, Inv
<1>11. state[t] # "unlinked" /\ CurrentModule = m
  BY <1>0, <1>1, <1>8, <1>10 DEF CurrentModule, Current
<1>12. /\ ancestor \in [Module -> Nat] /\ ancestor' \in [Module -> Nat]
       /\ \A x \in Module : x # m => ancestor'[x] = ancestor[x]
       /\ ancestor'[m] <= ancestor[m]
       /\ state[t] = "linking" => ancestor'[m] <= ancestor[t]
  <2>1. ancestor \in [Module -> Nat]
    BY DEF Inv, TypeOK
  <2>2. PICK l \in Nat : l = Lower(ancestor[m], ancestor[t]) /\ l <= ancestor[m] /\ l <= ancestor[t]
    BY <2>1, LowerFacts
  <2>3. CASE state[t] = "linking"
    <3>1. ancestor' = [ancestor EXCEPT ![m] = l]
      BY <1>0, <1>10, <1>11, <2>2, <2>3
    <3> QED BY <2>1, <2>2, <3>1
  <2>4. CASE state[t] # "linking"
    <3>1. ancestor' = ancestor
      BY <1>0, <1>10, <2>4
    <3> QED BY <2>1, <2>4, <3>1
  <2> QED BY <2>3, <2>4
<1>13. \A x \in Module : ancestor'[x] <= ancestor[x] /\ ancestor[x] \in Nat /\ ancestor'[x] \in Nat
  BY <1>12
<1>14. \A j, k \in 1 .. Len(f.items) : f.items[j].module = f.items[k].module => j = k
  BY <1>1, ItemsType DEF StackOK, OrderOK
<1>15. StackOK(g)'
  <2>1. ItemsOK(g)'
    <3>0. \A k \in 1 .. Len(f.items) : f.items[k].node >= 1
      BY <1>1 DEF StackOK, ItemsOK
    <3>1. ASSUME NEW k \in 1 .. Len(f.items) PROVE g.items[k].node >= 1
      BY <1>5, <1>7, <3>0, SMTT(40)
    <3>2. \A k \in 1 .. Len(f.items) : f.items[k].parent < k /\ (f.items[k].parent = 0 <=> k = 1)
      BY <1>1 DEF StackOK, ItemsOK
    <3>3. \A k \in 1 .. Len(f.items) : f.items[k].dfs <= f.index
      BY <1>1 DEF StackOK, ItemsOK
    <3>4. f.items[1].dfs = 0 /\ 1 \in 1 .. Len(f.items)
      BY <1>1, ItemsType DEF StackOK, ItemsOK
    <3> QED BY <1>4, <1>5, <3>1, <3>2, <3>3, <3>4 DEF ItemsOK
  <2>2. OrderOK(g)' /\ ItemStates(g)'
    BY <1>0, <1>1, <1>5 DEF StackOK, OrderOK, ItemStates
  <2> QED BY <2>1, <2>2 DEF StackOK
<1>16. RootOK(g)'
  BY <1>4, <1>5 DEF RootOK
<1>17. Path(g, A)
  BY <1>2, <1>5 DEF Path
<1>18. f.current \in A
  BY <1>2 DEF Path
<1>19. SearchOK(g, A)'
  <2>1. AncestorLow(g)'
    <3>1. \A k \in 1 .. Len(f.items) : ancestor[f.items[k].module] <= f.items[k].dfs
      BY <1>2 DEF SearchOK, AncestorLow
    <3>2. \A k \in 1 .. Len(f.items) : ancestor'[f.items[k].module] <= f.items[k].dfs
      BY <1>7, <1>13, <3>1
    <3> QED BY <1>5, <3>2 DEF AncestorLow
  <2>2. ResolvedOK(g)'
    BY <1>0, <1>2, <1>5 DEF SearchOK, ResolvedOK, Unresolved
  <2>3. OffPathDone(g, A)'
    BY <1>0, <1>2, <1>5, <1>7, <1>18 DEF SearchOK, OffPathDone
  <2>4. OffPathLow(g, A)'
    <3> SUFFICES ASSUME NEW k \in 1 .. Len(f.items), k \notin A, NEW a \in A, a < k,
                        \A b \in A : b < k => b <= a
                 PROVE  ancestor'[f.items[a].module] <= ancestor'[f.items[k].module]
      BY <1>5 DEF OffPathLow
    <3>1. ancestor[f.items[a].module] <= ancestor[f.items[k].module]
      BY <1>2 DEF SearchOK, OffPathLow
    <3>2. f.items[a].module \in Module /\ f.items[k].module \in Module /\ f.items[k].module # m
      BY <1>7, <1>4, <1>8, <1>14, <1>18
    <3> QED BY <1>12, <1>13, <3>1, <3>2
  <2>5. SeenOK(g)'
    <3>1. ASSUME NEW k \in 1 .. Len(f.items), NEW i \in 1 .. Len(imports[f.items[k].module]),
                 i < g.items[k].node
          PROVE  /\ state[imports[f.items[k].module][i]] # "unlinked"
                 /\ \A j \in 1 .. Len(f.items) :
                      f.items[j].module = imports[f.items[k].module][i] =>
                        ancestor'[f.items[k].module] <= f.items[j].dfs
      <4>1. CASE i < f.items[k].node
        <5>1. /\ state[imports[f.items[k].module][i]] # "unlinked"
              /\ \A j \in 1 .. Len(f.items) :
                   f.items[j].module = imports[f.items[k].module][i] =>
                     ancestor[f.items[k].module] <= f.items[j].dfs
          BY <1>2, <4>1 DEF SearchOK, SeenOK
        <5> QED BY <1>7, <1>13, <5>1
      <4>2. CASE ~(i < f.items[k].node)
        <5>1. Len(imports[m]) \in Nat /\ Len(imports[f.items[k].module]) \in Nat
          BY <1>7, ImportsType DEF Inv
        <5>2. k = f.current
          BY <1>5, <3>1, <4>2
        <5>3. i = d /\ f.items[k].module = m
          BY <1>5, <1>7, <1>8, <1>9, <3>1, <4>2, <5>1, <5>2
        <5>4. ASSUME NEW j \in 1 .. Len(f.items), f.items[j].module = t
              PROVE  ancestor'[m] <= f.items[j].dfs
          <6>1. state[t] = "linking"
            BY <1>1, <1>4, <5>4 DEF StackOK, ItemStates
          <6>2. ancestor[t] <= f.items[j].dfs
            BY <1>2, <5>4 DEF SearchOK, AncestorLow
          <6> QED BY <1>7, <1>12, <1>13, <6>1, <6>2
        <5> QED BY <1>10, <1>11, <5>3, <5>4
      <4> QED BY <4>1, <4>2
    <3> SUFFICES ASSUME NEW k \in 1 .. Len(g.items),
                        NEW i \in 1 .. Len(imports'[g.items[k].module]), i < g.items[k].node
                 PROVE  /\ state'[imports'[g.items[k].module][i]] # "unlinked"
                        /\ \A j \in 1 .. Len(g.items) :
                             g.items[j].module = imports'[g.items[k].module][i] =>
                               ancestor'[g.items[k].module] <= g.items[j].dfs
      BY DEF SeenOK
    <3>2. PICK x : x = g.items[k].module /\ x = f.items[k].module /\ k \in 1 .. Len(f.items)
      BY <1>5
    <3>3. /\ state[imports[x][i]] # "unlinked"
          /\ \A j \in 1 .. Len(f.items) : f.items[j].module = imports[x][i] =>
               ancestor'[x] <= f.items[j].dfs
      BY <1>0, <3>1, <3>2
    <3> QED BY <1>0, <1>5, <3>2, <3>3
  <2> QED BY <2>1, <2>2, <2>3, <2>4, <2>5 DEF SearchOK
<1>20. LinkKeeps
  BY <1>0, <1>12 DEF LinkKeeps, Inv, TypeOK
<1>21. \A x \in Module : Done(x)' <=> Done(x)
  BY <1>0 DEF Done
<1>22. \A x \in Module : state'[x] = "linking" => \E k \in 1 .. Len(g.items) : g.items[k].module = x
  BY <1>0, <1>1, <1>5
<1>23. A \in SUBSET (1 .. Len(g.items))
  BY <1>5
<1> QED BY <1>0, <1>1, <1>4, <1>5, <1>6, <1>15, <1>16, <1>17, <1>19, <1>20, <1>21, <1>22,
           <1>23, LinkStepInv

\* The frame with an item more.
Pushed(h, e, n) ==
  [h EXCEPT !.items = Append(@, e), !.current = n + 1, !.index = @ + 1, !.at = "resolve"]

\* g has the items of h and, after them, e, which is the current one.
PushResult(h, e, n, g) ==
  /\ g \in LinkFrame /\ Len(g.items) = n + 1
  /\ g.current = n + 1 /\ g.index = h.index + 1 /\ g.at = "resolve"
  /\ \A k \in 1 .. n : g.items[k] = h.items[k]
  /\ g.items[n + 1] = e

LEMMA PushFrame ==
  ASSUME NEW h \in LinkFrame, NEW e \in ItemSet, NEW n \in Nat, n = Len(h.items),
         NEW g, g = Pushed(h, e, n)
  PROVE  PushResult(h, e, n, g)
<1>1. PICK s \in Seq(ItemSet) : s = h.items /\ h.index \in Nat
  BY ItemsType
<1>2. /\ Append(s, e) \in Seq(ItemSet) /\ Len(Append(s, e)) = n + 1
      /\ \A k \in 1 .. n : Append(s, e)[k] = s[k]
      /\ Append(s, e)[n + 1] = e
  <2> HIDE DEF ItemSet
  <2> QED BY <1>1, AppendFacts
<1>3. PICK u \in Seq(ItemSet) : u = Append(s, e)
  BY <1>2
<1>4. /\ g \in LinkFrame /\ g.items = u /\ g.current = n + 1
      /\ g.index = h.index + 1 /\ g.at = "resolve"
  <2> HIDE DEF ItemSet
  <2>1. n + 1 \in Nat /\ h.index + 1 \in Nat
    BY <1>1
  <2>2. PICK a : a = [h EXCEPT !.items = u]
    OBVIOUS
  <2>3. a \in LinkFrame /\ a.items = u /\ a.index = h.index
    BY <2>2 DEF LinkFrame
  <2>4. PICK b : b = [a EXCEPT !.current = n + 1]
    OBVIOUS
  <2>5. b \in LinkFrame /\ b.items = u /\ b.index = h.index /\ b.current = n + 1
    BY <2>1, <2>3, <2>4 DEF LinkFrame
  <2>6. PICK d : d = [b EXCEPT !.index = h.index + 1]
    OBVIOUS
  <2>7. d \in LinkFrame /\ d.items = u /\ d.index = h.index + 1 /\ d.current = n + 1
    BY <2>1, <2>5, <2>6 DEF LinkFrame
  <2>8. g = [d EXCEPT !.at = "resolve"]
    BY <1>1, <1>3, <2>2, <2>4, <2>6 DEF Pushed
  <2> QED BY <2>7, <2>8 DEF LinkFrame
<1> HIDE DEF LinkFrame, ItemSet
<1> QED BY <1>1, <1>2, <1>3, <1>4 DEF PushResult

\* An unlinked import is entered: the path gets its item.
LEMMA VisitUnlinkedStep ==
  ASSUME Inv, VisitUnlinked
  PROVE  Inv'
<1>0. /\ calls # <<>> /\ Top.op = "link" /\ Top.at = "visit"
      /\ phase' = phase /\ ran' = ran
      /\ imports' = imports /\ resolved' = resolved /\ scope' = scope
      /\ NodesLeft /\ state[Target] = "unlinked"
  BY DEF VisitUnlinked, In, graphVars
<1>1. PICK f \in LinkFrame :
        /\ f = Top
        /\ StackOK(f) /\ RootOK(f)
        /\ \E A \in SUBSET (1 .. Len(f.items)) : Path(f, A) /\ SearchOK(f, A)
        /\ \A m \in Module : state[m] = "linking" =>
             \E k \in 1 .. Len(f.items) : f.items[k].module = m
  BY <1>0, TopLink
<1>2. PICK A \in SUBSET (1 .. Len(f.items)) : Path(f, A) /\ SearchOK(f, A)
  BY <1>1
<1>3. PICK n \in Nat : n = Len(f.items)
  BY ItemsType
<1>4. PICK c \in 1 .. n : c = f.current
  BY <1>1, <1>3 DEF StackOK, ItemsOK
<1>5. PICK x \in Nat : x = f.index
  BY ItemsType
<1>6. PICK h : h = [f EXCEPT !.items[f.current].node = @ + 1]
  OBVIOUS
<1>7. /\ h \in LinkFrame /\ Len(h.items) = n /\ h.index = x
      /\ \A k \in 1 .. n :
           /\ h.items[k].module = f.items[k].module
           /\ h.items[k].parent = f.items[k].parent
           /\ h.items[k].dfs = f.items[k].dfs
           /\ k # c => h.items[k].node = f.items[k].node
           /\ k = c => h.items[k].node = f.items[k].node + 1
  BY <1>3, <1>4, <1>5, <1>6, NextNodeFrame
<1>8. \A k \in 1 .. n : /\ f.items[k].module \in Module /\ f.items[k].dfs \in Nat
                        /\ f.items[k].node \in Nat /\ f.items[k].parent \in Nat
  BY <1>3, ItemsType
<1>9. PICK m \in Module : m = f.items[c].module
  BY <1>8
<1>10. PICK d \in 1 .. Len(imports[m]) : d = f.items[c].node
  <2>1. Len(imports[m]) \in Nat
    BY ImportsType DEF Inv
  <2>2. f.items[c].node >= 1 /\ f.items[c].node \in Nat
    BY <1>1, <1>3, <1>8 DEF StackOK, ItemsOK
  <2>3. f.items[c].node <= Len(imports[m])
    BY <1>0, <1>1, <1>4, <1>9 DEF NodesLeft, Current, CurrentModule
  <2> QED BY <2>1, <2>2, <2>3
<1>11. PICK t \in Module : t = Target /\ t = imports[m][d]
  BY <1>1, <1>4, <1>9, <1>10, ImportsType DEF Target, Current, CurrentModule, Inv
<1>12. state[t] = "unlinked" /\ f.at = "visit"
  BY <1>0, <1>1, <1>11
<1>13. PICK e : e = Item(t, c, x + 1)
  OBVIOUS
<1>14. /\ e \in ItemSet /\ e.module = t /\ e.parent = c /\ e.dfs = x + 1 /\ e.node = 1
  BY <1>13 DEF Item, ItemSet
<1>15. PICK g : g = Pushed(h, e, n)
  OBVIOUS
<1>16. calls' = Append(Below, g)
  BY <1>1, <1>3, <1>4, <1>5, <1>6, <1>11, <1>13, <1>15 DEF NextNode, VisitUnlinked, Pushed
<1>17. /\ g \in LinkFrame /\ Len(g.items) = n + 1
       /\ g.current = n + 1 /\ g.index = x + 1 /\ g.at = "resolve"
       /\ \A k \in 1 .. n : g.items[k] = h.items[k]
       /\ g.items[n + 1] = e
  <2>1. /\ g \in LinkFrame /\ Len(g.items) = n + 1
        /\ g.current = n + 1 /\ g.index = h.index + 1 /\ g.at = "resolve"
        /\ \A k \in 1 .. n : g.items[k] = h.items[k]
        /\ g.items[n + 1] = e
    <3>1. h \in LinkFrame /\ e \in ItemSet /\ n = Len(h.items)
      BY <1>7, <1>14
    <3>2. PushResult(h, e, n, g)
      BY <1>15, <3>1, PushFrame
    <3> QED BY <3>2 DEF PushResult
  <2> QED BY <1>7, <2>1
<1>18. \A k \in 1 .. n + 1 : k \in 1 .. n \/ k = n + 1
  OBVIOUS
<1>19. \A k \in 1 .. n : /\ g.items[k].module = f.items[k].module
                         /\ g.items[k].parent = f.items[k].parent
                         /\ g.items[k].dfs = f.items[k].dfs
                         /\ k # c => g.items[k].node = f.items[k].node
                         /\ k = c => g.items[k].node = f.items[k].node + 1
  BY <1>7, <1>17, SMTT(40)
<1>20. \A k \in 1 .. n : state[f.items[k].module] = "linking" /\ f.items[k].module # t
  BY <1>1, <1>3, <1>12 DEF StackOK, ItemStates
<1>21. /\ state' = [state EXCEPT ![t] = "linking"] /\ state \in [Module -> States]
       /\ ancestor' = [ancestor EXCEPT ![t] = x + 1] /\ ancestor \in [Module -> Nat]
  BY <1>1, <1>5, <1>11 DEF VisitUnlinked, Inv, TypeOK
<1>22. /\ state'[t] = "linking" /\ \A y \in Module : y # t => state'[y] = state[y]
       /\ ancestor'[t] = x + 1 /\ \A y \in Module : y # t => ancestor'[y] = ancestor[y]
  BY <1>21
<1>23. PICK B : B = A \cup {n + 1}
  OBVIOUS
<1>24. A \subseteq 1 .. n /\ c \in A /\ B \in SUBSET (1 .. n + 1)
  <2>1. A \subseteq 1 .. n /\ c \in A
    BY <1>2, <1>3, <1>4 DEF Path
  <2> QED BY <1>23, <2>1
<1>25. \A k \in 1 .. n : k \notin B => k \notin A /\ k # c
  BY <1>23, <1>24
<1>26. StackOK(g)'
  <2>1. ItemsOK(g)'
    <3>1. \A k \in 1 .. n : /\ f.items[k].parent < k
                            /\ f.items[k].parent = 0 <=> k = 1
                            /\ f.items[k].node >= 1
                            /\ f.items[k].dfs <= x
      BY <1>1, <1>3, <1>5 DEF StackOK, ItemsOK
    <3>2. ASSUME NEW k \in 1 .. n
          PROVE  /\ g.items[k].parent < k
                 /\ g.items[k].parent = 0 <=> k = 1
                 /\ g.items[k].node >= 1
                 /\ g.items[k].dfs <= x + 1
      <4>1. /\ g.items[k].parent < k
            /\ g.items[k].parent = 0 <=> k = 1
            /\ g.items[k].dfs <= x + 1
        BY <1>8, <1>19, <3>1
      <4>2. CASE k = c
        <5>1. g.items[k].node = f.items[k].node + 1 /\ f.items[k].node >= 1 /\ f.items[k].node \in Nat
          BY <1>8, <1>19, <3>1, <4>2
        <5> QED BY <4>1, <5>1
      <4>3. CASE k # c
        BY <1>19, <3>1, <4>1, <4>3
      <4> QED BY <4>2, <4>3
    <3>3. /\ g.items[n + 1].parent < n + 1
          /\ g.items[n + 1].parent = 0 <=> n + 1 = 1
          /\ g.items[n + 1].node >= 1
          /\ g.items[n + 1].dfs <= x + 1
      BY <1>14, <1>17
    <3>4. \A k \in 1 .. n + 1 : /\ g.items[k].parent < k
                                /\ g.items[k].parent = 0 <=> k = 1
                                /\ g.items[k].node >= 1
                                /\ g.items[k].dfs <= x + 1
      BY <1>18, <3>2, <3>3
    <3>5. g.current \in 1 .. n + 1
      BY <1>17
    <3>6. g.items[1].dfs = 0
      <4>1. f.items[1].dfs = 0 /\ 1 \in 1 .. n
        BY <1>1 DEF StackOK, ItemsOK
      <4> QED BY <1>19, <4>1
    <3> QED BY <1>17, <3>4, <3>5, <3>6 DEF ItemsOK
  <2>2. OrderOK(g)'
    <3>1. \A j, k \in 1 .. n : j < k =>
            f.items[j].dfs < f.items[k].dfs /\ f.items[j].module # f.items[k].module
      BY <1>1, <1>3 DEF StackOK, OrderOK
    <3>2. \A j \in 1 .. n : f.items[j].dfs < x + 1
      BY <1>1, <1>3, <1>5, <1>8 DEF StackOK, ItemsOK
    <3> SUFFICES ASSUME NEW j \in 1 .. n + 1, NEW k \in 1 .. n + 1, j < k
                 PROVE  g.items[j].dfs < g.items[k].dfs /\ g.items[j].module # g.items[k].module
      BY <1>17 DEF OrderOK
    <3>3. CASE k \in 1 .. n
      BY <1>19, <3>1, <3>3
    <3>4. CASE k = n + 1
      <4>1. j \in 1 .. n
        BY <3>4
      <4> QED BY <1>14, <1>17, <1>19, <1>20, <3>2, <3>4, <4>1
    <3> QED BY <1>18, <3>3, <3>4
  <2>3. ItemStates(g)'
    <3>1. ASSUME NEW k \in 1 .. n + 1 PROVE state'[g.items[k].module] = "linking"
      <4>1. CASE k \in 1 .. n
        BY <1>8, <1>19, <1>20, <1>22, <4>1
      <4>2. CASE k = n + 1
        BY <1>14, <1>17, <1>22, <4>2
      <4> QED BY <1>18, <4>1, <4>2
    <3> QED BY <1>17, <3>1 DEF ItemStates
  <2> QED BY <2>1, <2>2, <2>3 DEF StackOK
<1>27. RootOK(g)'
  BY <1>17 DEF RootOK
<1>28. Path(g, B)
  <2>1. /\ \A a \in A : a \in 1 .. n /\ a <= c /\ (a # 1 => f.items[a].parent \in A)
        /\ \A a \in A : a # 1 => \A b \in A : b < a => b <= f.items[a].parent
    BY <1>2, <1>4, <1>24 DEF Path
  <2>2. ASSUME NEW a \in B
        PROVE  a <= n + 1 /\ (a # 1 => /\ g.items[a].parent \in B
                                       /\ \A b \in B : b < a => b <= g.items[a].parent)
    <3>1. CASE a \in A
      <4>1. a \in 1 .. n /\ g.items[a].parent = f.items[a].parent
        BY <1>19, <2>1, <3>1
      <4>2. \A b \in B : b < a => b \in A
        BY <1>23, <4>1
      <4> QED BY <1>23, <2>1, <3>1, <4>1, <4>2
    <3>2. CASE a = n + 1
      <4>1. g.items[a].parent = c
        BY <1>14, <1>17, <3>2
      <4>2. \A b \in B : b < a => b \in A
        BY <1>23, <3>2
      <4> QED BY <1>23, <1>24, <2>1, <3>2, <4>1, <4>2
    <3> QED BY <1>23, <3>1, <3>2
  <2> QED BY <1>17, <1>23, <1>24, <2>2 DEF Path
<1>29. SearchOK(g, B)'
  <2>1. AncestorLow(g)'
    <3>1. \A k \in 1 .. n : ancestor[f.items[k].module] <= f.items[k].dfs
      BY <1>2, <1>3 DEF SearchOK, AncestorLow
    <3>2. \A k \in 1 .. n : ancestor'[g.items[k].module] <= g.items[k].dfs
      BY <1>8, <1>19, <1>20, <1>22, <3>1, ZenonT(40)
    <3>3. ancestor'[g.items[n + 1].module] <= g.items[n + 1].dfs
      BY <1>14, <1>17, <1>22
    <3> QED BY <1>17, <1>18, <3>2, <3>3 DEF AncestorLow
  <2>2. ResolvedOK(g)'
    <3>1. \A k \in 1 .. n : Unresolved(f.items[k].module) = {}
      BY <1>2, <1>3, <1>12 DEF SearchOK, ResolvedOK
    <3>2. \A k \in 1 .. n : DOMAIN imports'[g.items[k].module] \ resolved'[g.items[k].module] = {}
      BY <1>0, <1>19, <3>1 DEF Unresolved
    <3> QED BY <1>17, <1>18, <3>2 DEF ResolvedOK, Unresolved
  <2>3. OffPathDone(g, B)'
    <3>1. \A k \in 1 .. n : k \notin A =>
            scope[f.items[k].module] /\ f.items[k].node > Len(imports[f.items[k].module])
      BY <1>2, <1>3 DEF SearchOK, OffPathDone
    <3>2. ASSUME NEW k \in 1 .. n + 1, k \notin B
          PROVE  scope'[g.items[k].module] /\ g.items[k].node > Len(imports'[g.items[k].module])
      <4>1. k \in 1 .. n /\ k \notin A /\ k # c
        BY <1>18, <1>23, <1>25, <3>2
      <4> QED BY <1>0, <1>19, <3>1, <4>1
    <3> QED BY <1>17, <3>2 DEF OffPathDone
  <2>4. OffPathLow(g, B)'
    <3> SUFFICES ASSUME NEW k \in 1 .. n + 1, k \notin B, NEW a \in B, a < k,
                        \A b \in B : b < k => b <= a
                 PROVE  ancestor'[g.items[a].module] <= ancestor'[g.items[k].module]
      BY <1>17 DEF OffPathLow
    <3>1. k \in 1 .. n /\ k \notin A /\ a \in A /\ a \in 1 .. n
      BY <1>18, <1>23, <1>24
    <3>2. ancestor[f.items[a].module] <= ancestor[f.items[k].module]
      BY <1>2, <1>3, <1>23, <3>1 DEF SearchOK, OffPathLow
    <3> QED BY <1>8, <1>19, <1>20, <1>22, <3>1, <3>2
  <2>5. SeenOK(g)'
    <3> SUFFICES ASSUME NEW k \in 1 .. n + 1,
                        NEW i \in 1 .. Len(imports'[g.items[k].module]), i < g.items[k].node
                 PROVE  /\ state'[imports'[g.items[k].module][i]] # "unlinked"
                        /\ \A j \in 1 .. n + 1 :
                             g.items[j].module = imports'[g.items[k].module][i] =>
                               ancestor'[g.items[k].module] <= g.items[j].dfs
      BY <1>17 DEF SeenOK
    <3>1. k \in 1 .. n
      <4>1. CASE k = n + 1
        BY <1>14, <1>17, <4>1
      <4> QED BY <1>18, <4>1
    <3>2. PICK y \in Module : y = g.items[k].module /\ y = f.items[k].module
      BY <1>8, <1>19, <3>1
    <3>3. y # t /\ ancestor'[y] = ancestor[y] /\ imports' = imports /\ i \in 1 .. Len(imports[y])
      BY <1>0, <1>20, <1>22, <3>1, <3>2
    <3>4. PICK z \in Module : z = imports[y][i]
      BY <3>3, ImportsType DEF Inv
    <3>5. CASE i < f.items[k].node
      <4>1. /\ state[z] # "unlinked"
            /\ \A j \in 1 .. n : f.items[j].module = z => ancestor[y] <= f.items[j].dfs
        BY <1>2, <1>3, <3>1, <3>2, <3>3, <3>4, <3>5 DEF SearchOK, SeenOK
      <4>2. z # t /\ state'[z] # "unlinked"
        BY <1>12, <1>22, <4>1
      <4>3. ASSUME NEW j \in 1 .. n + 1, g.items[j].module = z PROVE ancestor[y] <= g.items[j].dfs
        <5>1. j \in 1 .. n
          <6>1. CASE j = n + 1
            BY <1>14, <1>17, <4>2, <4>3, <6>1
          <6> QED BY <1>18, <6>1
        <5> QED BY <1>19, <4>1, <4>3, <5>1
      <4> QED BY <3>2, <3>3, <3>4, <4>2, <4>3
    <3>6. CASE ~(i < f.items[k].node)
      <4>1. k = c
        BY <1>19, <3>1, <3>6
      <4>2. i = d /\ y = m /\ z = t
        <5>1. g.items[k].node = d + 1 /\ f.items[k].node = d
          BY <1>10, <1>19, <3>1, <4>1
        <5>2. i = d
          <6>1. Len(imports[m]) \in Nat /\ Len(imports[y]) \in Nat
            BY ImportsType DEF Inv
          <6> QED BY <3>3, <3>6, <5>1, <6>1
        <5> QED BY <1>9, <1>11, <3>2, <3>4, <4>1, <5>2
      <4>3. ancestor[y] <= x
        <5>1. ancestor[y] <= f.items[c].dfs /\ f.items[c].dfs <= x
          BY <1>1, <1>2, <1>3, <1>5, <1>9, <4>2 DEF SearchOK, AncestorLow, StackOK, ItemsOK
        <5> QED BY <1>5, <1>8, <1>21, <5>1
      <4>4. ASSUME NEW j \in 1 .. n + 1, g.items[j].module = z PROVE ancestor[y] <= g.items[j].dfs
        <5>1. j = n + 1
          BY <1>18, <1>19, <1>20, <4>2, <4>4
        <5> QED BY <1>14, <1>17, <1>21, <4>3, <5>1, SMTT(40)
      <4> QED BY <1>22, <3>2, <3>3, <3>4, <4>2, <4>4
    <3> QED BY <3>5, <3>6
  <2> QED BY <2>1, <2>2, <2>3, <2>4, <2>5 DEF SearchOK
<1>30. LinkKeeps
  <2>1. state' \in [Module -> States] /\ ancestor' \in [Module -> Nat]
    BY <1>21 DEF States
  <2>2. \A y \in Module : state'[y] = state[y] \/ (state[y] \in Early /\ state'[y] \in Early)
    BY <1>12, <1>22 DEF Early
  <2> QED BY <1>0, <2>1, <2>2 DEF LinkKeeps, Inv, TypeOK
<1>31. \A y \in Module : Done(y)' <=> Done(y)
  BY <1>12, <1>22 DEF Done
<1>32. \A y \in Module : state'[y] = "linking" =>
         \E k \in 1 .. Len(g.items) : g.items[k].module = y
  <2> SUFFICES ASSUME NEW y \in Module, state'[y] = "linking"
               PROVE  \E k \in 1 .. n + 1 : g.items[k].module = y
    BY <1>17
  <2>1. CASE y = t
    <3>1. n + 1 \in 1 .. n + 1
      OBVIOUS
    <3> QED BY <1>14, <1>17, <2>1, <3>1
  <2>2. CASE y # t
    <3>1. PICK k \in 1 .. n : f.items[k].module = y
      BY <1>1, <1>3, <1>22, <2>2
    <3>2. k \in 1 .. n + 1 /\ g.items[k].module = y
      BY <1>19, <3>1
    <3> QED BY <3>2
  <2> QED BY <2>1, <2>2
<1>33. B \in SUBSET (1 .. Len(g.items)) /\ f.at # "linked"
  BY <1>12, <1>17, <1>24
<1> QED BY <1>0, <1>1, <1>16, <1>17, <1>26, <1>27, <1>28, <1>29, <1>30, <1>31, <1>32, <1>33,
           LinkStepInv

\* The search goes back: the path loses its last item.
LEMMA BackToParentStep ==
  ASSUME Inv, BackToParent
  PROVE  Inv'
<1>0. /\ calls # <<>> /\ Top.op = "link" /\ Top.at = "visit"
      /\ phase' = phase /\ ran' = ran /\ state' = state
      /\ imports' = imports /\ resolved' = resolved
      /\ ~NodesLeft /\ ancestor[CurrentModule] # Current.dfs
      /\ scope' = [scope EXCEPT ![CurrentModule] = TRUE]
  BY DEF BackToParent, In
<1>1. PICK f \in LinkFrame :
        /\ f = Top
        /\ StackOK(f) /\ RootOK(f)
        /\ \E A \in SUBSET (1 .. Len(f.items)) : Path(f, A) /\ SearchOK(f, A)
        /\ \A m \in Module : state[m] = "linking" =>
             \E k \in 1 .. Len(f.items) : f.items[k].module = m
  BY <1>0, TopLink
<1>2. PICK A \in SUBSET (1 .. Len(f.items)) : Path(f, A) /\ SearchOK(f, A)
  BY <1>1
<1>3. PICK n \in Nat : n = Len(f.items)
  BY ItemsType
<1>4. PICK c \in 1 .. n : c = f.current
  BY <1>1, <1>3 DEF StackOK, ItemsOK
<1>5. \A k \in 1 .. n : /\ f.items[k].module \in Module /\ f.items[k].dfs \in Nat
                        /\ f.items[k].node \in Nat /\ f.items[k].parent \in Nat
  BY <1>3, ItemsType
<1>6. PICK m \in Module : m = f.items[c].module
  BY <1>5
<1>7. CurrentModule = m /\ Current = f.items[c] /\ f.at = "visit"
  BY <1>0, <1>1, <1>4, <1>6 DEF CurrentModule, Current
<1>8. \A k \in 1 .. n : ancestor[f.items[k].module] <= f.items[k].dfs
  BY <1>2, <1>3 DEF SearchOK, AncestorLow
<1>9. ancestor \in [Module -> Nat] /\ scope \in [Module -> BOOLEAN] /\ state \in [Module -> States]
  BY DEF Inv, TypeOK
<1>10. c # 1
  <2> SUFFICES ASSUME c = 1 PROVE FALSE
    OBVIOUS
  <2>1. f.items[c].dfs = 0 /\ ancestor[m] <= f.items[c].dfs
    BY <1>1, <1>6, <1>8 DEF StackOK, ItemsOK
  <2> QED BY <1>0, <1>7, <1>9, <2>1
<1>11. PICK p \in 1 .. n : p = f.items[c].parent /\ p < c
  <2>1. f.items[c].parent < c /\ f.items[c].parent # 0
    BY <1>1, <1>3, <1>10 DEF StackOK, ItemsOK
  <2> QED BY <1>5, <2>1
<1>12. PICK g : g = [f EXCEPT !.current = p]
  OBVIOUS
<1>13. /\ g \in LinkFrame /\ g.items = f.items /\ g.current = p /\ g.index = f.index
       /\ g.at = "visit"
  BY <1>7, <1>12 DEF LinkFrame
<1>14. calls' = Append(Below, g)
  BY <1>1, <1>7, <1>11, <1>12 DEF BackToParent
<1>15. PICK q \in Module : q = f.items[p].module
  BY <1>5
<1>16. PICK l \in Nat : l = Lower(ancestor[q], ancestor[m]) /\ l <= ancestor[q] /\ l <= ancestor[m]
  BY <1>9, LowerFacts
<1>17. ancestor' = [ancestor EXCEPT ![q] = l]
  BY <1>1, <1>7, <1>11, <1>15, <1>16 DEF BackToParent
<1>18. /\ ancestor' \in [Module -> Nat]
       /\ \A x \in Module : ancestor'[x] <= ancestor[x] /\ ancestor[x] \in Nat /\ ancestor'[x] \in Nat
       /\ \A x \in Module : x # q => ancestor'[x] = ancestor[x]
       /\ ancestor'[q] <= ancestor[m]
  BY <1>9, <1>16, <1>17
<1>19. \A j, k \in 1 .. n : f.items[j].module = f.items[k].module => j = k
  BY <1>1, <1>3 DEF StackOK, OrderOK
<1>20. /\ \A a \in A : a \in 1 .. n /\ a <= c /\ (a # 1 => f.items[a].parent \in A)
       /\ \A a \in A : a # 1 => \A b \in A : b < a => b <= f.items[a].parent
       /\ c \in A
  BY <1>2, <1>3, <1>4 DEF Path
<1>21. p \in A /\ \A b \in A : b < c => b <= p
  BY <1>10, <1>11, <1>20
<1>22. PICK B : B = A \ {c}
  OBVIOUS
<1>23. B \in SUBSET (1 .. Len(g.items)) /\ p \in B /\ \A b \in B : b \in 1 .. n /\ b <= p
  <2>1. \A b \in B : b \in A /\ b # c
    BY <1>22
  <2>2. ASSUME NEW b \in B PROVE b \in 1 .. n /\ b <= p
    <3>1. b \in A /\ b # c /\ b \in 1 .. n /\ b <= c
      BY <1>20, <2>1
    <3>2. b < c
      BY <3>1
    <3> QED BY <1>21, <3>1, <3>2
  <2>3. p \in B
    BY <1>11, <1>21, <1>22
  <2> QED BY <1>3, <1>13, <2>2, <2>3
<1>24. StackOK(g)'
  BY <1>0, <1>1, <1>3, <1>7, <1>13 DEF StackOK, ItemsOK, OrderOK, ItemStates
<1>25. RootOK(g)'
  BY <1>13 DEF RootOK
<1>26. Path(g, B)
  <2>1. ASSUME NEW a \in B, a # 1
        PROVE  f.items[a].parent \in B /\ \A b \in B : b < a => b <= f.items[a].parent
    <3>1. a \in A /\ a <= p
      BY <1>22, <1>23
    <3>2. f.items[a].parent < a /\ a \in 1 .. n /\ f.items[a].parent \in Nat
      BY <1>1, <1>3, <1>5, <1>20, <3>1 DEF StackOK, ItemsOK
    <3>3. f.items[a].parent \in A /\ f.items[a].parent # c
      BY <1>11, <1>20, <2>1, <3>1, <3>2
    <3> QED BY <1>20, <1>22, <2>1, <3>1, <3>3
  <2> QED BY <1>13, <1>23, <2>1 DEF Path
<1>27. SearchOK(g, B)'
  <2>1. AncestorLow(g)'
    <3>1. \A k \in 1 .. n : ancestor'[f.items[k].module] <= f.items[k].dfs
      BY <1>5, <1>8, <1>18
    <3> QED BY <1>3, <1>13, <3>1 DEF AncestorLow
  <2>2. ResolvedOK(g)'
    BY <1>0, <1>2, <1>7, <1>13 DEF SearchOK, ResolvedOK, Unresolved
  <2>3. OffPathDone(g, B)'
    <3>1. ASSUME NEW k \in 1 .. n, k \notin B
          PROVE  scope'[f.items[k].module] /\ f.items[k].node > Len(imports[f.items[k].module])
      <4>1. CASE k = c
        <5>1. ~(f.items[c].node <= Len(imports[m])) /\ Len(imports[m]) \in Nat
          BY <1>0, <1>7, ImportsType DEF NodesLeft, Inv
        <5>2. f.items[k].node > Len(imports[f.items[k].module])
          BY <1>5, <1>6, <4>1, <5>1
        <5> QED BY <1>0, <1>6, <1>7, <1>9, <4>1, <5>2
      <4>2. CASE k # c
        <5>1. k \notin A
          BY <1>22, <3>1, <4>2
        <5>2. scope[f.items[k].module] /\ f.items[k].node > Len(imports[f.items[k].module])
          BY <1>2, <1>3, <5>1 DEF SearchOK, OffPathDone
        <5>3. f.items[k].module # m /\ f.items[k].module \in Module
          BY <1>5, <1>6, <1>19, <4>2
        <5> QED BY <1>0, <1>7, <1>9, <5>2, <5>3
      <4> QED BY <4>1, <4>2
    <3> QED BY <1>0, <1>3, <1>13, <3>1 DEF OffPathDone
  <2>4. OffPathLow(g, B)'
    <3> SUFFICES ASSUME NEW k \in 1 .. n, k \notin B, NEW a \in B, a < k,
                        \A b \in B : b < k => b <= a
                 PROVE  ancestor'[f.items[a].module] <= ancestor'[f.items[k].module]
      BY <1>3, <1>13 DEF OffPathLow
    <3>1. a \in A /\ a \in 1 .. n /\ a <= p
      BY <1>22, <1>23
    <3>2. k # p /\ f.items[k].module # q /\ f.items[k].module \in Module /\ f.items[a].module \in Module
      BY <1>5, <1>15, <1>19, <1>23, <3>1
    <3>3. ancestor'[f.items[k].module] = ancestor[f.items[k].module]
      BY <1>18, <3>2
    <3>4. CASE k = c
      <4>1. a = p
        BY <1>11, <1>23, <3>1, <3>4
      <4> QED BY <1>6, <1>15, <1>18, <3>3, <3>4, <4>1
    <3>5. CASE k > c
      <4>1. a = p
        BY <1>11, <1>23, <3>1, <3>5
      <4>2. k \notin A
        BY <1>22, <3>5
      <4>3. ancestor[m] <= ancestor[f.items[k].module]
        BY <1>2, <1>3, <1>6, <1>20, <3>5, <4>2 DEF SearchOK, OffPathLow
      <4> QED BY <1>15, <1>18, <3>2, <3>3, <4>1, <4>3
    <3>6. CASE k < c
      <4>1. k \notin A /\ \A b \in A : b < k => b <= a
        <5>1. k \notin A
          BY <1>22, <3>6
        <5>2. ASSUME NEW b \in A, b < k PROVE b <= a
          <6>1. b # c
            BY <1>20, <3>6, <5>2
          <6>2. b \in B
            BY <1>22, <6>1
          <6> QED BY <5>2, <6>2
        <5> QED BY <5>1, <5>2
      <4>2. ancestor[f.items[a].module] <= ancestor[f.items[k].module]
        BY <1>2, <1>3, <3>1, <4>1 DEF SearchOK, OffPathLow
      <4> QED BY <1>18, <3>2, <3>3, <4>2
    <3> QED BY <3>4, <3>5, <3>6
  <2>5. SeenOK(g)'
    <3>1. ASSUME NEW k \in 1 .. n, NEW i \in 1 .. Len(imports[f.items[k].module]),
                 i < f.items[k].node
          PROVE  /\ state[imports[f.items[k].module][i]] # "unlinked"
                 /\ \A j \in 1 .. n : f.items[j].module = imports[f.items[k].module][i] =>
                      ancestor'[f.items[k].module] <= f.items[j].dfs
      <4>1. /\ state[imports[f.items[k].module][i]] # "unlinked"
            /\ \A j \in 1 .. n : f.items[j].module = imports[f.items[k].module][i] =>
                 ancestor[f.items[k].module] <= f.items[j].dfs
        BY <1>2, <1>3, <3>1 DEF SearchOK, SeenOK
      <4>2. PICK y \in Module : y = f.items[k].module /\ ancestor'[y] <= ancestor[y]
                               /\ ancestor[y] \in Nat /\ ancestor'[y] \in Nat
        BY <1>5, <1>18
      <4>3. \A j \in 1 .. n : f.items[j].module = imports[y][i] => ancestor'[y] <= f.items[j].dfs
        BY <1>5, <4>1, <4>2
      <4> QED BY <4>1, <4>2, <4>3
    <3> QED BY <1>0, <1>3, <1>13, <3>1, SMTT(40) DEF SeenOK
  <2> QED BY <2>1, <2>2, <2>3, <2>4, <2>5 DEF SearchOK
<1>28. scope' \in [Module -> BOOLEAN] /\ \A x \in Module : scope[x] => scope'[x]
  BY <1>0, <1>7, <1>9, Zenon
<1>29. LinkKeeps
  BY <1>0, <1>9, <1>18, <1>28 DEF LinkKeeps, Inv, TypeOK
<1>30. \A x \in Module : Done(x)' <=> Done(x)
  BY <1>0 DEF Done
<1>31. \A x \in Module : state'[x] = "linking" => \E k \in 1 .. Len(g.items) : g.items[k].module = x
  BY <1>0, <1>1, <1>13
<1>32. \A x \in Module : resolved[x] \subseteq resolved'[x]
  BY <1>0
<1> QED BY <1>0, <1>1, <1>7, <1>13, <1>14, <1>23, <1>24, <1>25, <1>26, <1>27, <1>28, <1>29,
           <1>30, <1>31, <1>32, LinkStepInv

\* The current item of f is the root of a component.
AtRoot(f, A) ==
  LET r == f.items[f.current]
  IN /\ StackOK(f) /\ Path(f, A) /\ SearchOK(f, A)
     /\ ancestor[r.module] = r.dfs /\ r.node > Len(imports[r.module])

\* The imports of the modules from the root up to the last one are not unlinked, and
\* lead to no item below it.
LEMMA Component ==
  ASSUME TypeOK, NEW f \in LinkFrame, NEW A, NEW n \in Nat, NEW c \in 1 .. n,
         n = Len(f.items), c = f.current, AtRoot(f, A),
         NEW k \in 1 .. n, c <= k, NEW m \in Module, m = f.items[k].module,
         NEW i \in 1 .. Len(imports[m])
  PROVE  /\ state[imports[m][i]] # "unlinked"
         /\ \A j \in 1 .. n : f.items[j].module = imports[m][i] => c <= j
<1>0. /\ StackOK(f) /\ Path(f, A) /\ SearchOK(f, A)
      /\ ancestor[f.items[c].module] = f.items[c].dfs
      /\ f.items[c].node > Len(imports[f.items[c].module])
  BY DEF AtRoot
<1>1. \A j \in 1 .. n : f.items[j].module \in Module /\ f.items[j].dfs \in Nat
                        /\ f.items[j].node \in Nat
  BY ItemsType
<1>2. \A j \in 1 .. n : ancestor[f.items[j].module] \in Nat
  BY <1>1 DEF TypeOK
<1>3. c \in A /\ \A a \in A : a \in 1 .. n /\ a <= c
  BY <1>0 DEF Path
<1>4. Len(imports[m]) \in Nat
  BY <1>1, ImportsType
<1>5. f.items[k].node > Len(imports[m]) /\ f.items[c].dfs <= ancestor[m]
  <2>1. CASE k = c
    BY <1>0, <1>1, <1>4, <2>1
  <2>2. CASE k # c
    <3>1. k \notin A /\ c < k
      BY <1>3, <2>2
    <3>2. f.items[k].node > Len(imports[m])
      BY <1>0, <1>4, <3>1 DEF SearchOK, OffPathDone
    <3>3. ancestor[f.items[c].module] <= ancestor[f.items[k].module]
      BY <1>0, <1>3, <3>1 DEF SearchOK, OffPathLow
    <3> QED BY <1>0, <1>4, <3>2, <3>3
  <2> QED BY <2>1, <2>2
<1>6. i < f.items[k].node
  BY <1>1, <1>4, <1>5
<1>7. /\ state[imports[m][i]] # "unlinked"
      /\ \A j \in 1 .. n : f.items[j].module = imports[m][i] => ancestor[m] <= f.items[j].dfs
  BY <1>0, <1>4, <1>6 DEF SearchOK, SeenOK
<1>8. ASSUME NEW j \in 1 .. n, f.items[j].module = imports[m][i] PROVE c <= j
  <2>1. f.items[c].dfs <= f.items[j].dfs
    <3>1. ancestor[m] <= f.items[j].dfs
      BY <1>7, <1>8
    <3>2. f.items[c].dfs \in Nat /\ f.items[j].dfs \in Nat /\ ancestor[m] \in Nat
      BY <1>1, <1>2, <1>3
    <3>3. PICK x \in Nat, y \in Nat, z \in Nat :
            x = f.items[c].dfs /\ y = ancestor[m] /\ z = f.items[j].dfs
      BY <3>2
    <3>4. x <= y /\ y <= z
      BY <3>1, <3>3, <1>5
    <3>5. x <= z
      BY <3>4
    <3> QED BY <3>3, <3>5
  <2>2. j < c => f.items[j].dfs < f.items[c].dfs
    BY <1>0 DEF StackOK, OrderOK
  <2> QED BY <1>1, <2>1, <2>2
<1> QED BY <1>4, <1>7, <1>8

\* The modules of a component are closed, when the last one of them becomes linked.
LEMMA ComponentClosed ==
  ASSUME Inv, imports' = imports, resolved' = resolved,
         NEW f \in LinkFrame, NEW A, NEW n \in Nat, NEW c \in 1 .. n,
         n = Len(f.items), c = f.current, AtRoot(f, A), f.at \in {"visit", "linked"},
         \A x \in Module : state[x] = "linking" => \E k \in 1 .. n : f.items[k].module = x,
         \A x \in Module : scope[x] => scope'[x], scope'[f.items[c].module],
         \A x \in Module : state'[x] = "unlinked" => state[x] = "unlinked",
         \A x \in Module : state'[x] = "linking" => state[x] = "linking",
         \A k \in 1 .. n : c <= k /\ state'[f.items[k].module] = "linking" =>
           Pending(f.items[k].module)',
         NEW k \in 1 .. n, c <= k
  PROVE  ClosedAt(f.items[k].module)'
<1>1. \A j \in 1 .. n : f.items[j].module \in Module
  BY ItemsType
<1>2. \A j \in 1 .. n : c <= j => scope'[f.items[j].module]
  <2> SUFFICES ASSUME NEW j \in 1 .. n, c <= j, j # c PROVE scope'[f.items[j].module]
    OBVIOUS
  <2>1. j \notin A
    BY DEF AtRoot, Path
  <2> QED BY <1>1, <2>1 DEF AtRoot, SearchOK, OffPathDone
<1>3. PICK m \in Module : m = f.items[k].module
  BY <1>1
<1>4. Unresolved(m)' = {}
  BY <1>3 DEF AtRoot, SearchOK, ResolvedOK, Unresolved
<1>5. ASSUME NEW i \in DOMAIN imports[m]
      PROVE  /\ scope'[imports[m][i]]
             /\ state'[imports[m][i]] # "unlinked"
             /\ state'[imports[m][i]] = "linking" => Pending(imports[m][i])'
  <2>1. i \in 1 .. Len(imports[m]) /\ imports[m][i] \in Module
    BY ImportsType DEF Inv
  <2>2. PICK t \in Module : t = imports[m][i]
    BY <2>1
  <2>3. state[t] # "unlinked" /\ \A j \in 1 .. n : f.items[j].module = t => c <= j
    <3>1. /\ state[imports[m][i]] # "unlinked"
          /\ \A j \in 1 .. n : f.items[j].module = imports[m][i] => c <= j
      <4>1. TypeOK
        BY DEF Inv
      <4> HIDE DEF LinkFrame
      <4> QED BY <1>3, <2>1, <4>1, Component
    <3> QED BY <2>2, <3>1
  <2>4. CASE state[t] = "linking"
    <3>1. PICK j \in 1 .. n : f.items[j].module = t /\ c <= j
      BY <2>3, <2>4
    <3>2. state'[f.items[j].module] = "linking" => Pending(f.items[j].module)'
      BY <3>1
    <3>3. state'[t] = "linking" => Pending(t)'
      BY <3>1, <3>2 DEF Pending
    <3>4. scope'[t] /\ state'[t] # "unlinked"
      BY <1>2, <2>3, <3>1
    <3> QED BY <2>2, <3>3, <3>4 DEF Pending
  <2>5. CASE state[t] # "linking"
    <3>1. ClosedAt(t)
      BY <2>3, <2>5, ClosedDef DEF Inv, Done
    <3>2. scope'[t] /\ state'[t] # "unlinked" /\ state'[t] # "linking"
      BY <2>3, <2>5, <3>1 DEF ClosedAt
    <3> QED BY <2>2, <3>2
  <2> QED BY <2>4, <2>5
<1>6. scope'[m]
  BY <1>2, <1>3
<1>7. ClosedAt(m)'
  BY <1>4, <1>5, <1>6 DEF ClosedAt
<1> QED BY <1>3, <1>7 DEF ClosedAt, Unresolved, Pending

\* The root of a component is found, and its last module is linked.
LEMMA ComponentFoundStep ==
  ASSUME Inv, ComponentFound
  PROVE  Inv'
<1>0. /\ calls # <<>> /\ Top.op = "link" /\ Top.at = "visit"
      /\ phase' = phase /\ ran' = ran /\ ancestor' = ancestor
      /\ imports' = imports /\ resolved' = resolved
      /\ ~NodesLeft /\ ancestor[CurrentModule] = Current.dfs
      /\ scope' = [scope EXCEPT ![CurrentModule] = TRUE]
      /\ state' = [state EXCEPT ![Last] = "linked"]
      /\ calls' = Goto("linked")
  BY DEF ComponentFound, In
<1>1. PICK f \in LinkFrame :
        /\ f = Top
        /\ StackOK(f) /\ RootOK(f)
        /\ \E A \in SUBSET (1 .. Len(f.items)) : Path(f, A) /\ SearchOK(f, A)
        /\ \A m \in Module : state[m] = "linking" =>
             \E k \in 1 .. Len(f.items) : f.items[k].module = m
  BY <1>0, TopLink
<1>2. PICK A \in SUBSET (1 .. Len(f.items)) : Path(f, A) /\ SearchOK(f, A)
  BY <1>1
<1>3. PICK n \in Nat : n = Len(f.items)
  BY ItemsType
<1>4. PICK c \in 1 .. n : c = f.current
  BY <1>1, <1>3 DEF StackOK, ItemsOK
<1>5. \A k \in 1 .. n : /\ f.items[k].module \in Module /\ f.items[k].dfs \in Nat
                        /\ f.items[k].node \in Nat /\ f.items[k].parent \in Nat
  BY <1>3, ItemsType
<1>6. n \in 1 .. n
  BY <1>4
<1>7. PICK m \in Module : m = f.items[c].module
  BY <1>5
<1>8. PICK z \in Module : z = f.items[n].module
  BY <1>5, <1>6
<1>9. CurrentModule = m /\ Current = f.items[c] /\ f.at = "visit" /\ Last = z
  BY <1>0, <1>1, <1>3, <1>4, <1>7, <1>8 DEF CurrentModule, Current, Last
<1>10. PICK g : g = [f EXCEPT !.at = "linked"]
  OBVIOUS
<1>11. /\ g \in LinkFrame /\ g.items = f.items /\ g.current = f.current
       /\ g.index = f.index /\ g.at = "linked"
  BY <1>10 DEF LinkFrame
<1>12. calls' = Append(Below, g)
  BY <1>0, <1>1, <1>10 DEF Goto
<1>13. \A k \in 1 .. n : state[f.items[k].module] = "linking"
  BY <1>1, <1>3, <1>9 DEF StackOK, ItemStates
<1>14. \A j, k \in 1 .. n : f.items[j].module = f.items[k].module => j = k
  BY <1>1, <1>3 DEF StackOK, OrderOK
<1>15. scope \in [Module -> BOOLEAN] /\ state \in [Module -> States]
  BY DEF Inv, TypeOK
<1>16. /\ scope' \in [Module -> BOOLEAN] /\ scope'[m]
       /\ \A x \in Module : scope[x] => scope'[x]
  BY <1>0, <1>9, <1>15, Zenon
<1>17. /\ state' \in [Module -> States] /\ state'[z] = "linked"
       /\ \A x \in Module : x # z => state'[x] = state[x]
  BY <1>0, <1>9, <1>15 DEF States
<1>18. f.items[c].node > Len(imports[m])
  <2>1. ~(f.items[c].node <= Len(imports[m])) /\ Len(imports[m]) \in Nat
    BY <1>0, <1>9, ImportsType DEF NodesLeft, Inv
  <2> QED BY <1>5, <2>1
<1>19. AtRoot(f, A)
  BY <1>0, <1>1, <1>2, <1>4, <1>7, <1>9, <1>18 DEF AtRoot
<1>20. StackOK(g)'
  <2>1. ItemsOK(g)' /\ OrderOK(g)'
    <3>1. ItemsOK(f) /\ OrderOK(f)
      BY <1>1 DEF StackOK
    <3>2. ItemsOK(g)'
      BY <1>11, <3>1 DEF ItemsOK
    <3>3. OrderOK(g)'
      BY <1>11, <3>1 DEF OrderOK
    <3> QED BY <3>2, <3>3
  <2>2. \A k \in 1 .. n : /\ k = n => state'[f.items[k].module] = "linked"
                          /\ k # n => state'[f.items[k].module] = "linking"
    BY <1>5, <1>6, <1>8, <1>13, <1>14, <1>17
  <2>3. ItemStates(g)'
    BY <1>3, <1>11, <2>2 DEF ItemStates
  <2> QED BY <2>1, <2>3 DEF StackOK
<1>21. RootOK(g)'
  BY <1>0, <1>4, <1>7, <1>9, <1>11, <1>16, <1>18 DEF RootOK
<1>22. Path(g, A)
  BY <1>2, <1>11 DEF Path
<1>23. \A x \in Module : state'[x] = "unlinked" => state[x] = "unlinked"
  BY <1>17
<1>24. SearchOK(g, A)'
  <2>1. AncestorLow(g)' /\ OffPathLow(g, A)'
    BY <1>0, <1>2, <1>11 DEF SearchOK, AncestorLow, OffPathLow
  <2>2. ResolvedOK(g)'
    BY <1>0, <1>2, <1>9, <1>11 DEF SearchOK, ResolvedOK, Unresolved
  <2>3. OffPathDone(g, A)'
    <3>1. \A k \in 1 .. n : k \notin A =>
            scope'[f.items[k].module] /\ f.items[k].node > Len(imports[f.items[k].module])
      BY <1>2, <1>3, <1>5, <1>16 DEF SearchOK, OffPathDone
    <3> QED BY <1>0, <1>3, <1>11, <3>1 DEF OffPathDone
  <2>4. SeenOK(g)'
    <3>1. ASSUME NEW k \in 1 .. n, NEW i \in 1 .. Len(imports[f.items[k].module]),
                 i < f.items[k].node
          PROVE  /\ state'[imports[f.items[k].module][i]] # "unlinked"
                 /\ \A j \in 1 .. n : f.items[j].module = imports[f.items[k].module][i] =>
                      ancestor[f.items[k].module] <= f.items[j].dfs
      <4>1. /\ state[imports[f.items[k].module][i]] # "unlinked"
            /\ \A j \in 1 .. n : f.items[j].module = imports[f.items[k].module][i] =>
                 ancestor[f.items[k].module] <= f.items[j].dfs
        BY <1>2, <1>3, <3>1 DEF SearchOK, SeenOK
      <4>2. imports[f.items[k].module][i] \in Module
        BY <1>5, ImportsType DEF Inv
      <4> QED BY <1>23, <4>1, <4>2
    <3>2. imports' = imports /\ ancestor' = ancestor
      BY <1>0
    <3>3. Len(f.items) = n /\ g.items = f.items
      BY <1>3, <1>11
    <3> SUFFICES ASSUME NEW k \in 1 .. Len(g.items),
                        NEW i \in 1 .. Len(imports'[g.items[k].module]), i < g.items[k].node
                 PROVE  /\ state'[imports'[g.items[k].module][i]] # "unlinked"
                        /\ \A j \in 1 .. Len(g.items) :
                             g.items[j].module = imports'[g.items[k].module][i] =>
                               ancestor'[g.items[k].module] <= g.items[j].dfs
      BY DEF SeenOK
    <3>4. /\ k \in 1 .. n /\ i \in 1 .. Len(imports[f.items[k].module])
          /\ i < f.items[k].node
      BY <3>2, <3>3
    <3> QED BY <3>1, <3>2, <3>3, <3>4
  <2> QED BY <2>1, <2>2, <2>3, <2>4 DEF SearchOK
<1>25. LinkKeeps
  <2>1. \A x \in Module : state'[x] = state[x] \/ (state[x] \in Early /\ state'[x] \in Early)
    BY <1>6, <1>8, <1>13, <1>17 DEF Early
  <2> QED BY <1>0, <1>16, <1>17, <2>1 DEF LinkKeeps, Inv, TypeOK
<1>26. \A x \in Module : (Done(x) => Done(x)') /\ (Done(x)' /\ ~Done(x) => x = z)
  BY <1>17 DEF Done
<1>27. \A x \in Module : state'[x] = "linking" => state[x] = "linking"
  BY <1>17
<1>28. \A x \in Module : state'[x] = "linking" => \E k \in 1 .. Len(g.items) : g.items[k].module = x
  BY <1>1, <1>11, <1>27
<1>29. \A k \in 1 .. n : c <= k => Pending(f.items[k].module)'
  <2>4. ASSUME NEW k \in 1 .. n, c <= k
        PROVE  \E j \in g.current .. Len(g.items) : g.items[j].module = f.items[k].module
    BY <1>3, <1>4, <1>11, <2>4
  <2>5. \A t : (\E j \in g.current .. Len(g.items) : g.items[j].module = t) => Pending(t)'
    BY <1>0, <1>11, <1>12, NextTop DEF Inv
  <2> QED BY <2>4, <2>5 DEF Pending
<1>30. ClosedAt(z)'
  <2>1. c <= n /\ f.at \in {"visit", "linked"} /\ scope'[f.items[c].module]
    BY <1>7, <1>9, <1>16
  <2>2. \A x \in Module : state[x] = "linking" => \E k \in 1 .. n : f.items[k].module = x
    BY <1>1, <1>3
  <2>3. ClosedAt(f.items[n].module)'
    BY <1>0, <1>3, <1>4, <1>6, <1>16, <1>19, <1>23, <1>27, <1>29, <2>1, <2>2, ComponentClosed
  <2> QED BY <1>8, <2>3 DEF ClosedAt, Unresolved, Pending
<1>31. \A x \in Module : Done(x)' /\ ~Done(x) => ClosedAt(x)'
  <2> SUFFICES ASSUME NEW x \in Module, Done(x)', ~Done(x) PROVE ClosedAt(x)'
    OBVIOUS
  <2>1. x = z
    BY <1>26
  <2> QED BY <1>30, <2>1
<1>32. A \in SUBSET (1 .. Len(g.items)) /\ \A x \in Module : resolved[x] \subseteq resolved'[x]
  BY <1>0, <1>11
<1>33. f.at # "linked" /\ \A x \in Module : Done(x) => Done(x)'
  BY <1>9, <1>26
<1> QED BY <1>0, <1>1, <1>11, <1>12, <1>16, <1>20, <1>21, <1>22, <1>24, <1>25, <1>28, <1>31,
           <1>32, <1>33, LinkStepInv

\* The link returns, with what it does to the closure of the linked modules.
LEMMA LinkEndsInv ==
  ASSUME Inv, LinkKeeps, calls # <<>>, Top.op = "link", phase' = phase,
         NEW r \in {"ok", "error"}, calls' = Return(Below, r),
         \A m \in Module : state'[m] # "linking",
         \A m \in Module : scope[m] => scope'[m],
         \A m \in Module : resolved[m] \subseteq resolved'[m],
         \A m \in Module : Done(m) <=> Done(m)',
         \A m \in Module : Pending(m) => state'[m] # "unlinked"
  PROVE  Inv'
<1>1. TypeOK' /\ LinkOK' /\ WaitOK' /\ EvaluateOK'
  BY LinkEnds
<1>2. \A m \in Module : Done(m)' => ClosedAt(m)'
  BY ClosedKept DEF LinkKeeps
<1>3. phase' # "assert"
  BY DEF Inv, LinkedClosed
<1>4. LinkedClosed'
  BY <1>2, <1>3 DEF LinkedClosed, Done, ClosedAt, Pending
<1> QED BY <1>1, <1>4 DEF Inv

\* The link fails in the resolve callback, and its modules are unlinked again.
LEMMA LinkFailsStep ==
  ASSUME Inv, In("link", "callback"), LinkFails,
         UNCHANGED <<imports, scope, ancestor, ran, phase>>,
         resolved' = [m \in Module |-> resolved'[m]],
         \A m \in Module : resolved[m] \subseteq resolved'[m]
  PROVE  Inv'
<1>0. calls # <<>> /\ Top.op = "link" /\ Top.at = "callback" /\ calls' = Return(Below, "error")
  BY DEF In, LinkFails
<1>1. PICK f \in LinkFrame :
        /\ f = Top /\ StackOK(f)
        /\ \A m \in Module : state[m] = "linking" =>
             \E k \in 1 .. Len(f.items) : f.items[k].module = m
        /\ \A t \in Module : Pending(t) <=>
             f.at = "linked" /\ \E k \in f.current .. Len(f.items) : f.items[k].module = t
  BY <1>0, TopLink
<1>2. \A k \in 1 .. Len(f.items) : state[f.items[k].module] = "linking"
  BY <1>0, <1>1 DEF StackOK, ItemStates
<1>3. DOMAIN f.items = 1 .. Len(f.items)
  <2>1. f.items \in Seq(ItemSet)
    BY ItemsType
  <2> HIDE DEF ItemSet
  <2> QED BY <2>1, LenProperties
<1>4. /\ state \in [Module -> States]
      /\ state' = [m \in Module |-> IF \E k \in 1 .. Len(f.items) : f.items[k].module = m
                                      THEN "unlinked" ELSE state[m]]
  BY <1>1, <1>3 DEF LinkFails, Inv, TypeOK
<1>5. /\ state' \in [Module -> States]
      /\ \A m \in Module : state[m] = "linking" => state'[m] = "unlinked"
      /\ \A m \in Module : state[m] # "linking" => state'[m] = state[m]
  BY <1>1, <1>2, <1>4 DEF States
<1>6. LinkKeeps
  <2>1. \A m \in Module : state'[m] = state[m] \/ (state[m] \in Early /\ state'[m] \in Early)
    BY <1>5 DEF Early
  <2> QED BY <1>5, <2>1 DEF LinkKeeps, Inv, TypeOK
<1>7. \A m \in Module : Done(m) <=> Done(m)'
  BY <1>5 DEF Done
<1>8. \A m \in Module : state'[m] # "linking" /\ ~Pending(m)
  BY <1>0, <1>1, <1>5
<1> DEFINE r == "error"
<1>9. r \in {"ok", "error"}
  OBVIOUS
<1>10. calls' = Return(Below, r)
  BY <1>0
<1> HIDE DEF r
<1> QED BY <1>0, <1>6, <1>7, <1>8, <1>9, <1>10, LinkEndsInv

\* The frame with an item less.
Popped(f, c, at) ==
  [f EXCEPT !.items = SubSeq(@, 1, Len(@) - 1), !.current = c, !.at = at]

\* g has the items of f up to l.
PopResult(f, l, c, at, g) ==
  /\ g \in LinkFrame /\ Len(g.items) = l
  /\ g.current = c /\ g.index = f.index /\ g.at = at
  /\ \A k \in 1 .. l : g.items[k] = f.items[k]

LEMMA PopFrame ==
  ASSUME NEW f \in LinkFrame, NEW l \in Nat, Len(f.items) = l + 1, NEW c \in Nat,
         NEW at \in {"visit", "linked"}, NEW g, g = Popped(f, c, at)
  PROVE  PopResult(f, l, c, at, g)
<1>1. PICK s \in Seq(ItemSet) : s = f.items
  BY ItemsType
<1>2. /\ SubSeq(s, 1, l) \in Seq(ItemSet) /\ Len(SubSeq(s, 1, l)) = l
      /\ \A k \in 1 .. l : SubSeq(s, 1, l)[k] = s[k]
  <2> HIDE DEF ItemSet
  <2>0. Len(s) \in Nat /\ (s = <<>> <=> Len(s) = 0)
    BY EmptyLen
  <2>a. Len(s) = l + 1
    BY <1>1
  <2>1. s # <<>> /\ l = Len(s) - 1
    BY <2>0, <2>a
  <2> QED BY <2>1, FrontProperties
<1>3. PICK u \in Seq(ItemSet) : u = SubSeq(s, 1, l)
  BY <1>2
<1>4. PICK a : a = [f EXCEPT !.items = u]
  OBVIOUS
<1> HIDE DEF ItemSet
<1>5. a \in LinkFrame /\ a.items = u /\ a.index = f.index
  BY <1>4 DEF LinkFrame
<1>6. PICK b : b = [a EXCEPT !.current = c]
  OBVIOUS
<1>7. b \in LinkFrame /\ b.items = u /\ b.index = f.index /\ b.current = c
  BY <1>5, <1>6 DEF LinkFrame
<1>8. g = [b EXCEPT !.at = at]
  <2>1. l = Len(f.items) - 1
    OBVIOUS
  <2> QED BY <1>1, <1>3, <1>4, <1>6, <2>1 DEF Popped
<1>9. g \in LinkFrame /\ g.items = u /\ g.index = f.index /\ g.current = c /\ g.at = at
  BY <1>7, <1>8 DEF LinkFrame
<1> HIDE DEF LinkFrame
<1> QED BY <1>1, <1>2, <1>3, <1>9 DEF PopResult


\* The last item, which was reported, is freed; the search goes on with the item c.
BeforePop(f, A, n) ==
  /\ f = Top /\ f.at = "linked" /\ StackOK(f) /\ RootOK(f) /\ SearchOK(f, A)
  /\ \A m \in Module : state[m] = "linking" => \E k \in 1 .. n : f.items[k].module = m
  /\ n = Len(f.items) /\ n > 1

AfterPop(f, n, l, c, at) ==
  /\ UNCHANGED <<imports, resolved, scope, ancestor, ran, phase>>
  /\ state' \in [Module -> States]
  /\ \A k \in 1 .. l :
       /\ at = "linked" /\ k = l => state'[f.items[k].module] = "linked"
       /\ at = "visit" \/ k # l => state'[f.items[k].module] = "linking"
  /\ \A x \in Module : state'[x] = state[x] \/ (at = "linked" /\ x = f.items[l].module)
  /\ at = "linked" => c = f.current /\ ClosedAt(f.items[l].module)'
  /\ at = "visit" => f.current = n

LEMMA PopStep ==
  ASSUME Inv, calls # <<>>, Top.op = "link",
         NEW f \in LinkFrame, NEW A, NEW n \in Nat, BeforePop(f, A, n),
         NEW l \in Nat, n = l + 1,
         NEW c \in 1 .. l, NEW at \in {"visit", "linked"}, AfterPop(f, n, l, c, at),
         NEW g, g = Popped(f, c, at), calls' = Append(Below, g),
         NEW B, B \subseteq 1 .. l, Path(g, B), B = A \cap (1 .. l), A \subseteq 1 .. n
  PROVE  Inv'
<1>a. /\ f = Top /\ f.at = "linked" /\ StackOK(f) /\ RootOK(f) /\ SearchOK(f, A)
      /\ n = Len(f.items) /\ n > 1
  BY DEF BeforePop
<1>b. imports' = imports /\ resolved' = resolved /\ scope' = scope /\ ancestor' = ancestor
      /\ ran' = ran /\ phase' = phase /\ state' \in [Module -> States]
  BY DEF AfterPop
<1>c. \A x \in Module : state'[x] = state[x] \/ (at = "linked" /\ x = f.items[l].module)
  BY DEF AfterPop
<1>1. /\ g \in LinkFrame /\ Len(g.items) = l
      /\ g.current = c /\ g.index = f.index /\ g.at = at
      /\ \A k \in 1 .. l : g.items[k] = f.items[k]
  <2>1. Len(f.items) = l + 1 /\ c \in Nat
    BY <1>a
  <2>2. PopResult(f, l, c, at, g)
    BY <2>1, PopFrame
  <2> QED BY <2>2 DEF PopResult
<1>e. Len(g.items) = l
  BY <1>1
<1>2. \A k \in 1 .. n : /\ f.items[k].module \in Module /\ f.items[k].dfs \in Nat
                        /\ f.items[k].node \in Nat /\ f.items[k].parent \in Nat
  BY <1>a, ItemsType
<1>3. \A k \in 1 .. l : k \in 1 .. n /\ n \in 1 .. n /\ l \in 1 .. l
  BY <1>a
<1>4. \A j, k \in 1 .. n : f.items[j].module = f.items[k].module => j = k
  <2>1. OrderOK(f)
    BY <1>a DEF StackOK
  <2> SUFFICES ASSUME NEW j \in 1 .. n, NEW k \in 1 .. n, f.items[j].module = f.items[k].module
               PROVE  j = k
    OBVIOUS
  <2>2. ~(j < k) /\ ~(k < j)
    BY <1>a, <2>1 DEF OrderOK
  <2> QED BY <2>2
<1>5. /\ state[f.items[n].module] = "linked"
      /\ \A k \in 1 .. l : state[f.items[k].module] = "linking"
  BY <1>a, <1>3 DEF StackOK, ItemStates
<1>d. \A x \in Module : at = "linked" /\ x = f.items[l].module =>
        state[x] = "linking" /\ state'[x] = "linked"
  <2>1. at = "linked" => state'[f.items[l].module] = "linked"
    BY <1>a, <1>3 DEF AfterPop
  <2> QED BY <1>3, <1>5, <2>1
<1>6. /\ \A x \in Module : state'[x] = "unlinked" => state[x] = "unlinked"
      /\ \A x \in Module : state'[x] = "linking" => state[x] = "linking"
      /\ \A x \in Module : state[x] # "linking" => state'[x] = state[x]
  BY <1>c, <1>d
<1>7. StackOK(g)'
  <2>1. ItemsOK(g)'
    <3>1. /\ \A k \in 1 .. l : /\ f.items[k].parent < k
                               /\ f.items[k].parent = 0 <=> k = 1
                               /\ f.items[k].node >= 1
                               /\ f.items[k].dfs <= f.index
          /\ f.items[1].dfs = 0 /\ 1 \in 1 .. l
      <4>1. ItemsOK(f) /\ Len(f.items) = n
        BY <1>a DEF StackOK
      <4>2. /\ \A k \in 1 .. n : /\ f.items[k].parent < k
                                 /\ f.items[k].parent = 0 <=> k = 1
                                 /\ f.items[k].node >= 1
            /\ \A k \in 1 .. n : f.items[k].dfs <= f.index
            /\ f.items[1].dfs = 0
        BY <4>1 DEF ItemsOK
      <4>3. 1 \in 1 .. l
        OBVIOUS
      <4> QED BY <1>3, <4>2, <4>3
    <3> QED BY <1>1, <3>1 DEF ItemsOK
  <2>2. OrderOK(g)'
    <3>1. \A j, k \in 1 .. l : j < k =>
            f.items[j].dfs < f.items[k].dfs /\ f.items[j].module # f.items[k].module
      BY <1>a, <1>3 DEF StackOK, OrderOK
    <3> QED BY <1>1, <3>1 DEF OrderOK
  <2>3. ItemStates(g)'
    <3>1. \A k \in 1 .. l :
            /\ at = "linked" /\ k = l => state'[f.items[k].module] = "linked"
            /\ at # "linked" \/ k # l => state'[f.items[k].module] = "linking"
      BY DEF AfterPop
    <3> QED BY <1>1, <3>1 DEF ItemStates
  <2> QED BY <2>1, <2>2, <2>3 DEF StackOK
<1>8. RootOK(g)'
  <2>1. at = "linked" => c = f.current
    BY DEF AfterPop
  <2>2. at = "linked" => g.items[c] = f.items[c]
    BY <1>1
  <2>3. at = "linked" => LET r == f.items[c]
          IN ancestor[r.module] = r.dfs /\ scope[r.module] /\ r.node > Len(imports[r.module])
    BY <1>a, <2>1 DEF RootOK
  <2> QED BY <1>b, <1>1, <2>2, <2>3 DEF RootOK
<1>9. \A k \in 1 .. l : k \notin B => k \notin A
  OBVIOUS
<1>10. SearchOK(g, B)'
  <2>1. AncestorLow(g)'
    <3>1. \A k \in 1 .. l : ancestor[f.items[k].module] <= f.items[k].dfs
      BY <1>a, <1>3 DEF SearchOK, AncestorLow
    <3> QED BY <1>b, <1>1, <3>1 DEF AncestorLow
  <2>2. ResolvedOK(g)'
    <3>1. \A k \in 1 .. l : Unresolved(f.items[k].module) = {}
      BY <1>a, <1>3 DEF SearchOK, ResolvedOK
    <3> QED BY <1>b, <1>1, <3>1 DEF ResolvedOK, Unresolved
  <2>3. OffPathDone(g, B)'
    <3>1. \A k \in 1 .. l : k \notin B =>
            scope[f.items[k].module] /\ f.items[k].node > Len(imports[f.items[k].module])
      BY <1>a, <1>3, <1>9 DEF SearchOK, OffPathDone
    <3> QED BY <1>b, <1>1, <3>1 DEF OffPathDone
  <2>4. OffPathLow(g, B)'
    <3>1. ASSUME NEW k \in 1 .. l, k \notin B, NEW a \in B, a < k,
                 \A b \in B : b < k => b <= a
          PROVE  ancestor[f.items[a].module] <= ancestor[f.items[k].module]
      <4>1. k \in 1 .. n /\ k \notin A /\ a \in A
        BY <1>3, <1>9, <3>1
      <4>2. ASSUME NEW b \in A, b < k PROVE b <= a
        <5>1. b \in 1 .. n /\ b <= l
          BY <4>2
        <5>2. b \in B
          BY <5>1
        <5> QED BY <3>1, <4>2, <5>2
      <4> QED BY <1>a, <3>1, <4>1, <4>2 DEF SearchOK, OffPathLow
    <3> SUFFICES ASSUME NEW k \in 1 .. l, k \notin B, NEW a \in B, a < k,
                        \A b \in B : b < k => b <= a
                 PROVE  ancestor'[g.items[a].module] <= ancestor'[g.items[k].module]
      BY <1>1 DEF OffPathLow
    <3>2. g.items[a] = f.items[a] /\ g.items[k] = f.items[k]
      BY <1>1
    <3> QED BY <1>b, <3>1, <3>2
  <2>5. SeenOK(g)'
    <3>1. ASSUME NEW k \in 1 .. l, NEW i \in 1 .. Len(imports[f.items[k].module]),
                 i < f.items[k].node
          PROVE  /\ state'[imports[f.items[k].module][i]] # "unlinked"
                 /\ \A j \in 1 .. l : f.items[j].module = imports[f.items[k].module][i] =>
                      ancestor[f.items[k].module] <= f.items[j].dfs
      <4>1. /\ state[imports[f.items[k].module][i]] # "unlinked"
            /\ \A j \in 1 .. n : f.items[j].module = imports[f.items[k].module][i] =>
                 ancestor[f.items[k].module] <= f.items[j].dfs
        BY <1>a, <1>3, <3>1 DEF SearchOK, SeenOK
      <4>2. imports[f.items[k].module][i] \in Module
        BY <1>2, <1>3, ImportsType DEF Inv
      <4> QED BY <1>3, <1>6, <4>1, <4>2
    <3> SUFFICES ASSUME NEW k \in 1 .. Len(g.items),
                        NEW i \in 1 .. Len(imports'[g.items[k].module]), i < g.items[k].node
                 PROVE  /\ state'[imports'[g.items[k].module][i]] # "unlinked"
                        /\ \A j \in 1 .. Len(g.items) :
                             g.items[j].module = imports'[g.items[k].module][i] =>
                               ancestor'[g.items[k].module] <= g.items[j].dfs
      BY DEF SeenOK
    <3>0. k \in 1 .. l /\ Len(g.items) = l
      BY <1>e
    <3>2. PICK y : y = g.items[k].module /\ y = f.items[k].module /\ g.items[k] = f.items[k]
      BY <1>1, <3>0
    <3>3. /\ state'[imports[y][i]] # "unlinked"
          /\ \A j \in 1 .. l : f.items[j].module = imports[y][i] => ancestor[y] <= f.items[j].dfs
      BY <1>b, <3>1, <3>2, <3>0
    <3> QED BY <1>b, <1>1, <3>2, <3>3, <3>0
  <2> QED BY <2>1, <2>2, <2>3, <2>4, <2>5 DEF SearchOK
<1>11. LinkKeeps
  <2>1. \A x \in Module : state'[x] = state[x] \/ (state[x] \in Early /\ state'[x] \in Early)
    BY <1>c, <1>d DEF Early
  <2> QED BY <1>b, <2>1 DEF LinkKeeps, Inv, TypeOK
<1>12. /\ \A x \in Module : Done(x) => Done(x)'
       /\ \A x \in Module : Done(x)' /\ ~Done(x) => at = "linked" /\ x = f.items[l].module
  BY <1>c, <1>6 DEF Done
<1>13. \A x \in Module : Done(x)' /\ ~Done(x) => ClosedAt(x)'
  <2> SUFFICES ASSUME NEW x \in Module, Done(x)', ~Done(x) PROVE ClosedAt(x)'
    OBVIOUS
  <2>1. at = "linked" /\ x = f.items[l].module
    BY <1>12
  <2>2. ClosedAt(f.items[l].module)'
    BY <2>1 DEF AfterPop
  <2> QED BY <2>1, <2>2, Zenon
<1>14. \A x \in Module : state'[x] = "linking" => \E k \in 1 .. l : f.items[k].module = x
  <2> SUFFICES ASSUME NEW x \in Module, state'[x] = "linking"
               PROVE  \E k \in 1 .. l : f.items[k].module = x
    OBVIOUS
  <2>1. PICK k \in 1 .. n : f.items[k].module = x
    BY <1>6 DEF BeforePop
  <2>2. k # n
    BY <1>5, <1>6, <2>1
  <2> QED BY <2>1, <2>2
<1>15. \A x \in Module : state'[x] = "linking" => \E k \in 1 .. Len(g.items) : g.items[k].module = x
  BY <1>1, <1>14
<1>16. ASSUME NEW k \in f.current .. n
       PROVE  /\ state'[f.items[k].module] # "unlinked"
              /\ state'[f.items[k].module] = "linking" =>
                   /\ at = "linked"
                   /\ \E j \in c .. l : g.items[j].module = f.items[k].module
  <2>1. f.current \in 1 .. n
    BY <1>a DEF StackOK, ItemsOK
  <2>2. CASE k = n
    <3>1. f.items[k].module \in Module /\ n \in 1 .. n
      BY <1>a, <1>2, <2>2
    <3> QED BY <1>5, <1>6, <2>2, <3>1
  <2>3. CASE k # n
    <3>1. k \in 1 .. l /\ at = "linked" /\ f.current = c
      <4>1. k \in 1 .. l
        BY <2>1, <2>3
      <4>2. f.current # n
        BY <2>1, <2>3
      <4> QED BY <4>1, <4>2 DEF AfterPop
    <3>2. k \in c .. l /\ g.items[k] = f.items[k] /\ state[f.items[k].module] = "linking"
      BY <1>1, <1>5, <3>1
    <3>3. f.items[k].module \in Module
      BY <1>2, <1>3, <3>1
    <3> QED BY <1>6, <3>1, <3>2, <3>3
  <2> QED BY <2>2, <2>3
<1>17. B \in SUBSET (1 .. Len(g.items))
  BY <1>1
<1>18. ReportedKept(f, g)
  BY <1>a, <1>1, <1>16 DEF ReportedKept
<1>19. (\A x \in Module : scope[x] => scope'[x]) /\ (\A x \in Module : resolved[x] \subseteq resolved'[x])
  BY <1>b
<1>20. f = Top /\ phase' = phase /\ g \in LinkFrame /\ \A x \in Module : Done(x) => Done(x)'
  BY <1>a, <1>b, <1>1, <1>12
<1> QED BY <1>7, <1>8, <1>10, <1>11, <1>13, <1>15, <1>17, <1>18, <1>19, <1>20, LinkStepInv

\* The callback for state changes returns in a link.
LEMMA NextLinkedStep ==
  ASSUME Inv, NextLinked
  PROVE  Inv'
<1>0. /\ calls # <<>> /\ Top.op = "link" /\ Top.at = "linked"
      /\ UNCHANGED <<imports, resolved, scope, ancestor, ran, phase>>
  BY DEF NextLinked, In, graphVars
<1>1. PICK f \in LinkFrame :
        /\ f = Top
        /\ StackOK(f) /\ RootOK(f)
        /\ \E A \in SUBSET (1 .. Len(f.items)) : Path(f, A) /\ SearchOK(f, A)
        /\ \A m \in Module : state[m] = "linking" =>
             \E k \in 1 .. Len(f.items) : f.items[k].module = m
        /\ \A t \in Module : Pending(t) <=>
             f.at = "linked" /\ \E k \in f.current .. Len(f.items) : f.items[k].module = t
  BY <1>0, TopLink
<1>2. PICK A \in SUBSET (1 .. Len(f.items)) : Path(f, A) /\ SearchOK(f, A)
  BY <1>1
<1>3. PICK n \in Nat : n = Len(f.items)
  BY ItemsType
<1>4. PICK c \in 1 .. n : c = f.current
  BY <1>1, <1>3 DEF StackOK, ItemsOK
<1>5. PICK l \in Nat : n = l + 1 /\ l = n - 1
  BY <1>4
<1>6. \A k \in 1 .. n : /\ f.items[k].module \in Module /\ f.items[k].dfs \in Nat
                        /\ f.items[k].node \in Nat /\ f.items[k].parent \in Nat
  BY <1>3, ItemsType
<1>7. f.at = "linked" /\ Current = f.items[c]
  BY <1>0, <1>1, <1>4 DEF Current
<1>8. /\ state[f.items[n].module] = "linked"
      /\ \A k \in 1 .. n : k # n => state[f.items[k].module] = "linking"
  BY <1>1, <1>3, <1>4, <1>7 DEF StackOK, ItemStates
<1>9. \A j, k \in 1 .. n : f.items[j].module = f.items[k].module => j = k
  BY <1>1, <1>3 DEF StackOK, OrderOK
<1>10. /\ \A a \in A : a \in 1 .. n /\ a <= c /\ (a # 1 => f.items[a].parent \in A)
       /\ \A a \in A : a # 1 => \A b \in A : b < a => b <= f.items[a].parent
       /\ c \in A
  BY <1>2, <1>3, <1>4 DEF Path
<1>11. state \in [Module -> States]
  BY DEF Inv, TypeOK
<1>12. n > 1 => BeforePop(f, A, n)
  BY <1>1, <1>2, <1>3, <1>7 DEF BeforePop
<1>13. CASE n > c
  <2>1. PICK at : at = "linked"
    OBVIOUS
  <2>2. PICK g : g = Popped(f, c, at)
    OBVIOUS
  <2>3. PICK s \in Seq(ItemSet) : s = f.items /\ Len(s) = n
    BY <1>3, ItemsType
  <2>4. PICK rest : rest = SubSeq(f.items, 1, Len(f.items) - 1) /\ Len(rest) = l /\ rest[l] = f.items[l]
    <3>0. PICK rest : rest = SubSeq(s, 1, Len(s) - 1)
      OBVIOUS
    <3>1. s # <<>>
      BY <1>4, <2>3, EmptyLen
    <3>2. l \in 1 .. Len(s) - 1
      BY <1>4, <1>5, <1>13, <2>3
    <3>3. Len(rest) = Len(s) - 1 /\ rest[l] = s[l]
      <4> HIDE DEF ItemSet
      <4> QED BY <3>0, <3>1, <3>2, FrontProperties
    <3> QED BY <1>5, <2>3, <3>0, <3>3
  <2>5. PICK z \in Module : z = f.items[l].module
    BY <1>4, <1>5, <1>6, <1>13
  <2>6. state' = [state EXCEPT ![z] = "linked"] /\ calls' = Append(Below, [f EXCEPT !.items = rest])
    BY <1>1, <1>3, <1>4, <1>13, <2>4, <2>5 DEF NextLinked
  <2>7. g = [f EXCEPT !.items = rest]
    BY <1>4, <1>7, <2>1, <2>2, <2>4 DEF Popped, LinkFrame
  <2>8. l \in 1 .. n /\ c \in 1 .. l /\ c <= l /\ l # n /\ n > 1
    BY <1>4, <1>5, <1>13
  <2>9. /\ state' \in [Module -> States] /\ state'[z] = "linked"
        /\ \A x \in Module : x # z => state'[x] = state[x]
    BY <1>11, <2>6 DEF States
  <2>10. /\ \A x \in Module : state'[x] = "unlinked" => state[x] = "unlinked"
         /\ \A x \in Module : state'[x] = "linking" => state[x] = "linking"
    BY <2>9
  <2>11. \A k \in 1 .. l : /\ k = l => state'[f.items[k].module] = "linked"
                           /\ k # l => state'[f.items[k].module] = "linking"
    <3>1. \A k \in 1 .. l : k \in 1 .. n /\ k # n
      BY <1>5
    <3> QED BY <1>6, <1>8, <1>9, <2>5, <2>8, <2>9, <3>1
  <2>12. g \in LinkFrame /\ Len(g.items) = l /\ g.current = c /\ g.at = at
         /\ \A k \in 1 .. l : g.items[k] = f.items[k]
    <3>1. at \in {"visit", "linked"} /\ c \in Nat
      BY <2>1
    <3>2. Len(f.items) = l + 1
      BY <1>3, <1>5
    <3>3. PopResult(f, l, c, at, g)
      BY <2>2, <3>1, <3>2, PopFrame
    <3> QED BY <3>3 DEF PopResult
  <2>13. calls' = Append(Below, g)
    BY <2>6, <2>7
  <2>14. \A k \in 1 .. n : c <= k /\ state'[f.items[k].module] = "linking" =>
           Pending(f.items[k].module)'
    <3> SUFFICES ASSUME NEW k \in 1 .. n, c <= k, state'[f.items[k].module] = "linking"
                 PROVE  Pending(f.items[k].module)'
      OBVIOUS
    <3>1. k # n
      BY <1>6, <1>8, <2>10
    <3>2. k \in c .. l /\ k \in 1 .. l
      BY <1>5, <3>1
    <3>3. \E j \in g.current .. Len(g.items) : g.items[j].module = f.items[k].module
      BY <2>12, <3>2
    <3>4. \A t : (\E j \in g.current .. Len(g.items) : g.items[j].module = t) => Pending(t)'
      BY <1>0, <2>1, <2>12, <2>13, NextTop DEF Inv
    <3> QED BY <3>3, <3>4 DEF Pending
  <2>15. ClosedAt(f.items[l].module)'
    <3>1. AtRoot(f, A) /\ scope'[f.items[c].module] /\ f.at \in {"visit", "linked"}
      BY <1>0, <1>1, <1>2, <1>4, <1>7 DEF RootOK, AtRoot
    <3>2. \A x \in Module : state[x] = "linking" => \E k \in 1 .. n : f.items[k].module = x
      BY <1>1, <1>3
    <3>3. (\A x \in Module : scope[x] => scope'[x]) /\ imports' = imports /\ resolved' = resolved
      BY <1>0
    <3> QED BY <1>3, <1>4, <2>8, <2>10, <2>14, <3>1, <3>2, <3>3, ComponentClosed
  <2>16. AfterPop(f, n, l, c, at)
    BY <1>0, <1>4, <2>1, <2>5, <2>9, <2>11, <2>15 DEF AfterPop
  <2>17. A \subseteq 1 .. l
    BY <1>10, <2>8
  <2>18. Path(g, A)
    <3>1. \A a \in A : a # 1 => /\ g.items[a].parent \in A
                                /\ \A b \in A : b < a => b <= g.items[a].parent
      BY <1>10, <2>12, <2>17
    <3> QED BY <1>10, <2>12, <2>17, <3>1 DEF Path
  <2>19. A = A \cap (1 .. l) /\ A \subseteq 1 .. n /\ BeforePop(f, A, n)
    BY <1>3, <1>12, <2>8, <2>17
  <2>20. at \in {"visit", "linked"}
    BY <2>1
  <2> QED BY <1>0, <1>5, <2>2, <2>8, <2>13, <2>16, <2>17, <2>18, <2>19, <2>20, PopStep
<1>14. CASE n = c /\ f.items[c].parent = 0
  <2>1. n = 1
    BY <1>1, <1>3, <1>14 DEF StackOK, ItemsOK
  <2> DEFINE r == "ok"
  <2>2. r \in {"ok", "error"}
    OBVIOUS
  <2>3. calls' = Return(Below, r) /\ state' = state
    BY <1>1, <1>3, <1>4, <1>7, <1>14 DEF NextLinked
  <2> HIDE DEF r
  <2>4. \A k \in 1 .. n : state[f.items[k].module] = "linked"
    BY <1>8, <2>1
  <2>5. \A m \in Module : state'[m] # "linking"
    BY <1>1, <1>3, <2>3, <2>4
  <2>6. \A m \in Module : Pending(m) => state'[m] # "unlinked"
    <3>1. \A k \in c .. n : k \in 1 .. n
      BY <1>4
    <3> QED BY <1>1, <1>3, <1>4, <2>3, <2>4, <3>1
  <2>7. \A m \in Module : Done(m) <=> Done(m)'
    BY <2>3 DEF Done
  <2>8. LinkKeeps
    BY <1>0, <2>3 DEF LinkKeeps, Inv, TypeOK
  <2>9. /\ \A m \in Module : scope[m] => scope'[m]
        /\ \A m \in Module : resolved[m] \subseteq resolved'[m]
        /\ phase' = phase
    BY <1>0
  <2> QED BY <1>0, <2>2, <2>3, <2>5, <2>6, <2>7, <2>8, <2>9, LinkEndsInv
<1>15. CASE n = c /\ f.items[c].parent # 0
  <2>1. PICK at : at = "visit"
    OBVIOUS
  <2>2. PICK p \in 1 .. l : p = f.items[c].parent /\ c # 1 /\ n > 1
    <3>1. f.items[c].parent < c /\ c # 1 /\ f.items[c].parent \in Nat
      BY <1>1, <1>3, <1>6, <1>15 DEF StackOK, ItemsOK
    <3> QED BY <1>5, <1>15, <3>1
  <2>3. PICK g : g = Popped(f, p, at)
    OBVIOUS
  <2>4. calls' = Append(Below, g) /\ state' = state
    <3>1. ~(Len(Top.items) > Top.current) /\ Current.parent = p /\ p # 0
      BY <1>1, <1>3, <1>4, <1>7, <1>15, <2>2
    <3>2. state' = state /\ calls' = Append(Below, [Top EXCEPT !.items = SubSeq(Top.items, 1, Len(Top.items) - 1),
                                               !.current = Current.parent, !.at = "visit"])
      BY <3>1 DEF NextLinked
    <3> QED BY <1>1, <2>1, <2>3, <3>1, <3>2 DEF Popped
  <2>5. g \in LinkFrame /\ Len(g.items) = l /\ g.current = p /\ g.at = at
        /\ \A k \in 1 .. l : g.items[k] = f.items[k]
    <3>1. at \in {"visit", "linked"} /\ p \in Nat
      BY <2>1
    <3>2. Len(f.items) = l + 1
      BY <1>3, <1>5
    <3>3. PopResult(f, l, p, at, g)
      BY <2>3, <3>1, <3>2, PopFrame
    <3> QED BY <3>3 DEF PopResult
  <2>6. AfterPop(f, n, l, p, at)
    <3>1. \A k \in 1 .. l : k \in 1 .. n /\ k # n
      BY <1>5
    <3> QED BY <1>0, <1>4, <1>8, <1>11, <1>15, <2>1, <2>4, <3>1 DEF AfterPop
  <2>7. PICK B : B = A \cap (1 .. l)
    OBVIOUS
  <2>8. \A b \in B : b \in A /\ b \in 1 .. l /\ b <= p
    <3> SUFFICES ASSUME NEW b \in B PROVE b \in A /\ b \in 1 .. l /\ b <= p
      OBVIOUS
    <3>1. b \in A /\ b \in 1 .. l /\ b < c
      BY <1>5, <1>15, <2>7
    <3> QED BY <1>10, <2>2, <3>1
  <2>9. p \in B
    BY <1>10, <2>2, <2>7
  <2>10. ASSUME NEW a \in B, a # 1
         PROVE  g.items[a].parent \in B /\ \A b \in B : b < a => b <= g.items[a].parent
    <3>1. a \in A /\ a \in 1 .. l /\ a \in 1 .. n /\ g.items[a] = f.items[a]
      BY <1>10, <2>5, <2>8
    <3>2. f.items[a].parent < a /\ f.items[a].parent \in Nat /\ f.items[a].parent \in A
      BY <1>1, <1>3, <1>6, <1>10, <2>10, <3>1 DEF StackOK, ItemsOK
    <3>3. f.items[a].parent \in 1 .. l
      BY <1>10, <3>1, <3>2
    <3>4. f.items[a].parent \in B
      BY <2>7, <3>2, <3>3
    <3> QED BY <1>10, <2>8, <2>10, <3>1, <3>4
  <2>11. Path(g, B)
    BY <2>5, <2>8, <2>9, <2>10 DEF Path
  <2>12. B \subseteq 1 .. l /\ A \subseteq 1 .. n /\ BeforePop(f, A, n) /\ at \in {"visit", "linked"}
    BY <1>10, <1>12, <2>1, <2>2, <2>8
  <2>13. calls # <<>> /\ Top.op = "link" /\ n = l + 1
    BY <1>0, <1>5
  <2> QED BY <2>3, <2>4, <2>6, <2>7, <2>11, <2>12, <2>13, PopStep
<1> QED BY <1>4, <1>13, <1>14, <1>15

\* The steps of a link that resolve the requests of a module.
LEMMA ResolveSteps ==
  ASSUME Inv, ResolveRequest \/ RequestsResolved \/ CallbackFails \/ CallbackReturns
  PROVE  Inv'
<1>1. resolved = [m \in Module |-> resolved[m]]
  BY DEF Inv, TypeOK
<1>2. CASE ResolveRequest
  <2>1. PICK p : p = "callback"
    OBVIOUS
  <2>2. /\ calls # <<>> /\ Top.op = "link" /\ Top.at \in {"resolve", "callback"} /\ calls' = Goto(p)
        /\ UNCHANGED <<imports, scope, state, ancestor, ran, phase>> /\ resolved' = resolved
    BY <1>2, <2>1 DEF ResolveRequest, In, graphVars
  <2>3. p \in {"resolve", "callback", "visit"} /\ p # "visit"
    BY <2>1
  <2>4. /\ resolved' = [m \in Module |-> resolved'[m]]
        /\ \A m \in Module : resolved[m] \subseteq resolved'[m]
    BY <1>1, <2>2
  <2> QED BY <2>2, <2>3, <2>4, PlaceStep
<1>3. CASE RequestsResolved
  <2>1. PICK p : p = "visit"
    OBVIOUS
  <2>2. /\ calls # <<>> /\ Top.op = "link" /\ Top.at \in {"resolve", "callback"} /\ calls' = Goto(p)
        /\ UNCHANGED <<imports, scope, state, ancestor, ran, phase>> /\ resolved' = resolved
        /\ Unresolved(CurrentModule) = {}
    BY <1>3, <2>1 DEF RequestsResolved, In, graphVars
  <2>3. p \in {"resolve", "callback", "visit"}
    BY <2>1
  <2>4. /\ resolved' = [m \in Module |-> resolved'[m]]
        /\ \A m \in Module : resolved[m] \subseteq resolved'[m]
    BY <1>1, <2>2
  <2> QED BY <2>2, <2>3, <2>4, PlaceStep
<1>4. CASE CallbackFails
  <2>1. /\ In("link", "callback") /\ LinkFails
        /\ UNCHANGED <<imports, scope, ancestor, ran, phase>> /\ resolved' = resolved
    BY <1>4 DEF CallbackFails, graphVars
  <2>2. /\ resolved' = [m \in Module |-> resolved'[m]]
        /\ \A m \in Module : resolved[m] \subseteq resolved'[m]
    BY <1>1, <2>1
  <2> QED BY <2>1, <2>2, LinkFailsStep
<1>5. CASE CallbackReturns
  <2>1. PICK m, i : resolved' = [resolved EXCEPT ![m] = @ \cup {i}]
    BY <1>5 DEF CallbackReturns
  <2>2. /\ In("link", "callback")
        /\ UNCHANGED <<imports, scope, ancestor, ran, phase>>
        /\ LinkFails \/ (calls' = Goto("resolve") /\ state' = state)
    BY <1>5 DEF CallbackReturns
  <2>3. /\ resolved' = [x \in Module |-> resolved'[x]]
        /\ \A x \in Module : resolved[x] \subseteq resolved'[x]
    BY <1>1, <2>1
  <2>4. CASE LinkFails
    BY <2>2, <2>3, <2>4, LinkFailsStep
  <2>5. CASE calls' = Goto("resolve") /\ state' = state
    <3>1. PICK p : p = "resolve"
      OBVIOUS
    <3>2. /\ calls # <<>> /\ Top.op = "link" /\ Top.at \in {"resolve", "callback"}
          /\ calls' = Goto(p) /\ UNCHANGED <<imports, scope, state, ancestor, ran, phase>>
      BY <2>2, <2>5, <3>1 DEF In
    <3>3. p \in {"resolve", "callback", "visit"} /\ p # "visit"
      BY <3>1
    <3> QED BY <2>3, <3>2, <3>3, PlaceStep
  <2> QED BY <2>2, <2>4, <2>5
<1> QED BY <1>2, <1>3, <1>4, <1>5

-----------------------------------------------------------------------------
(* Steps outside links.                                                    *)

\* Unless a link is at the top nothing is being linked.
LEMMA NoLink ==
  ASSUME Inv, calls # <<>> => Top.op # "link"
  PROVE  /\ \A c \in 1 .. Len(calls) : calls[c].op # "link"
         /\ \A m \in Module : state[m] # "linking"
         /\ \A t : ~Pending(t)
<1>1. /\ Len(calls) \in Nat /\ (calls = <<>> <=> Len(calls) = 0)
      /\ DOMAIN calls = 1 .. Len(calls)
  BY CallsType DEF Inv
<1>2. ASSUME NEW c \in 1 .. Len(calls) PROVE calls[c].op # "link"
  <2>1. calls # <<>>
    BY <1>1
  <2>2. calls[c].op = "link" => c = Len(calls)
    BY DEF Inv, LinkOK
  <2> QED BY <2>1, <2>2 DEF Top
<1>3. \A m \in Module : state[m] # "linking"
  BY <1>2 DEF Inv, LinkOK
<1>4. \A t : ~Pending(t)
  BY <1>1, <1>2 DEF Pending
<1> QED BY <1>2, <1>3, <1>4

\* Where the host or the program may call the API there is no link.
LEMMA MayCallNoLink ==
  ASSUME Inv, ~LinkCallbacks, MayCall
  PROVE  /\ calls # <<>> => Top.op # "link"
         /\ calls # <<>> => Top.at # "wait"
<1> SUFFICES ASSUME calls # <<>> PROVE Top.op # "link" /\ Top.at # "wait"
  OBVIOUS
<1>1. PICK n \in Nat : n = Len(calls) /\ n > 0
  BY CallsLen DEF Inv
<1>2. n \in DOMAIN calls /\ Top = calls[n] /\ calls[n] \in Frame
  BY <1>1, CallsType DEF Inv, Top
<1>3. Top.at \in {"body", "changed"}
  BY <1>2 DEF MayCall, UserCode, LinkCode
<1>4. Top.op = "link" => Top \in LinkFrame
  BY <1>2, FrameKinds
<1> QED BY <1>3, <1>4 DEF LinkFrame

\* Steps outside links keep the linked modules closed.
LEMMA ClosedNoLink ==
  ASSUME Inv, calls # <<>> => Top.op # "link",
         UNCHANGED <<imports, resolved, scope, phase>>,
         \A m \in Module : Done(m)' <=> Done(m)
  PROVE  LinkedClosed'
<1>1. \A t : ~Pending(t)
  BY NoLink
<1>2. /\ \A m \in Module : scope[m] => scope'[m]
      /\ \A m \in Module : resolved[m] \subseteq resolved'[m]
  OBVIOUS
<1>3. \A m \in Module : Done(m)' => ClosedAt(m)'
  BY <1>1, <1>2, ClosedKept
<1>4. phase' # "assert"
  BY DEF Inv, LinkedClosed
<1> QED BY <1>3, <1>4 DEF LinkedClosed, Done, ClosedAt, Pending

\* An evaluation keeps what it knows, if its module is left alone, the evaluated modules
\* stay so and no evaluation below is lost.
LEMMA CallKeeps ==
  ASSUME TypeOK, NEW c \in 1 .. Len(calls), calls[c].op = "evaluate", calls[c] \in Frame,
         EvaluateCall(c), calls'[c] = calls[c], imports' = imports,
         ran'[calls[c].module] = ran[calls[c].module],
         state'[calls[c].module] = state[calls[c].module],
         \A m \in Module : state[m] = "evaluated" => state'[m] = "evaluated",
         \A b \in 1 .. c : calls[b].op = "evaluate" =>
           calls'[b].op = "evaluate" /\ calls'[b].module = calls[b].module
  PROVE  EvaluateCall(c)'
<1> DEFINE m == calls[c].module
<1>1. m \in Module /\ calls[c].node \in Nat
  BY FrameKinds DEF EvaluateFrame
<1>2. Len(imports[m]) \in Nat /\ \A i \in 1 .. Len(imports[m]) : imports[m][i] \in Module
  BY <1>1, ImportsType
<1>3. ASSUME NEW t \in Module, Ready(c, t) PROVE Ready(c, t)'
  BY <1>3 DEF Ready
<1>4. \A i \in 1 .. calls[c].node : imports[m][i] \in Module
  BY <1>1, <1>2 DEF EvaluateCall
<1>5. /\ calls[c].at \in {"ok", "body"} => \A i \in 1 .. calls[c].node : Ready(c, imports[m][i])'
      /\ calls[c].at = "wait" => \A i \in 1 .. calls[c].node - 1 : Ready(c, imports[m][i])'
  BY <1>1, <1>3, <1>4 DEF EvaluateCall
<1> QED BY <1>1, <1>5 DEF EvaluateCall

\* The calls fs around a new one: those in progress, and the import at the top may wait.
Around(fs) ==
  /\ fs \in Seq(Frame) /\ Len(fs) = Len(calls)
  /\ \A c \in 1 .. Len(calls) :
       \/ fs[c] = calls[c] /\ (c = Len(calls) => calls[c].at # "wait")
       \/ /\ c = Len(calls) /\ calls[c].op = "import"
          /\ fs[c].op = "import" /\ fs[c].at = "wait"

\* The API is called from outside or from the code of the program.
LEMMA AroundCalls ==
  ASSUME Inv, calls # <<>> => Top.at # "wait"
  PROVE  Around(calls)
<1>1. Len(calls) \in Nat /\ (calls = <<>> <=> Len(calls) = 0) /\ calls \in Seq(Frame)
  BY CallsType DEF Inv, TypeOK
<1>2. ASSUME NEW c \in 1 .. Len(calls), c = Len(calls) PROVE calls[c].at # "wait"
  BY <1>1, <1>2 DEF Top
<1> QED BY <1>1, <1>2 DEF Around

\* An import waits for what it calls.
LEMMA AroundImport ==
  ASSUME Inv, In("import", "ok")
  PROVE  Around(Goto("wait"))
<1>1. PICK n \in Nat : n = Len(calls) /\ n > 0
  BY CallsLen DEF Inv, In
<1>2. Top = calls[n] /\ calls[n] \in Frame /\ Top.op = "import" /\ calls # <<>>
  BY <1>1, CallsType DEF Inv, In, Top
<1>3. PICK e : e = [Top EXCEPT !.at = "wait"]
  OBVIOUS
<1>4. e \in Frame /\ e.op = "import" /\ e.at = "wait"
  <2>1. Top \in ImportFrame
    BY <1>2, FrameKinds
  <2>2. e \in ImportFrame /\ e.op = "import" /\ e.at = "wait"
    BY <1>3, <2>1 DEF ImportFrame
  <2> QED BY <2>2 DEF Frame
<1>5. /\ Goto("wait") \in Seq(Frame) /\ Len(Goto("wait")) = n
      /\ \A c \in 1 .. n - 1 : Goto("wait")[c] = calls[c]
      /\ Goto("wait")[n] = e
  <2>1. Goto("wait") = Append(SubSeq(calls, 1, Len(calls) - 1), e)
    BY <1>3 DEF Goto, Below
  <2>2. calls \in Seq(Frame) /\ calls # <<>> /\ e \in Frame
    BY <1>2, <1>4 DEF Inv, TypeOK
  <2> HIDE DEF Frame
  <2>3. /\ Goto("wait") \in Seq(Frame) /\ Len(Goto("wait")) = Len(calls)
        /\ \A c \in 1 .. Len(calls) - 1 : Goto("wait")[c] = calls[c]
        /\ Goto("wait")[Len(calls)] = e
    <3>1. PICK s : s = calls
      OBVIOUS
    <3>2. PICK w : w = Append(SubSeq(s, 1, Len(s) - 1), e)
      OBVIOUS
    <3>3. /\ w \in Seq(Frame) /\ Len(w) = Len(s)
          /\ \A c \in 1 .. Len(s) - 1 : w[c] = s[c]
          /\ w[Len(s)] = e
      BY <2>2, <3>1, <3>2, ReplaceLast
    <3> QED BY <2>1, <3>1, <3>2, <3>3
  <2> QED BY <1>1, <2>3
<1>6. ASSUME NEW c \in 1 .. n
      PROVE  \/ Goto("wait")[c] = calls[c] /\ (c = n => calls[c].at # "wait")
             \/ /\ c = n /\ calls[c].op = "import"
                /\ Goto("wait")[c].op = "import" /\ Goto("wait")[c].at = "wait"
  <2>1. CASE c = n
    BY <1>2, <1>4, <1>5, <2>1
  <2>2. CASE c # n
    <3>1. c \in 1 .. n - 1
      BY <2>2
    <3> QED BY <1>5, <2>2, <3>1
  <2> QED BY <2>1, <2>2
<1> QED BY <1>1, <1>5, <1>6 DEF Around

\* What a new call on top of fs leaves as it was.
LEMMA PushCall ==
  ASSUME Inv, NEW fs, Around(fs), NEW e \in Frame, calls' = Append(fs, e),
         e.at # "wait", e.op = "import" => fs = calls, imports' = imports
  PROVE  LET n == Len(calls)
         IN /\ calls' \in Seq(Frame) /\ n \in Nat /\ Len(calls') = n + 1 /\ calls'[n + 1] = e
            /\ \A c \in 1 .. n : /\ calls'[c].op = calls[c].op
                                 /\ calls[c].op # "import" => calls'[c] = calls[c]
            /\ WaitOK'
<1>1. PICK n \in Nat : n = Len(calls)
  BY CallsType DEF Inv
<1>2. /\ calls' \in Seq(Frame) /\ Len(calls') = n + 1 /\ calls'[n + 1] = e
      /\ \A c \in 1 .. n : calls'[c] = fs[c]
  <2>1. fs \in Seq(Frame) /\ Len(fs) = n
    BY <1>1 DEF Around
  <2> HIDE DEF Frame
  <2> QED BY <2>1, AppendFacts
<1>3. \A c \in 1 .. n :
        \/ calls'[c] = calls[c] /\ (c = n => calls[c].at # "wait")
        \/ c = n /\ calls[c].op = "import" /\ calls'[c].op = "import" /\ calls'[c].at = "wait"
  BY <1>1, <1>2 DEF Around
<1>4. \A c \in 1 .. n : /\ calls'[c].op = calls[c].op
                        /\ calls[c].op # "import" => calls'[c] = calls[c]
  BY <1>3
<1>5. WaitOK'
  <2> SUFFICES ASSUME NEW c \in 1 .. n + 1, calls'[c].at = "wait"
               PROVE  /\ c < n + 1
                      /\ calls'[c].op = "import" => calls'[c + 1].op \in {"link", "evaluate"}
                      /\ calls'[c].op = "evaluate" =>
                           /\ calls'[c].node \in 1 .. Len(imports[calls'[c].module])
                           /\ calls'[c + 1].op = "evaluate"
                           /\ calls'[c + 1].module = imports[calls'[c].module][calls'[c].node]
    BY <1>2 DEF WaitOK
  <2>1. c # n + 1 /\ c \in 1 .. n
    BY <1>2
  <2>2. CASE c = n
    <3>1. calls'[c].op = "import" /\ calls'[c + 1] = e /\ calls'[c].at = "wait"
      BY <1>2, <1>3, <2>1, <2>2
    <3>2. e.op # "import"
      <4>1. fs[n].at = "wait"
        BY <1>2, <2>1, <2>2, <3>1
      <4>2. calls[n].at # "wait"
        BY <1>1, <2>1, <2>2 DEF Inv, WaitOK
      <4> QED BY <4>1, <4>2
    <3>3. e.op \in {"link", "evaluate"}
      BY <3>2, FrameKinds
    <3> QED BY <2>2, <3>1, <3>3
  <2>3. CASE c # n
    <3>a. calls'[c] = calls[c]
      BY <1>3, <2>1, <2>3
    <3>1. calls'[c] = calls[c] /\ c + 1 \in 1 .. n
      BY <2>1, <2>3, <3>a
    <3>2. /\ calls[c].op = "import" => calls[c + 1].op \in {"link", "evaluate"}
          /\ calls[c].op = "evaluate" =>
               /\ calls[c].node \in 1 .. Len(imports[calls[c].module])
               /\ calls[c + 1].op = "evaluate"
               /\ calls[c + 1].module = imports[calls[c].module][calls[c].node]
      BY <1>1, <2>1, <3>1 DEF Inv, WaitOK
    <3>3. calls'[c + 1].op = calls[c + 1].op
          /\ (calls[c + 1].op = "evaluate" => calls'[c + 1] = calls[c + 1])
      BY <1>4, <3>1
    <3>4. PICK d : d = calls[c] /\ d = calls'[c]
      BY <3>1
    <3>5. CASE d.op = "evaluate"
      <4>1. PICK x : x = calls[c + 1] /\ x = calls'[c + 1]
        BY <3>2, <3>3, <3>4, <3>5
      <4>2. /\ d.node \in 1 .. Len(imports[d.module])
            /\ x.op = "evaluate" /\ x.module = imports[d.module][d.node]
        BY <3>2, <3>4, <3>5, <4>1
      <4>3. d.op # "import" /\ c < n + 1
        BY <2>1, <3>5
      <4> QED BY <3>4, <4>1, <4>2, <4>3
    <3>6. CASE d.op # "evaluate"
      <4>1. c < n + 1
        BY <2>1
      <4>2. d.op = "import" => calls'[c + 1].op \in {"link", "evaluate"}
        BY <3>2, <3>3, <3>4
      <4> QED BY <3>4, <3>6, <4>1, <4>2
    <3> QED BY <3>5, <3>6
  <2> QED BY <2>2, <2>3
<1> QED BY <1>1, <1>2, <1>4, <1>5

\* A step outside links that starts none.
LEMMA OutsideStep ==
  ASSUME Inv, calls # <<>> => Top.op # "link", TypeOK', WaitOK', EvaluateOK',
         UNCHANGED <<imports, resolved, scope, phase>>,
         \A c \in 1 .. Len(calls') : calls'[c].op # "link",
         \A m \in Module : Done(m)' <=> Done(m),
         \A m \in Module : state'[m] = "linking" => state[m] = "linking"
  PROVE  Inv'
<1>1. LinkedClosed'
  BY ClosedNoLink
<1>2. LinkOK'
  BY NoLink DEF LinkOK
<1> QED BY <1>1, <1>2 DEF Inv

\* A link starts.
LEMMA LinkStart ==
  ASSUME Inv, calls # <<>> => Top.op # "link", NEW fs, Around(fs), NEW m \in Module,
         state[m] = "unlinked", Link(fs, m), UNCHANGED <<graphVars, ran, phase>>
  PROVE  Inv'
<1>1. PICK it : it = Item(m, 0, 0)
  OBVIOUS
<1>2. it \in ItemSet /\ it.module = m /\ it.parent = 0 /\ it.dfs = 0 /\ it.node = 1
  BY <1>1 DEF Item, ItemSet
<1>3. PICK s : s = <<it>>
  OBVIOUS
<1>4. s \in Seq(ItemSet) /\ Len(s) = 1 /\ s[1] = it
  <2> HIDE DEF ItemSet
  <2> QED BY <1>2, <1>3
<1>5. PICK g : g = [op |-> "link", at |-> "resolve", items |-> s, current |-> 1, index |-> 0]
  OBVIOUS
<1>6. /\ g \in LinkFrame /\ g.op = "link" /\ g.at = "resolve" /\ g.items = s
      /\ g.current = 1 /\ g.index = 0
  <2> HIDE DEF ItemSet
  <2> QED BY <1>4, <1>5 DEF LinkFrame
<1>7. calls' = Append(fs, g)
  BY <1>1, <1>3, <1>5 DEF Link
<1>8. PICK n \in Nat : n = Len(calls)
  BY CallsType DEF Inv
<1>9. g \in Frame /\ imports' = imports /\ resolved' = resolved /\ scope' = scope
      /\ ran' = ran /\ phase' = phase
  BY <1>6 DEF Frame, graphVars
<1>10. /\ calls' \in Seq(Frame) /\ Len(calls') = n + 1 /\ calls'[n + 1] = g
       /\ \A c \in 1 .. n : /\ calls'[c].op = calls[c].op
                            /\ calls[c].op # "import" => calls'[c] = calls[c]
       /\ WaitOK'
  BY <1>6, <1>7, <1>8, <1>9, PushCall
<1>11. /\ state \in [Module -> States] /\ state' = [state EXCEPT ![m] = "linking"]
       /\ ancestor \in [Module -> Nat] /\ ancestor' = [ancestor EXCEPT ![m] = 0]
  BY DEF Link, Inv, TypeOK
<1>12. /\ state' \in [Module -> States] /\ state'[m] = "linking"
       /\ \A x \in Module : x # m => state'[x] = state[x]
  BY <1>11 DEF States
<1>13. ancestor' \in [Module -> Nat] /\ ancestor'[m] = 0
  BY <1>11
<1>14. TypeOK'
  BY <1>9, <1>10, <1>12, <1>13 DEF Inv, TypeOK
<1>15. \A c \in 1 .. n : calls'[c].op # "link"
  BY <1>8, <1>10, NoLink
<1>a. /\ 1 .. Len(g.items) = {1} /\ 1 \in 1 .. Len(g.items)
      /\ \A k \in {1} : /\ g.items[k].module = m /\ g.items[k].parent = 0
                        /\ g.items[k].dfs = 0 /\ g.items[k].node = 1
  <2>1. Len(g.items) = 1 /\ g.items[1] = it
    BY <1>4, <1>6
  <2>2. 1 .. Len(g.items) = {1}
    BY <2>1
  <2> QED BY <1>2, <2>1, <2>2
<1>16. StackOK(g)' /\ RootOK(g)'
  <2>1. ItemsOK(g)'
    BY <1>a, <1>6 DEF ItemsOK
  <2>2. OrderOK(g)'
    BY <1>a DEF OrderOK
  <2>3. ItemStates(g)'
    BY <1>a, <1>6, <1>12 DEF ItemStates
  <2> QED BY <1>6, <2>1, <2>2, <2>3 DEF StackOK, RootOK
<1>b. PICK A : A = {1}
  OBVIOUS
<1>17. Path(g, A)'
  BY <1>a, <1>b, <1>6 DEF Path
<1>18. SearchOK(g, A)'
  <2>1. AncestorLow(g)'
    BY <1>a, <1>13 DEF AncestorLow
  <2>2. ResolvedOK(g)'
    BY <1>a, <1>6 DEF ResolvedOK
  <2>3. OffPathDone(g, A)' /\ OffPathLow(g, A)'
    BY <1>a, <1>b DEF OffPathDone, OffPathLow
  <2>4. SeenOK(g)'
    <3>1. Len(imports[m]) \in Nat
      BY ImportsType DEF Inv
    <3> SUFFICES ASSUME NEW k \in 1 .. Len(g.items), NEW i \in 1 .. Len(imports'[g.items[k].module]),
                        i < g.items[k].node
                 PROVE  FALSE
      BY DEF SeenOK
    <3>2. k \in {1}
      BY <1>a
    <3> QED BY <1>a, <1>9, <3>1, <3>2
  <2> QED BY <2>1, <2>2, <2>3, <2>4 DEF SearchOK
<1>19. LinkOK'
  <2>0. PICK q \in Nat : q = n + 1 /\ q \in 1 .. q /\ Len(calls') = q /\ calls'[q] = g
    BY <1>10
  <2>1. \A c \in 1 .. q : calls'[c].op = "link" => c = q
    BY <1>15, <2>0
  <2>2. \E B \in SUBSET (1 .. Len(g.items)) : Path(g, B)' /\ SearchOK(g, B)'
    <3>1. A \in SUBSET (1 .. Len(g.items))
      BY <1>a, <1>b
    <3> QED BY <1>17, <1>18, <3>1
  <2>3. ASSUME NEW x \in Module, state'[x] = "linking"
        PROVE  \E c \in 1 .. q :
                 /\ calls'[c].op = "link"
                 /\ \E k \in 1 .. Len(calls'[c].items) : calls'[c].items[k].module = x
    <3>1. x = m
      BY <1>12, <2>3, NoLink
    <3>2. \E k \in 1 .. Len(g.items) : g.items[k].module = x
      BY <1>a, <3>1
    <3> QED BY <1>6, <2>0, <3>2
  <2> QED BY <1>6, <1>16, <2>0, <2>1, <2>2, <2>3 DEF LinkOK
<1>20. EvaluateOK'
  <2>1. \A c \in 1 .. n : calls[c].op = "evaluate" => c \in 1 .. n + 1 /\ calls'[c] = calls[c]
    BY <1>10
  <2>2. \A c \in 1 .. n + 1 : calls'[c].op = "evaluate" => c \in 1 .. n /\ calls[c].op = "evaluate"
    <3>1. \A c \in 1 .. n + 1 : c \in 1 .. n \/ c = n + 1
      OBVIOUS
    <3> QED BY <1>6, <1>10, <3>1
  <2>3. \A x \in Module : state'[x] = state[x] \/ (state[x] \in Early /\ state'[x] \in Early)
    BY <1>12 DEF Early
  <2> QED BY <1>8, <1>9, <1>10, <2>1, <2>2, <2>3, EvaluateKept
<1>21. LinkedClosed'
  <2>1. \A x \in Module : Done(x)' <=> Done(x)
    BY <1>12 DEF Done
  <2> QED BY <1>9, <2>1, ClosedNoLink
<1> QED BY <1>10, <1>14, <1>19, <1>20, <1>21 DEF Inv

\* The call at the top of the stack.
LEMMA ImportTop ==
  ASSUME Inv, NEW at, In("import", at)
  PROVE  Top \in ImportFrame /\ Top.module \in Module
<1>1. PICK n \in Nat : n = Len(calls) /\ n > 0
  BY CallsLen DEF Inv, In
<1>2. Top = calls[n] /\ calls[n] \in Frame /\ Top.op = "import"
  BY <1>1, CallsType DEF Inv, In, Top
<1>3. Top \in ImportFrame
  BY <1>2, FrameKinds
<1> QED BY <1>3 DEF ImportFrame

LEMMA ApiLinkStep ==
  ASSUME Inv, ~LinkCallbacks, NEW m \in Module, ApiLink(m)
  PROVE  Inv'
<1>1. MayCall /\ state[m] = "unlinked" /\ Link(calls, m) /\ UNCHANGED <<graphVars, ran, phase>>
  BY DEF ApiLink
<1>2. (calls # <<>> => Top.op # "link") /\ (calls # <<>> => Top.at # "wait")
  BY <1>1, MayCallNoLink
<1>3. Around(calls)
  BY <1>2, AroundCalls
<1> QED BY <1>1, <1>2, <1>3, LinkStart

LEMMA ImportLinksStep ==
  ASSUME Inv, ImportLinks
  PROVE  Inv'
<1>1. /\ In("import", "ok") /\ state[Top.module] = "unlinked"
      /\ Link(Goto("wait"), Top.module) /\ UNCHANGED <<graphVars, ran, phase>>
  BY DEF ImportLinks
<1>2. Top.op # "link"
  BY <1>1 DEF In
<1>3. Around(Goto("wait"))
  BY <1>1, AroundImport
<1>4. Top.module \in Module
  BY <1>1, ImportTop
<1> QED BY <1>1, <1>2, <1>3, <1>4, LinkStart

LEMMA ImportStep ==
  ASSUME Inv, ~LinkCallbacks, NEW m \in Module, Import(m)
  PROVE  Inv'
<1>1. PICK e : e = [op |-> "import", at |-> "ok", module |-> m]
  OBVIOUS
<1>2. /\ MayCall /\ calls' = Append(calls, e)
      /\ imports' = imports /\ resolved' = resolved /\ scope' = scope /\ state' = state
      /\ ancestor' = ancestor /\ ran' = ran /\ phase' = phase
  BY <1>1 DEF Import, graphVars
<1>3. (calls # <<>> => Top.op # "link") /\ (calls # <<>> => Top.at # "wait")
  BY <1>2, MayCallNoLink
<1>4. Around(calls)
  BY <1>3, AroundCalls
<1>5. e \in Frame /\ e.op = "import" /\ e.at # "wait"
  BY <1>1 DEF Frame, ImportFrame
<1>6. PICK n \in Nat : n = Len(calls)
  BY CallsType DEF Inv
<1>7. /\ calls' \in Seq(Frame) /\ Len(calls') = n + 1 /\ calls'[n + 1] = e
      /\ \A c \in 1 .. n : /\ calls'[c].op = calls[c].op
                           /\ calls[c].op # "import" => calls'[c] = calls[c]
      /\ WaitOK'
  BY <1>2, <1>4, <1>5, <1>6, PushCall
<1>8. TypeOK'
  BY <1>2, <1>7 DEF Inv, TypeOK
<1>9. \A c \in 1 .. n + 1 : c \in 1 .. n \/ c = n + 1
  OBVIOUS
<1>10. EvaluateOK'
  <2>1. \A c \in 1 .. n : calls[c].op = "evaluate" => c \in 1 .. n + 1 /\ calls'[c] = calls[c]
    BY <1>7
  <2>2. \A c \in 1 .. n + 1 : calls'[c].op = "evaluate" => c \in 1 .. n /\ calls[c].op = "evaluate"
    BY <1>5, <1>7, <1>9
  <2> QED BY <1>2, <1>6, <1>7, <2>1, <2>2, EvaluateKept
<1>11. \A c \in 1 .. Len(calls') : calls'[c].op # "link"
  BY <1>3, <1>5, <1>6, <1>7, <1>9, NoLink
<1>12. /\ \A x \in Module : Done(x)' <=> Done(x)
       /\ \A x \in Module : state'[x] = "linking" => state[x] = "linking"
  BY <1>2 DEF Done
<1> QED BY <1>2, <1>3, <1>7, <1>8, <1>10, <1>11, <1>12, OutsideStep

-----------------------------------------------------------------------------
(* Steps of evaluations.                                                   *)

\* The evaluation of a linked module starts; the one below, if it starts it, has looked
\* at one import more.
LEMMA EvaluateStarts ==
  ASSUME Inv, calls # <<>> => Top.op # "link", NEW m \in Module, state[m] = "linked",
         NEW e, e = [op |-> "evaluate", at |-> "ok", module |-> m, node |-> 0],
         NEW n \in Nat, n = Len(calls), calls' \in Seq(Frame), Len(calls') = n + 1,
         calls'[n + 1] = e, WaitOK', state' = [state EXCEPT ![m] = "evaluating"],
         UNCHANGED <<imports, resolved, scope, ancestor, ran, phase>>,
         \A c \in 1 .. n : calls'[c].op = calls[c].op,
         \A c \in 1 .. n : calls[c].op = "evaluate" =>
           /\ calls'[c].module = calls[c].module
           /\ calls'[c] = calls[c] \/ EvaluateCall(c)'
  PROVE  Inv'
<1>1. \A c \in 1 .. n + 1 : c \in 1 .. n \/ c = n + 1
  OBVIOUS
<1>2. e.op = "evaluate" /\ e.at = "ok" /\ e.module = m /\ e.node = 0
  OBVIOUS
<1>3. /\ state \in [Module -> States] /\ state' \in [Module -> States]
      /\ state'[m] = "evaluating" /\ \A x \in Module : x # m => state'[x] = state[x]
  BY DEF Inv, TypeOK, States
<1>4. TypeOK'
  BY <1>3 DEF Inv, TypeOK
<1>5. \A c \in 1 .. n : calls[c].op = "evaluate" =>
        /\ calls[c] \in Frame /\ calls[c].module \in Module /\ EvaluateCall(c)
        /\ calls[c].module # m
  <2> SUFFICES ASSUME NEW c \in 1 .. n, calls[c].op = "evaluate"
               PROVE  /\ calls[c] \in Frame /\ calls[c].module \in Module /\ EvaluateCall(c)
                      /\ calls[c].module # m
    OBVIOUS
  <2>1. calls[c] \in Frame
    BY CallsType DEF Inv
  <2>2. calls[c].module \in Module
    BY <2>1, FrameKinds DEF EvaluateFrame
  <2>3. EvaluateCall(c)
    BY DEF Inv, EvaluateOK, EvaluateCalls
  <2>4. state[calls[c].module] # "linked"
    BY <2>3 DEF EvaluateCall
  <2> QED BY <2>1, <2>2, <2>3, <2>4
<1>6. EvaluateCalls'
  <2> SUFFICES ASSUME NEW c \in 1 .. n + 1, calls'[c].op = "evaluate" PROVE EvaluateCall(c)'
    BY DEF EvaluateCalls
  <2>1. CASE c = n + 1
    <3>1. ran[m] = 0
      BY DEF Inv, EvaluateOK, RanOnce
    <3>2. Len(imports[m]) \in Nat
      BY ImportsType DEF Inv
    <3>3. calls'[c] = e
      BY <2>1
    <3>4. \A i \in 1 .. e.node : FALSE
      BY <1>2
    <3> QED BY <1>2, <1>3, <3>1, <3>2, <3>3, <3>4 DEF EvaluateCall
  <2>2. CASE c \in 1 .. n
    <3>1. calls[c].op = "evaluate"
      BY <2>2
    <3>2. CASE EvaluateCall(c)'
      BY <3>2
    <3>3. CASE calls'[c] = calls[c]
      <4>1. \A b \in 1 .. c : b \in 1 .. n
        BY <2>2
      <4>2. \A b \in 1 .. c : calls[b].op = "evaluate" =>
              calls'[b].op = "evaluate" /\ calls'[b].module = calls[b].module
        BY <4>1
      <4>3. \A x \in Module : state[x] = "evaluated" => state'[x] = "evaluated"
        BY <1>3
      <4>4. calls[c] \in Frame /\ calls[c].module \in Module /\ EvaluateCall(c)
            /\ state'[calls[c].module] = state[calls[c].module]
        BY <1>3, <1>5, <2>2, <3>1
      <4>5. TypeOK /\ c \in 1 .. Len(calls) /\ ran' = ran /\ imports' = imports
        BY <2>2 DEF Inv
      <4> QED BY <3>1, <3>3, <4>2, <4>3, <4>4, <4>5, CallKeeps
    <3> QED BY <2>2, <3>1, <3>2, <3>3
  <2> QED BY <1>1, <2>1, <2>2
<1>7. CallsDistinct'
  <2> SUFFICES ASSUME NEW b \in 1 .. n + 1, NEW c \in 1 .. n + 1,
                      calls'[b].op = "evaluate", calls'[c].op = "evaluate",
                      calls'[b].module = calls'[c].module
               PROVE  b = c
    BY DEF CallsDistinct
  <2>1. \A a \in 1 .. n : calls'[a].op = "evaluate" =>
          /\ calls[a].op = "evaluate" /\ calls'[a].module = calls[a].module
          /\ calls'[a].module # m
    BY <1>5
  <2>2. CASE b \in 1 .. n /\ c \in 1 .. n
    BY <2>1, <2>2 DEF Inv, EvaluateOK, CallsDistinct
  <2>3. CASE b = n + 1 \/ c = n + 1
    BY <1>1, <1>2, <2>1, <2>3
  <2> QED BY <1>1, <2>2, <2>3
<1>8. EvaluatingOnStack'
  <2> SUFFICES ASSUME NEW x \in Module, state'[x] = "evaluating"
               PROVE  \E c \in 1 .. n + 1 : calls'[c].op = "evaluate" /\ calls'[c].module = x
    BY DEF EvaluatingOnStack
  <2>1. CASE x = m
    BY <1>2, <2>1
  <2>2. CASE x # m
    <3>1. PICK c \in 1 .. n : calls[c].op = "evaluate" /\ calls[c].module = x
      BY <1>3, <2>2 DEF Inv, EvaluateOK, EvaluatingOnStack
    <3> QED BY <3>1
  <2> QED BY <2>1, <2>2
<1>9. RanOnce'
  BY <1>3 DEF Inv, EvaluateOK, RanOnce
<1>10. EvaluateOK'
  BY <1>6, <1>7, <1>8, <1>9 DEF EvaluateOK
<1>11. \A c \in 1 .. Len(calls') : calls'[c].op # "link"
  BY <1>1, <1>2, NoLink
<1>12. /\ \A x \in Module : Done(x)' <=> Done(x)
       /\ \A x \in Module : state'[x] = "linking" => state[x] = "linking"
  BY <1>3 DEF Done
<1> QED BY <1>4, <1>10, <1>11, <1>12, OutsideStep

LEMMA EvaluateTop ==
  ASSUME Inv, NEW at, In("evaluate", at)
  PROVE  /\ calls # <<>> /\ Top.op = "evaluate" /\ Top.at = at /\ Top = calls[Len(calls)]
         /\ Top \in EvaluateFrame /\ Top.module \in Module /\ Top.node \in Nat
         /\ Len(calls) \in Nat /\ Len(calls) > 0 /\ EvaluateCall(Len(calls))
<1>1. PICK n \in Nat : n = Len(calls) /\ n > 0
  BY CallsLen DEF Inv, In
<1>2. Top = calls[n] /\ calls[n] \in Frame /\ Top.op = "evaluate"
  BY <1>1, CallsType DEF Inv, In, Top
<1>3. Top \in EvaluateFrame
  BY <1>2, FrameKinds
<1>4. EvaluateCall(n)
  BY <1>1, <1>2 DEF Inv, EvaluateOK, EvaluateCalls
<1> QED BY <1>1, <1>2, <1>3, <1>4 DEF EvaluateFrame, In

\* The evaluation at the top makes a step.
LEMMA EvaluateStep ==
  ASSUME Inv, calls # <<>>, Top.op = "evaluate", NEW n \in Nat, n = Len(calls), n > 0,
         NEW m \in Module, Top.module = m, NEW g \in EvaluateFrame, g.module = m, g.at # "wait",
         calls' \in Seq(Frame), Len(calls') = n, calls'[n] = g,
         \A c \in 1 .. n : c # n => calls'[c] = calls[c],
         EvaluateCall(n)', UNCHANGED <<imports, resolved, scope, ancestor, phase>>,
         state[m] = "evaluating", state' \in [Module -> States],
         state'[m] \in {"evaluating", "evaluated", "error"},
         \A x \in Module : x # m => state'[x] = state[x],
         ran' \in [Module -> Nat], ran'[m] <= 1,
         \A x \in Module : x # m => ran'[x] = ran[x]
  PROVE  Inv'
<1>1. TypeOK'
  BY DEF Inv, TypeOK
<1>2. g.op = "evaluate" /\ calls[n].op = "evaluate" /\ calls[n].module = m
  BY DEF EvaluateFrame, Top
<1>3. \A c \in 1 .. n : /\ calls'[c].op = calls[c].op
                        /\ calls[c].op = "evaluate" => calls'[c].module = calls[c].module
  BY <1>2
<1>4. WaitOK'
  <2> SUFFICES ASSUME NEW c \in 1 .. n, calls'[c].at = "wait"
               PROVE  /\ c < n
                      /\ calls'[c].op = "import" => calls'[c + 1].op \in {"link", "evaluate"}
                      /\ calls'[c].op = "evaluate" =>
                           /\ calls'[c].node \in 1 .. Len(imports[calls'[c].module])
                           /\ calls'[c + 1].op = "evaluate"
                           /\ calls'[c + 1].module = imports[calls'[c].module][calls'[c].node]
    BY DEF WaitOK
  <2>1. c # n
    OBVIOUS
  <2>2. PICK d : d = calls[c] /\ d = calls'[c]
    BY <2>1
  <2>3. /\ d.op = "import" => calls[c + 1].op \in {"link", "evaluate"}
        /\ d.op = "evaluate" =>
             /\ d.node \in 1 .. Len(imports[d.module])
             /\ calls[c + 1].op = "evaluate"
             /\ calls[c + 1].module = imports[d.module][d.node]
    BY <2>2 DEF Inv, WaitOK
  <2>4. c < n /\ c + 1 \in 1 .. n
    BY <2>1
  <2>5. /\ calls'[c + 1].op = calls[c + 1].op
        /\ calls[c + 1].op = "evaluate" => calls'[c + 1].module = calls[c + 1].module
    BY <1>3, <2>4
  <2> QED BY <2>2, <2>3, <2>4, <2>5
<1>5. EvaluateCalls'
  <2> SUFFICES ASSUME NEW c \in 1 .. n, calls'[c].op = "evaluate" PROVE EvaluateCall(c)'
    BY DEF EvaluateCalls
  <2>1. CASE c = n
    BY <2>1
  <2>2. CASE c # n
    <3>1. calls[c].op = "evaluate" /\ calls'[c] = calls[c]
      BY <1>3, <2>2
    <3>2. \A b \in 1 .. c : b \in 1 .. n
      OBVIOUS
    <3>3. \A b \in 1 .. c : calls[b].op = "evaluate" =>
            calls'[b].op = "evaluate" /\ calls'[b].module = calls[b].module
      BY <1>3, <3>2
    <3>4. calls[c] \in Frame
      BY CallsType DEF Inv
    <3>5. calls[c].module \in Module
      BY <3>1, <3>4, FrameKinds DEF EvaluateFrame
    <3>6. n \in 1 .. Len(calls) /\ c \in 1 .. Len(calls)
      OBVIOUS
    <3>7. calls[c].module # m
      BY <1>2, <2>2, <3>1, <3>6 DEF Inv, EvaluateOK, CallsDistinct
    <3>8. EvaluateCall(c)
      BY <3>1, <3>6 DEF Inv, EvaluateOK, EvaluateCalls
    <3>9. \A x \in Module : state[x] = "evaluated" => state'[x] = "evaluated"
      OBVIOUS
    <3>10. ran'[calls[c].module] = ran[calls[c].module]
           /\ state'[calls[c].module] = state[calls[c].module]
      BY <3>5, <3>7
    <3>11. TypeOK /\ imports' = imports
      BY DEF Inv
    <3> QED BY <3>1, <3>3, <3>4, <3>6, <3>8, <3>9, <3>10, <3>11, CallKeeps
  <2> QED BY <2>1, <2>2
<1>6. CallsDistinct'
  BY <1>3 DEF Inv, EvaluateOK, CallsDistinct
<1>7. EvaluatingOnStack'
  <2> SUFFICES ASSUME NEW x \in Module, state'[x] = "evaluating"
               PROVE  \E c \in 1 .. n : calls'[c].op = "evaluate" /\ calls'[c].module = x
    BY DEF EvaluatingOnStack
  <2>1. state[x] = "evaluating"
    OBVIOUS
  <2>2. PICK c \in 1 .. n : calls[c].op = "evaluate" /\ calls[c].module = x
    BY <2>1 DEF Inv, EvaluateOK, EvaluatingOnStack
  <2> QED BY <1>3, <2>2
<1>8. RanOnce'
  BY DEF Inv, EvaluateOK, RanOnce
<1>9. \A c \in 1 .. Len(calls') : calls'[c].op # "link"
  BY <1>3, NoLink
<1>10. /\ \A x \in Module : Done(x)' <=> Done(x)
       /\ \A x \in Module : state'[x] = "linking" => state[x] = "linking"
  BY DEF Done
<1>11. EvaluateOK'
  BY <1>5, <1>6, <1>7, <1>8 DEF EvaluateOK
<1>12. UNCHANGED <<imports, resolved, scope, phase>>
  OBVIOUS
<1> QED BY <1>1, <1>4, <1>9, <1>10, <1>11, <1>12, OutsideStep

\* The calls when the evaluation at the top goes to another place.
LEMMA GotoCalls ==
  ASSUME Inv, NEW at, In("evaluate", at), NEW g \in EvaluateFrame,
         calls' = Append(Below, g)
  PROVE  LET n == Len(calls)
         IN /\ calls' \in Seq(Frame) /\ Len(calls') = n /\ calls'[n] = g
            /\ \A c \in 1 .. n : c # n => calls'[c] = calls[c]
<1>1. PICK n \in Nat : n = Len(calls) /\ n > 0 /\ calls # <<>>
  BY CallsLen DEF Inv, In
<1>2. g \in Frame /\ calls \in Seq(Frame)
  BY DEF Frame, Inv, TypeOK
<1>3. /\ calls' \in Seq(Frame) /\ Len(calls') = n /\ calls'[n] = g
      /\ \A c \in 1 .. n - 1 : calls'[c] = calls[c]
  <2> HIDE DEF Frame
  <2> QED BY <1>1, <1>2, ReplaceLast DEF Below
<1>4. ASSUME NEW c \in 1 .. n, c # n PROVE c \in 1 .. n - 1
  BY <1>4
<1> QED BY <1>1, <1>3, <1>4

LEMMA EvaluateBodyStep ==
  ASSUME Inv, EvaluateBody
  PROVE  Inv'
<1>1. PICK g : g = [Top EXCEPT !.at = "body"]
  OBVIOUS
<1>2. PICK m : m = Top.module
  OBVIOUS
<1>3. /\ In("evaluate", "ok") /\ Top.node = Len(imports[m]) /\ calls' = Append(Below, g)
      /\ ran' = [ran EXCEPT ![m] = @ + 1] /\ state' = state
      /\ imports' = imports /\ resolved' = resolved /\ scope' = scope
      /\ ancestor' = ancestor /\ phase' = phase
  BY <1>1, <1>2 DEF EvaluateBody, Goto, graphVars
<1>4. PICK n \in Nat : /\ n = Len(calls) /\ n > 0 /\ calls # <<>> /\ Top = calls[n]
                       /\ Top.op = "evaluate" /\ Top.at = "ok" /\ Top \in EvaluateFrame
                       /\ m \in Module /\ Top.node \in Nat /\ EvaluateCall(n)
  BY <1>2, <1>3, EvaluateTop
<1>5. g \in EvaluateFrame /\ g.op = "evaluate" /\ g.module = m /\ g.at = "body" /\ g.node = Top.node
  BY <1>1, <1>2, <1>4 DEF EvaluateFrame
<1>6. /\ calls' \in Seq(Frame) /\ Len(calls') = n /\ calls'[n] = g
      /\ \A c \in 1 .. n : c # n => calls'[c] = calls[c]
  BY <1>3, <1>4, <1>5, GotoCalls
<1>7. /\ state[m] = "evaluating" /\ ran[m] = 0
      /\ \A i \in 1 .. Top.node : Ready(n, imports[m][i])
  BY <1>2, <1>4 DEF EvaluateCall
<1>8. /\ ran' \in [Module -> Nat] /\ ran'[m] = 1
      /\ \A x \in Module : x # m => ran'[x] = ran[x]
  BY <1>3, <1>4, <1>7 DEF Inv, TypeOK
<1>9. \A b \in 1 .. n : calls[b].op = "evaluate" =>
        calls'[b].op = "evaluate" /\ calls'[b].module = calls[b].module
  BY <1>2, <1>4, <1>5, <1>6
<1>10. ASSUME NEW i \in 1 .. Top.node PROVE Ready(n, imports[m][i])'
  <2>1. PICK t : t = imports[m][i] /\ Ready(n, t)
    BY <1>7
  <2>2. Ready(n, t)'
    BY <1>3, <1>9, <2>1 DEF Ready
  <2> QED BY <1>3, <2>1, <2>2
<1>11. EvaluateCall(n)'
  BY <1>3, <1>4, <1>5, <1>6, <1>7, <1>10 DEF EvaluateCall
<1>12. state' \in [Module -> States]
  BY <1>3 DEF Inv, TypeOK
<1>13. g.at # "wait" /\ UNCHANGED <<imports, resolved, scope, ancestor, phase>>
       /\ state'[m] \in {"evaluating", "evaluated", "error"} /\ ran'[m] <= 1
       /\ \A x \in Module : x # m => state'[x] = state[x]
  BY <1>3, <1>5, <1>7, <1>8
<1> QED BY <1>2, <1>4, <1>5, <1>6, <1>7, <1>8, <1>11, <1>12, <1>13, EvaluateStep, SMTT(60)

\* The evaluation ends with its module in state r.
LEMMA EvaluateFinishes ==
  ASSUME Inv, NEW at \in {"ok", "error", "body"}, In("evaluate", at),
         NEW r \in {"evaluated", "error"},
         state' = [state EXCEPT ![Top.module] = r], calls' = Goto("changed"),
         UNCHANGED <<imports, resolved, scope, ancestor, ran, phase>>
  PROVE  Inv'
<1>1. PICK g : g = [Top EXCEPT !.at = "changed"]
  OBVIOUS
<1>2. PICK m : m = Top.module
  OBVIOUS
<1>3. calls' = Append(Below, g) /\ state' = [state EXCEPT ![m] = r]
  BY <1>1, <1>2 DEF Goto
<1>4. PICK n \in Nat : /\ n = Len(calls) /\ n > 0 /\ calls # <<>> /\ Top = calls[n]
                       /\ Top.op = "evaluate" /\ Top.at = at /\ Top \in EvaluateFrame
                       /\ m \in Module /\ Top.node \in Nat /\ EvaluateCall(n)
  BY <1>2, EvaluateTop
<1>5. g \in EvaluateFrame /\ g.op = "evaluate" /\ g.module = m /\ g.at = "changed" /\ g.node = Top.node
  BY <1>1, <1>2, <1>4 DEF EvaluateFrame
<1>6. /\ calls' \in Seq(Frame) /\ Len(calls') = n /\ calls'[n] = g
      /\ \A c \in 1 .. n : c # n => calls'[c] = calls[c]
  BY <1>3, <1>4, <1>5, GotoCalls
<1>7. state[m] = "evaluating" /\ Top.node <= Len(imports[m])
  BY <1>2, <1>4 DEF EvaluateCall
<1>8. /\ state' \in [Module -> States] /\ state'[m] = r
      /\ \A x \in Module : x # m => state'[x] = state[x]
  BY <1>3, <1>4 DEF Inv, TypeOK, States
<1>9. ran' \in [Module -> Nat] /\ ran'[m] <= 1 /\ ran' = ran
  BY <1>4 DEF Inv, TypeOK, EvaluateOK, RanOnce
<1>10. EvaluateCall(n)'
  BY <1>5, <1>6, <1>7, <1>8 DEF EvaluateCall
<1> QED BY <1>2, <1>4, <1>5, <1>6, <1>7, <1>8, <1>9, <1>10, EvaluateStep

LEMMA EvaluateReturnsStep ==
  ASSUME Inv, EvaluateReturns
  PROVE  Inv'
<1>1. /\ In("evaluate", "body") /\ state' = [state EXCEPT ![Top.module] = "evaluated"]
      /\ calls' = Goto("changed") /\ UNCHANGED <<imports, resolved, scope, ancestor, ran, phase>>
  BY DEF EvaluateReturns, graphVars
<1> QED BY <1>1, EvaluateFinishes

LEMMA EvaluateFailsStep ==
  ASSUME Inv, EvaluateFails
  PROVE  Inv'
<1>1. PICK at \in {"error", "ok", "body"} : In("evaluate", at)
  BY DEF EvaluateFails
<1>2. /\ state' = [state EXCEPT ![Top.module] = "error"] /\ calls' = Goto("changed")
      /\ UNCHANGED <<imports, resolved, scope, ancestor, ran, phase>>
  BY DEF EvaluateFails, graphVars
<1> QED BY <1>1, <1>2, EvaluateFinishes

\* The call at the top ends with the result r, which a call below that waits for it gets.
LEMMA CallEnds ==
  ASSUME Inv, NEW l \in Nat, Len(calls) = l + 1, calls[l + 1].op # "link",
         calls[l + 1].op = "evaluate" => calls[l + 1].at = "changed",
         NEW r \in {"ok", "error"},
         r = "ok" /\ calls[l + 1].op = "evaluate" => state[calls[l + 1].module] = "evaluated",
         calls' \in Seq(Frame), Len(calls') = l,
         \A c \in 1 .. l : c < l \/ calls[c].at # "wait" => calls'[c] = calls[c],
         \A c \in 1 .. l : c = l /\ calls[c].at = "wait" => calls'[c] = [calls[c] EXCEPT !.at = r],
         UNCHANGED <<imports, resolved, state, scope, ancestor, ran, phase>>
  PROVE  Inv'
<1>1. TypeOK'
  BY DEF Inv, TypeOK
<1>2. calls # <<>> /\ Top.op # "link"
  BY CallsType DEF Inv, Top
<1>3. \A c \in 1 .. l : c \in 1 .. l + 1 /\ calls[c] \in Frame
  BY CallsType DEF Inv
<1>4. ASSUME NEW c \in 1 .. l, c = l, calls[c].at = "wait"
      PROVE  /\ calls'[c].op = calls[c].op /\ calls'[c].at = r
             /\ calls[c].op = "evaluate" => /\ calls'[c].module = calls[c].module
                                            /\ calls'[c].node = calls[c].node
  <2>1. calls[c] \in Frame
    BY <1>3
  <2>2. calls'[c] = [calls[c] EXCEPT !.at = r]
    BY <1>4
  <2>3. CASE calls[c].op = "evaluate"
    <3>1. calls[c] \in EvaluateFrame
      BY <2>1, <2>3, FrameKinds
    <3> QED BY <2>2, <3>1 DEF EvaluateFrame
  <2>4. CASE calls[c].op = "import"
    <3>1. calls[c] \in ImportFrame
      BY <2>1, <2>4, FrameKinds
    <3> QED BY <2>2, <2>4, <3>1 DEF ImportFrame
  <2>5. calls[c].op # "link"
    BY <1>3, <1>2, NoLink
  <2> QED BY <2>1, <2>3, <2>4, <2>5, FrameKinds
<1>5. \A c \in 1 .. l : /\ calls'[c].op = calls[c].op
                        /\ calls[c].op = "evaluate" => calls'[c].module = calls[c].module
  BY <1>4
<1>6. \A c \in 1 .. l : calls'[c].at = "wait" => c < l /\ calls'[c] = calls[c]
  BY <1>4
<1>7. WaitOK'
  <2> SUFFICES ASSUME NEW c \in 1 .. l, calls'[c].at = "wait"
               PROVE  /\ c < l
                      /\ calls'[c].op = "import" => calls'[c + 1].op \in {"link", "evaluate"}
                      /\ calls'[c].op = "evaluate" =>
                           /\ calls'[c].node \in 1 .. Len(imports[calls'[c].module])
                           /\ calls'[c + 1].op = "evaluate"
                           /\ calls'[c + 1].module = imports[calls'[c].module][calls'[c].node]
    BY DEF WaitOK
  <2>1. c < l /\ c + 1 \in 1 .. l /\ c \in 1 .. l + 1
    BY <1>6
  <2>2. PICK d : d = calls[c] /\ d = calls'[c]
    BY <1>6
  <2>3. /\ d.op = "import" => calls[c + 1].op \in {"link", "evaluate"}
        /\ d.op = "evaluate" =>
             /\ d.node \in 1 .. Len(imports[d.module])
             /\ calls[c + 1].op = "evaluate"
             /\ calls[c + 1].module = imports[d.module][d.node]
    BY <2>1, <2>2 DEF Inv, WaitOK
  <2>4. /\ calls'[c + 1].op = calls[c + 1].op
        /\ calls[c + 1].op = "evaluate" => calls'[c + 1].module = calls[c + 1].module
    BY <1>5, <2>1
  <2> QED BY <2>1, <2>2, <2>3, <2>4
<1>8. EvaluateCalls'
  <2> SUFFICES ASSUME NEW c \in 1 .. l, calls'[c].op = "evaluate" PROVE EvaluateCall(c)'
    BY DEF EvaluateCalls
  <2>1. c \in 1 .. l + 1 /\ calls[c] \in Frame /\ calls[c].op = "evaluate"
    BY <1>3, <1>5
  <2>2. EvaluateCall(c)
    BY <2>1 DEF Inv, EvaluateOK, EvaluateCalls
  <2>3. \A b \in 1 .. c : b \in 1 .. l
    OBVIOUS
  <2>4. \A b \in 1 .. c : calls[b].op = "evaluate" =>
          calls'[b].op = "evaluate" /\ calls'[b].module = calls[b].module
    BY <1>5, <2>3
  <2>5. CASE calls'[c] = calls[c]
    <3>1. TypeOK /\ imports' = imports /\ ran' = ran /\ state' = state
      BY DEF Inv
    <3> QED BY <2>1, <2>2, <2>4, <2>5, <3>1, CallKeeps
  <2>6. CASE c = l /\ calls[c].at = "wait"
    <3>1. PICK m : m = calls[c].module /\ m = calls'[c].module /\ m \in Module
      BY <1>5, <2>1, FrameKinds DEF EvaluateFrame
    <3>2. PICK k \in Nat : k = calls[c].node /\ k = calls'[c].node
      BY <1>4, <2>1, <2>6, FrameKinds DEF EvaluateFrame
    <3>3. /\ k \in 1 .. Len(imports[m])
          /\ calls[l + 1].op = "evaluate" /\ calls[l + 1].module = imports[m][k]
      <4>1. PICK d : d = calls[c] /\ d.op = "evaluate" /\ d.at = "wait" /\ d.module = m /\ d.node = k
        BY <2>1, <2>6, <3>1, <3>2, ZenonT(40)
      <4>2. /\ d.node \in 1 .. Len(imports[d.module]) /\ calls[c + 1].op = "evaluate"
            /\ calls[c + 1].module = imports[d.module][d.node]
        BY <2>1, <4>1 DEF Inv, WaitOK
      <4> QED BY <2>6, <4>1, <4>2
    <3>4. /\ k <= Len(imports[m]) /\ state[m] = "evaluating" /\ ran[m] = 0
          /\ \A i \in 1 .. k - 1 : Ready(c, imports[m][i])
      BY <2>2, <2>6, <3>1, <3>2 DEF EvaluateCall
    <3>5. calls'[c].at = r
      BY <1>4, <2>6
    <3>6. ASSUME r = "ok", NEW i \in 1 .. k PROVE Ready(c, imports[m][i])'
      <4>1. CASE i = k
        BY <3>3, <3>6, <4>1 DEF Ready
      <4>2. CASE i # k
        <5>1. i \in 1 .. k - 1
          BY <3>2, <4>2
        <5>2. PICK t : t = imports[m][i] /\ Ready(c, t)
          BY <3>4, <5>1
        <5>3. Ready(c, t)'
          BY <2>4, <5>2 DEF Ready
        <5> QED BY <5>2, <5>3
      <4> QED BY <4>1, <4>2
    <3> QED BY <3>1, <3>2, <3>4, <3>5, <3>6 DEF EvaluateCall
  <2> QED BY <2>5, <2>6
<1>9. CallsDistinct'
  BY <1>3, <1>5 DEF Inv, EvaluateOK, CallsDistinct
<1>10. EvaluatingOnStack'
  <2> SUFFICES ASSUME NEW x \in Module, state[x] = "evaluating"
               PROVE  \E c \in 1 .. l : calls'[c].op = "evaluate" /\ calls'[c].module = x
    BY DEF EvaluatingOnStack
  <2>1. PICK c \in 1 .. l + 1 : calls[c].op = "evaluate" /\ calls[c].module = x
    BY DEF Inv, EvaluateOK, EvaluatingOnStack
  <2>2. c # l + 1
    <3>1. EvaluateCall(c)
      BY <2>1 DEF Inv, EvaluateOK, EvaluateCalls
    <3>2. calls[c].at # "changed"
      BY <2>1, <3>1 DEF EvaluateCall
    <3> QED BY <2>1, <3>2
  <2>3. c \in 1 .. l
    BY <2>2
  <2> QED BY <1>5, <2>1, <2>3
<1>11. RanOnce'
  BY DEF Inv, EvaluateOK, RanOnce
<1>12. EvaluateOK'
  BY <1>8, <1>9, <1>10, <1>11 DEF EvaluateOK
<1>13. \A c \in 1 .. Len(calls') : calls'[c].op # "link"
  BY <1>2, <1>3, <1>5, NoLink
<1>14. /\ \A x \in Module : Done(x)' <=> Done(x)
       /\ \A x \in Module : state'[x] = "linking" => state[x] = "linking"
  BY DEF Done
<1>15. UNCHANGED <<imports, resolved, scope, phase>>
  OBVIOUS
<1> QED BY <1>1, <1>2, <1>7, <1>12, <1>13, <1>14, <1>15, OutsideStep

\* The calls below the one at the top.
LEMMA BelowCalls ==
  ASSUME Inv, calls # <<>>
  PROVE  \E l \in Nat : /\ Len(calls) = l + 1 /\ Top = calls[l + 1]
                        /\ Below \in Seq(Frame) /\ Len(Below) = l
                        /\ \A c \in 1 .. l : Below[c] = calls[c]
<1>1. PICK n \in Nat : n = Len(calls) /\ n > 0
  BY CallsLen DEF Inv
<1>2. PICK l \in Nat : n = l + 1 /\ l = n - 1
  BY <1>1
<1>3. /\ Below \in Seq(Frame) /\ Len(Below) = n - 1
      /\ \A c \in 1 .. n - 1 : Below[c] = calls[c]
  <2> HIDE DEF Frame
  <2> QED BY <1>1, FrontProperties DEF Below, Inv, TypeOK
<1> QED BY <1>1, <1>2, <1>3 DEF Top

LEMMA EvaluateEndsStep ==
  ASSUME Inv, EvaluateEnds
  PROVE  Inv'
<1>1. PICK r : r = IF state[Top.module] = "error" THEN "error" ELSE "ok"
  OBVIOUS
<1>2. /\ In("evaluate", "changed") /\ calls' = Return(Below, r)
      /\ UNCHANGED <<imports, resolved, state, scope, ancestor, ran, phase>>
  BY <1>1 DEF EvaluateEnds, graphVars
<1>3. /\ calls # <<>> /\ Top.op = "evaluate" /\ Top.at = "changed" /\ EvaluateCall(Len(calls))
  BY <1>2, EvaluateTop
<1>4. PICK l \in Nat : /\ Len(calls) = l + 1 /\ Top = calls[l + 1]
                       /\ Below \in Seq(Frame) /\ Len(Below) = l
                       /\ \A c \in 1 .. l : Below[c] = calls[c]
  BY <1>3, BelowCalls
<1>5. r \in {"ok", "error"} /\ (r = "ok" => state[calls[l + 1].module] = "evaluated")
  BY <1>1, <1>3, <1>4 DEF EvaluateCall
<1>6. /\ calls' \in Seq(Frame) /\ Len(calls') = l
      /\ \A c \in 1 .. l : c < l \/ Below[c].at # "wait" => calls'[c] = Below[c]
      /\ \A c \in 1 .. l : c = l /\ Below[c].at = "wait" => calls'[c] = [Below[c] EXCEPT !.at = r]
  BY <1>2, <1>4, <1>5, Returned
<1>7. /\ \A c \in 1 .. l : c < l \/ calls[c].at # "wait" => calls'[c] = calls[c]
      /\ \A c \in 1 .. l : c = l /\ calls[c].at = "wait" => calls'[c] = [calls[c] EXCEPT !.at = r]
  BY <1>4, <1>6
<1> QED BY <1>2, <1>3, <1>4, <1>5, <1>6, <1>7, CallEnds

LEMMA ImportEndsStep ==
  ASSUME Inv, ImportFulfills \/ ImportRejects
  PROVE  Inv'
<1>1. PICK at \in {"ok", "error"} : In("import", at)
  BY DEF ImportFulfills, ImportRejects
<1>2. calls' = Below /\ UNCHANGED <<imports, resolved, state, scope, ancestor, ran, phase>>
  BY DEF ImportFulfills, ImportRejects, graphVars
<1>3. calls # <<>> /\ Top.op = "import"
  BY <1>1 DEF In
<1>4. PICK l \in Nat : /\ Len(calls) = l + 1 /\ Top = calls[l + 1]
                       /\ Below \in Seq(Frame) /\ Len(Below) = l
                       /\ \A c \in 1 .. l : Below[c] = calls[c]
  BY <1>3, BelowCalls
<1>5. ASSUME NEW c \in 1 .. l, c = l PROVE calls[c].at # "wait"
  <2>1. c \in 1 .. l + 1 /\ calls[c] \in Frame
    BY <1>4, CallsType DEF Inv
  <2>2. calls[c].op \in {"evaluate", "import"}
    BY <1>3, <1>4, <2>1, FrameKinds, NoLink
  <2> QED BY <1>3, <1>4, <1>5, <2>1, <2>2 DEF Inv, WaitOK
<1>6. PICK r : r = "ok" /\ r \in {"ok", "error"}
  OBVIOUS
<1>7. /\ \A c \in 1 .. l : c < l \/ calls[c].at # "wait" => calls'[c] = calls[c]
      /\ \A c \in 1 .. l : c = l /\ calls[c].at = "wait" => calls'[c] = [calls[c] EXCEPT !.at = r]
  BY <1>2, <1>4, <1>5
<1>8. calls' \in Seq(Frame) /\ Len(calls') = l
  BY <1>2, <1>4
<1> QED BY <1>2, <1>3, <1>4, <1>6, <1>7, <1>8, CallEnds

\* A linked module is evaluated by a call of the API or an import.
LEMMA EvaluateCalled ==
  ASSUME Inv, calls # <<>> => Top.op # "link", NEW fs, Around(fs), NEW m \in Module,
         state[m] = "linked", Evaluate(fs, m), UNCHANGED <<graphVars, ancestor, ran>>
  PROVE  Inv'
<1>1. PICK e : e = [op |-> "evaluate", at |-> "ok", module |-> m, node |-> 0]
  OBVIOUS
<1>2. /\ state' = [state EXCEPT ![m] = "evaluating"] /\ calls' = Append(fs, e) /\ phase' = phase
      /\ imports' = imports /\ UNCHANGED <<imports, resolved, scope, ancestor, ran, phase>>
  BY <1>1 DEF Evaluate, Evaluated, graphVars
<1>3. e \in Frame /\ e.op = "evaluate" /\ e.at # "wait"
  BY <1>1 DEF Frame, EvaluateFrame
<1>4. PICK n \in Nat : n = Len(calls)
  BY CallsType DEF Inv
<1>5. /\ calls' \in Seq(Frame) /\ Len(calls') = n + 1 /\ calls'[n + 1] = e
      /\ \A c \in 1 .. n : /\ calls'[c].op = calls[c].op
                           /\ calls[c].op # "import" => calls'[c] = calls[c]
      /\ WaitOK'
  BY <1>2, <1>3, <1>4, PushCall
<1>6. /\ \A c \in 1 .. n : calls'[c].op = calls[c].op
      /\ \A c \in 1 .. n : calls[c].op = "evaluate" =>
           /\ calls'[c].module = calls[c].module
           /\ calls'[c] = calls[c] \/ EvaluateCall(c)'
  BY <1>5
<1> QED BY <1>1, <1>2, <1>4, <1>5, <1>6, EvaluateStarts

LEMMA ApiEvaluateStep ==
  ASSUME Inv, ~LinkCallbacks, NEW m \in Module, ApiEvaluate(m)
  PROVE  Inv'
<1>1. MayCall /\ state[m] = "linked" /\ Evaluate(calls, m) /\ UNCHANGED <<graphVars, ancestor, ran>>
  BY DEF ApiEvaluate
<1>2. (calls # <<>> => Top.op # "link") /\ (calls # <<>> => Top.at # "wait")
  BY <1>1, MayCallNoLink
<1>3. Around(calls)
  BY <1>2, AroundCalls
<1> QED BY <1>1, <1>2, <1>3, EvaluateCalled

LEMMA ImportEvaluatesStep ==
  ASSUME Inv, ImportEvaluates
  PROVE  Inv'
<1>1. /\ In("import", "ok") /\ state[Top.module] = "linked"
      /\ Evaluate(Goto("wait"), Top.module) /\ UNCHANGED <<graphVars, ancestor, ran>>
  BY DEF ImportEvaluates
<1>2. Top.op # "link"
  BY <1>1 DEF In
<1>3. Around(Goto("wait"))
  BY <1>1, AroundImport
<1>4. Top.module \in Module
  BY <1>1, ImportTop
<1> QED BY <1>1, <1>2, <1>3, <1>4, EvaluateCalled

\* What an evaluation enters for an import is linked, evaluated or in error.
LEMMA ImportedState ==
  ASSUME Inv, NEW at, In("evaluate", at), NEW i \in 1 .. Len(imports[Top.module]),
         state[Top.module] = "evaluating"
  PROVE  /\ imports[Top.module][i] \in Module
         /\ state[imports[Top.module][i]] \in {"linked", "evaluating", "evaluated", "error"}
<1>1. PICK m \in Module : m = Top.module
  BY EvaluateTop
<1>2. PICK t \in Module : t = imports[m][i] /\ i \in DOMAIN imports[m]
  BY <1>1, ImportsType DEF Inv
<1>3. Done(m)
  BY <1>1 DEF Done
<1>4. ClosedAt(m)
  BY <1>3, ClosedDef DEF Inv
<1>5. calls # <<>> /\ Top.op # "link"
  BY EvaluateTop
<1>6. state[t] # "linking" /\ state[t] # "unlinked"
  BY <1>2, <1>4, <1>5, NoLink DEF ClosedAt
<1>7. state[t] \in States
  BY <1>2 DEF Inv, TypeOK
<1> QED BY <1>1, <1>2, <1>6, <1>7 DEF States

LEMMA EvaluateImportStep ==
  ASSUME Inv, EvaluateImport
  PROVE  Inv'
<1>1. PICK m : m = Top.module
  OBVIOUS
<1>2. PICK n \in Nat : /\ n = Len(calls) /\ n > 0 /\ calls # <<>> /\ Top = calls[n]
                       /\ Top.op = "evaluate" /\ Top.at = "ok" /\ Top \in EvaluateFrame
                       /\ m \in Module /\ Top.node \in Nat /\ EvaluateCall(n)
                       /\ In("evaluate", "ok")
  BY <1>1, EvaluateTop DEF EvaluateImport
<1>3. PICK k \in Nat : k = Top.node + 1 /\ Top.node = k - 1
  BY <1>2
<1>4. PICK t : t = imports[m][k]
  OBVIOUS
<1>5. PICK f : f = [Top EXCEPT !.at = "wait", !.node = @ + 1]
  OBVIOUS
<1>6. PICK fs : fs = Append(Below, f)
  OBVIOUS
<1>7. /\ k <= Len(imports[m]) /\ Evaluate(fs, t)
      /\ UNCHANGED <<graphVars, ancestor, ran>>
  <2>1. Len(imports[m]) \in Nat
    BY <1>2, ImportsType DEF Inv
  <2>2. Top.node < Len(imports[m])
    BY <1>1 DEF EvaluateImport
  <2>3. /\ Evaluate(Append(Below, [Top EXCEPT !.at = "wait", !.node = @ + 1]),
                   imports[Top.module][Top.node + 1])
        /\ UNCHANGED <<graphVars, ancestor, ran>>
    BY DEF EvaluateImport
  <2>4. t = imports[Top.module][Top.node + 1]
    BY <1>1, <1>3, <1>4
  <2>5. Evaluate(fs, t)
    BY <1>5, <1>6, <2>3, <2>4, Zenon
  <2> QED BY <1>2, <1>3, <2>1, <2>2, <2>3, <2>5
<1>8. /\ f \in EvaluateFrame /\ f.op = "evaluate" /\ f.at = "wait" /\ f.module = m /\ f.node = k
  BY <1>1, <1>2, <1>3, <1>5 DEF EvaluateFrame
<1>9. /\ fs \in Seq(Frame) /\ fs # <<>> /\ Len(fs) = n /\ fs[n] = f
      /\ \A c \in 1 .. n : c # n => fs[c] = calls[c]
  <2>1. f \in Frame /\ calls \in Seq(Frame)
    BY <1>8 DEF Frame, Inv, TypeOK
  <2> HIDE DEF Frame
  <2>2. /\ fs \in Seq(Frame) /\ fs # <<>> /\ Len(fs) = n /\ fs[n] = f
        /\ \A c \in 1 .. n - 1 : fs[c] = calls[c]
    BY <1>2, <1>6, <2>1, ReplaceLast DEF Below
  <2>3. ASSUME NEW c \in 1 .. n, c # n PROVE c \in 1 .. n - 1
    BY <2>3
  <2> QED BY <2>2, <2>3
<1>10. /\ state[m] = "evaluating" /\ ran[m] = 0
       /\ \A i \in 1 .. k - 1 : Ready(n, imports[m][i])
  BY <1>1, <1>2, <1>3 DEF EvaluateCall
<1>11. k \in 1 .. Len(imports[m]) /\ Len(imports[m]) \in Nat
  <2>1. Len(imports[m]) \in Nat
    BY <1>2, ImportsType DEF Inv
  <2> QED BY <1>3, <1>2, <1>7, <2>1
<1>12. t \in Module /\ state[t] \in {"linked", "evaluating", "evaluated", "error"}
  BY <1>1, <1>2, <1>4, <1>10, <1>11, ImportedState
<1>13. UNCHANGED <<imports, resolved, scope, ancestor, ran>>
  BY <1>7 DEF graphVars
<1>14. CASE state[t] = "linked"
  <2>1. PICK e : e = [op |-> "evaluate", at |-> "ok", module |-> t, node |-> 0]
    OBVIOUS
  <2>2. state' = [state EXCEPT ![t] = "evaluating"] /\ calls' = Append(fs, e) /\ phase' = phase
    BY <1>7, <1>14, <2>1 DEF Evaluate, Evaluated
  <2>3. e \in Frame /\ e.op = "evaluate" /\ e.at # "wait" /\ e.module = t
    BY <1>12, <2>1 DEF Frame, EvaluateFrame
  <2>4. /\ calls' \in Seq(Frame) /\ Len(calls') = n + 1 /\ calls'[n + 1] = e
        /\ \A c \in 1 .. n : calls'[c] = fs[c]
    <3> HIDE DEF Frame
    <3> QED BY <1>9, <2>2, <2>3, AppendFacts
  <2>5. calls'[n] = f /\ \A c \in 1 .. n : c # n => calls'[c] = calls[c]
    BY <1>2, <1>9, <2>4
  <2>6. \A c \in 1 .. n : calls'[c].op = calls[c].op
    BY <1>2, <1>8, <2>5
  <2>7. WaitOK'
    <3> SUFFICES ASSUME NEW c \in 1 .. n + 1, calls'[c].at = "wait"
                 PROVE  /\ c < n + 1
                        /\ calls'[c].op = "import" => calls'[c + 1].op \in {"link", "evaluate"}
                        /\ calls'[c].op = "evaluate" =>
                             /\ calls'[c].node \in 1 .. Len(imports[calls'[c].module])
                             /\ calls'[c + 1].op = "evaluate"
                             /\ calls'[c + 1].module = imports[calls'[c].module][calls'[c].node]
      BY <1>13, <2>4 DEF WaitOK
    <3>1. c \in 1 .. n
      BY <2>3, <2>4
    <3>2. CASE c = n
      <4>1. calls'[c] = f /\ calls'[c + 1] = e
        BY <2>4, <2>5, <3>2
      <4> QED BY <1>4, <1>8, <1>11, <2>3, <3>2, <4>1
    <3>3. CASE c # n
      <4>1. PICK d : d = calls[c] /\ d = calls'[c]
        BY <2>5, <3>1, <3>3
      <4>2. c + 1 \in 1 .. n /\ c < n + 1 /\ c \in 1 .. Len(calls)
        BY <1>2, <3>1, <3>3
      <4>3. /\ d.op = "import" => calls[c + 1].op \in {"link", "evaluate"}
            /\ d.op = "evaluate" =>
                 /\ d.node \in 1 .. Len(imports[d.module])
                 /\ calls[c + 1].op = "evaluate"
                 /\ calls[c + 1].module = imports[d.module][d.node]
        BY <4>1, <4>2 DEF Inv, WaitOK
      <4>4. /\ calls'[c + 1].op = calls[c + 1].op
            /\ calls[c + 1].op = "evaluate" => calls'[c + 1].module = calls[c + 1].module
        BY <1>1, <1>2, <1>8, <2>5, <2>6, <4>2
      <4> QED BY <4>1, <4>2, <4>3, <4>4
    <3> QED BY <3>2, <3>3
  <2>8. EvaluateCall(n)'
    <3>1. t # m /\ state'[m] = "evaluating"
      BY <1>2, <1>10, <1>14, <2>2 DEF Inv, TypeOK
    <3>2. ASSUME NEW i \in 1 .. k - 1 PROVE Ready(n, imports[m][i])'
      <4>1. PICK x : x = imports[m][i] /\ Ready(n, x)
        BY <1>10
      <4>2. state[x] = "evaluated" => state'[x] = "evaluated"
        <5>1. i \in 1 .. Len(imports[m])
          BY <1>11
        <5>2. x \in Module
          BY <1>2, <4>1, <5>1, ImportsType DEF Inv
        <5> QED BY <1>14, <2>2, <5>2 DEF Inv, TypeOK
      <4>3. \A b \in 1 .. n : calls[b].op = "evaluate" =>
              calls'[b].op = "evaluate" /\ calls'[b].module = calls[b].module
        BY <1>1, <1>2, <1>8, <2>5, <2>6
      <4>4. Ready(n, x)'
        BY <4>1, <4>2, <4>3 DEF Ready
      <4> QED BY <1>13, <4>1, <4>4
    <3> QED BY <1>8, <1>10, <1>11, <1>13, <2>5, <3>1, <3>2 DEF EvaluateCall
  <2>9. \A c \in 1 .. n : calls[c].op = "evaluate" =>
          /\ calls'[c].module = calls[c].module
          /\ calls'[c] = calls[c] \/ EvaluateCall(c)'
    <3> SUFFICES ASSUME NEW c \in 1 .. n, calls[c].op = "evaluate"
                 PROVE  /\ calls'[c].module = calls[c].module
                        /\ calls'[c] = calls[c] \/ EvaluateCall(c)'
      OBVIOUS
    <3>1. CASE c = n
      BY <1>1, <1>2, <1>8, <2>5, <2>8, <3>1
    <3>2. CASE c # n
      BY <2>5, <3>2
    <3> QED BY <3>1, <3>2
  <2>10. Top.op # "link" /\ UNCHANGED <<imports, resolved, scope, ancestor, ran, phase>>
    BY <1>2, <1>13, <2>2
  <2> QED BY <1>2, <1>12, <1>14, <2>1, <2>2, <2>4, <2>6, <2>7, <2>9, <2>10, EvaluateStarts
<1>15. CASE state[t] # "linked"
  <2>1. PICK r \in {"ok", "error"} : /\ calls' = Return(fs, r) /\ state' = state /\ phase' = phase
                                     /\ r = "ok" => state[t] \in Evaluated
    <3>1. CASE state[t] = "error"
      BY <1>7, <3>1 DEF Evaluate, Evaluated
    <3>2. CASE state[t] \in Evaluated
      BY <1>7, <3>2 DEF Evaluate, Evaluated
    <3> QED BY <1>12, <1>15, <3>1, <3>2 DEF Evaluated
  <2>2. PICK g : g = [f EXCEPT !.at = r]
    OBVIOUS
  <2>3. /\ g \in EvaluateFrame /\ g.op = "evaluate" /\ g.at = r /\ g.module = m /\ g.node = k
        /\ g.at # "wait"
    BY <1>8, <2>2 DEF EvaluateFrame
  <2>4. /\ calls' \in Seq(Frame) /\ Len(calls') = n
        /\ \A c \in 1 .. n : c < n \/ fs[c].at # "wait" => calls'[c] = fs[c]
        /\ \A c \in 1 .. n : c = n /\ fs[c].at = "wait" => calls'[c] = [fs[c] EXCEPT !.at = r]
    BY <1>9, <2>1, Returned
  <2>5. calls'[n] = g /\ \A c \in 1 .. n : c # n => calls'[c] = calls[c]
    BY <1>2, <1>8, <1>9, <2>2, <2>4
  <2>6. ASSUME r = "ok", NEW i \in 1 .. k PROVE Ready(n, imports[m][i])'
    <3>1. \A b \in 1 .. n : calls[b].op = "evaluate" =>
            calls'[b].op = "evaluate" /\ calls'[b].module = calls[b].module
      BY <1>1, <1>2, <2>3, <2>5
    <3>2. Ready(n, imports[m][i])
      <4>1. CASE i = k
        BY <1>2, <1>4, <1>12, <2>1, <2>6, <4>1 DEF Inv, EvaluateOK, EvaluatingOnStack, Ready, Evaluated
      <4>2. CASE i # k
        <5>1. i \in 1 .. k - 1
          BY <4>2
        <5> QED BY <1>10, <5>1
      <4> QED BY <4>1, <4>2
    <3>3. PICK x : x = imports[m][i] /\ Ready(n, x)
      BY <3>2
    <3>4. Ready(n, x)'
      BY <2>1, <3>1, <3>3 DEF Ready
    <3> QED BY <1>13, <3>3, <3>4
  <2>7. EvaluateCall(n)'
    BY <1>10, <1>11, <1>13, <2>1, <2>3, <2>5, <2>6 DEF EvaluateCall
  <2>8. /\ state' \in [Module -> States] /\ ran' \in [Module -> Nat] /\ ran'[m] <= 1
        /\ state'[m] = "evaluating"
        /\ UNCHANGED <<imports, resolved, scope, ancestor, phase>> /\ ran' = ran
    BY <1>10, <1>13, <2>1 DEF Inv, TypeOK
  <2> QED BY <1>1, <1>2, <1>10, <2>1, <2>3, <2>4, <2>5, <2>7, <2>8, EvaluateStep
<1> QED BY <1>14, <1>15

-----------------------------------------------------------------------------
(* The theorems.                                                           *)

LEMMA InitInv == Init => Inv
<1> SUFFICES ASSUME Init PROVE Inv
  OBVIOUS
<1>1. Requests \subseteq Seq(Module)
  <2> SUFFICES ASSUME NEW s \in Requests PROVE s \in Seq(Module)
    OBVIOUS
  <2>1. PICK n \in 0 .. MaxImports : s \in [1 .. n -> Module]
    BY DEF Requests
  <2>2. n \in Nat
    BY BoundsAssumption
  <2> QED BY <2>1, <2>2
<1>2. calls = <<>> /\ Len(calls) = 0 /\ calls \in Seq(Frame) /\ phase # "assert"
  <2> HIDE DEF Frame
  <2> QED BY EmptySeq DEF Init
<1>3. \A m \in Module : state[m] = "unlinked" /\ ran[m] = 0
  BY DEF Init
<1>4. TypeOK
  BY <1>1, <1>2 DEF Init, TypeOK, States
<1>5. LinkOK /\ WaitOK
  BY <1>2, <1>3 DEF LinkOK, WaitOK
<1>6. EvaluateOK
  BY <1>2, <1>3 DEF EvaluateOK, EvaluateCalls, CallsDistinct, EvaluatingOnStack, RanOnce
<1>7. LinkedClosed
  BY <1>2, <1>3 DEF LinkedClosed
<1> QED BY <1>4, <1>5, <1>6, <1>7 DEF Inv

\* A step that changes nothing.
LEMMA InvStutter ==
  ASSUME Inv, UNCHANGED vars
  PROVE  Inv'
<1>1. /\ imports' = imports /\ resolved' = resolved /\ scope' = scope /\ state' = state
      /\ ancestor' = ancestor /\ calls' = calls /\ ran' = ran /\ phase' = phase
  BY DEF vars, graphVars
<1>2. TypeOK'
  BY <1>1 DEF Inv, TypeOK
<1>3. LinkOK'
  <2>1. ASSUME NEW f, StackOK(f), RootOK(f) PROVE StackOK(f)' /\ RootOK(f)'
    <3>1. ItemsOK(f)' /\ OrderOK(f)'
      BY <2>1 DEF StackOK, ItemsOK, OrderOK
    <3>2. ItemStates(f)'
      BY <1>1, <2>1 DEF StackOK, ItemStates
    <3>3. RootOK(f)'
      BY <1>1, <2>1 DEF RootOK
    <3> QED BY <3>1, <3>2, <3>3 DEF StackOK
  <2>2. ASSUME NEW f, NEW A, Path(f, A), SearchOK(f, A) PROVE Path(f, A)' /\ SearchOK(f, A)'
    <3>1. Path(f, A)'
      BY <2>2 DEF Path
    <3>2. AncestorLow(f)' /\ ResolvedOK(f)'
      BY <1>1, <2>2 DEF SearchOK, AncestorLow, ResolvedOK, Unresolved
    <3>3. OffPathDone(f, A)' /\ OffPathLow(f, A)'
      BY <1>1, <2>2 DEF SearchOK, OffPathDone, OffPathLow
    <3>4. SeenOK(f)'
      BY <1>1, <2>2 DEF SearchOK, SeenOK
    <3> QED BY <3>1, <3>2, <3>3, <3>4 DEF SearchOK
  <2>3. ASSUME NEW c \in 1 .. Len(calls), calls[c].op = "link"
        PROVE  /\ c = Len(calls)
               /\ StackOK(calls[c])' /\ RootOK(calls[c])'
               /\ \E A \in SUBSET (1 .. Len(calls[c].items)) :
                    Path(calls[c], A)' /\ SearchOK(calls[c], A)'
    <3>1. PICK f : f = calls[c] /\ f = calls'[c]
      BY <1>1
    <3>2. c = Len(calls) /\ StackOK(f) /\ RootOK(f)
      BY <2>3, <3>1 DEF Inv, LinkOK
    <3>3. PICK A \in SUBSET (1 .. Len(f.items)) : Path(f, A) /\ SearchOK(f, A)
      BY <2>3, <3>1 DEF Inv, LinkOK
    <3>4. StackOK(f)' /\ RootOK(f)' /\ Path(f, A)' /\ SearchOK(f, A)'
      BY <2>1, <2>2, <3>2, <3>3
    <3> QED BY <3>1, <3>2, <3>3, <3>4
  <2>4. \A m \in Module : state[m] = "linking" =>
          \E c \in 1 .. Len(calls) :
            /\ calls[c].op = "link"
            /\ \E k \in 1 .. Len(calls[c].items) : calls[c].items[k].module = m
    BY DEF Inv, LinkOK
  <2> QED BY <1>1, <2>3, <2>4 DEF LinkOK
<1>4. WaitOK'
  BY <1>1 DEF Inv, WaitOK
<1>5. EvaluateOK'
  BY <1>1 DEF Inv, EvaluateOK, EvaluateCalls, EvaluateCall, Ready, CallsDistinct,
              EvaluatingOnStack, RanOnce
<1>6. LinkedClosed'
  BY <1>1 DEF Inv, LinkedClosed, Unresolved
<1> QED BY <1>2, <1>3, <1>4, <1>5, <1>6 DEF Inv

LEMMA NextInv ==
  ASSUME ~LinkCallbacks, Inv, [Next]_vars
  PROVE  Inv'
<1>1. ASSUME NEW m \in Module, ApiLink(m) PROVE Inv'
  BY <1>1, ApiLinkStep
<1>2. ASSUME NEW m \in Module, ApiEvaluate(m) PROVE Inv'
  BY <1>2, ApiEvaluateStep
<1>3. ASSUME NEW m \in Module, Import(m) PROVE Inv'
  BY <1>3, ImportStep
<1>4. CASE ResolveRequest \/ RequestsResolved \/ CallbackFails \/ CallbackReturns
  BY <1>4, ResolveSteps
<1>5. CASE VisitUnlinked
  BY <1>5, VisitUnlinkedStep
<1>6. CASE VisitOther
  BY <1>6, VisitOtherStep
<1>7. CASE BackToParent
  BY <1>7, BackToParentStep
<1>8. CASE ComponentFound
  BY <1>8, ComponentFoundStep
<1>9. CASE NextLinked
  BY <1>9, NextLinkedStep
<1>10. CASE EvaluateImport
  BY <1>10, EvaluateImportStep
<1>11. CASE EvaluateBody
  BY <1>11, EvaluateBodyStep
<1>12. CASE EvaluateReturns
  BY <1>12, EvaluateReturnsStep
<1>13. CASE EvaluateFails
  BY <1>13, EvaluateFailsStep
<1>14. CASE EvaluateEnds
  BY <1>14, EvaluateEndsStep
<1>15. CASE ImportLinks
  BY <1>15, ImportLinksStep
<1>16. CASE ImportEvaluates
  BY <1>16, ImportEvaluatesStep
<1>17. CASE ImportFulfills \/ ImportRejects
  BY <1>17, ImportEndsStep
<1>18. CASE UNCHANGED vars
  BY <1>18, InvStutter
<1> QED BY <1>1, <1>2, <1>3, <1>4, <1>5, <1>6, <1>7, <1>8, <1>9, <1>10, <1>11, <1>12, <1>13,
           <1>14, <1>15, <1>16, <1>17, <1>18 DEF Next, User, UserReturns, Engine

\* If the callbacks of a link do not link or evaluate, the stack of the search, the
\* calls that wait and the evaluations stay consistent, and what is linked is closed.
THEOREM ModuleInvariant == ASSUME ~LinkCallbacks PROVE Spec => []Inv
<1>1. Init => Inv
  BY InitInv
<1>2. Inv /\ [Next]_vars => Inv'
  BY NextInv
<1> QED BY <1>1, <1>2, PTL DEF Spec

\* A linked module needs only modules that are linked or in the component that is being
\* reported, with their scopes, and ecma_module_evaluate meets the states it asserts.
THEOREM ModuleLinkedClosed == ASSUME ~LinkCallbacks PROVE Spec => []LinkedClosed
<1>1. Inv => LinkedClosed
  BY DEF Inv
<1> QED BY <1>1, ModuleInvariant, PTL

\* Every body runs once and after those it imports from, except in a cycle.
THEOREM ModuleBodiesInOrder == ASSUME ~LinkCallbacks PROVE Spec => []BodiesInOrder
<1>1. ASSUME Inv PROVE BodiesInOrder
  <2>1. \A m \in Module : ran[m] <= 1
    BY <1>1 DEF Inv, EvaluateOK, RanOnce
  <2>2. DOMAIN calls = 1 .. Len(calls)
    BY <1>1, CallsType DEF Inv
  <2>3. ASSUME NEW c \in 1 .. Len(calls), calls[c].at = "body"
        PROVE  \A i \in DOMAIN imports[calls[c].module] : Ready(c, imports[calls[c].module][i])
    <3>1. calls[c] \in Frame
      BY <1>1, CallsType DEF Inv
    <3>2. calls[c].op = "evaluate" /\ calls[c].module \in Module
      BY <2>3, <3>1, FrameKinds DEF LinkFrame, EvaluateFrame, ImportFrame
    <3>3. EvaluateCall(c)
      BY <1>1, <3>2 DEF Inv, EvaluateOK, EvaluateCalls
    <3>4. DOMAIN imports[calls[c].module] = 1 .. Len(imports[calls[c].module])
      BY <1>1, <3>2, ImportsType DEF Inv
    <3> QED BY <2>3, <3>3, <3>4 DEF EvaluateCall
  <2> QED BY <2>1, <2>2, <2>3 DEF BodiesInOrder, Ready
<1>2. Inv => BodiesInOrder
  BY <1>1
<1> QED BY <1>2, ModuleInvariant, PTL

\* A module is being linked exactly if it is once on the stack of the search.
THEOREM ModuleLinkingOnStack == ASSUME ~LinkCallbacks PROVE Spec => []LinkingOnStack
<1>1. ASSUME Inv PROVE LinkingOnStack
  <2> DEFINE links == {c \in DOMAIN calls : calls[c].op = "link"}
             Waiting(c) == {k \in DOMAIN calls[c].items :
                              calls[c].at = "linked" => k < Len(calls[c].items)}
             ItemsOf(m) == UNION {{<<c, k>> : k \in {k \in Waiting(c) :
                                     calls[c].items[k].module = m}} : c \in links}
  <2>1. DOMAIN calls = 1 .. Len(calls)
    BY <1>1, CallsType DEF Inv
  <2>2. ASSUME NEW c \in links
        PROVE  /\ c \in 1 .. Len(calls) /\ c = Len(calls) /\ Len(calls[c].items) \in Nat
               /\ DOMAIN calls[c].items = 1 .. Len(calls[c].items)
               /\ StackOK(calls[c])
    <3>1. c \in 1 .. Len(calls) /\ calls[c].op = "link"
      BY <2>1
    <3>2. calls[c] \in Frame
      BY <1>1, <3>1, CallsType DEF Inv
    <3>3. calls[c] \in LinkFrame
      BY <3>1, <3>2, FrameKinds
    <3>4. calls[c].items \in Seq(ItemSet)
      BY <3>3, ItemsType
    <3>5. Len(calls[c].items) \in Nat /\ DOMAIN calls[c].items = 1 .. Len(calls[c].items)
      BY <3>4, LenProperties
    <3> QED BY <1>1, <3>1, <3>5 DEF Inv, LinkOK
  <2>3. ASSUME NEW c \in links, NEW k \in Waiting(c)
        PROVE  state[calls[c].items[k].module] = "linking"
    <3>1. PICK f : f = calls[c] /\ k \in 1 .. Len(f.items) /\ ItemStates(f)
                   /\ Len(f.items) \in Nat /\ (f.at = "linked" => k < Len(f.items))
      BY <2>2 DEF StackOK
    <3>2. f.at # "linked" \/ k # Len(f.items)
      BY <3>1
    <3> QED BY <3>1, <3>2 DEF ItemStates
  <2>4. ASSUME NEW m \in Module, state[m] # "linking" PROVE Cardinality(ItemsOf(m)) = 0
    <3>1. ItemsOf(m) = {}
      BY <2>3, <2>4
    <3> QED BY <3>1, FS_EmptySet
  <2>5. ASSUME NEW m \in Module, state[m] = "linking" PROVE Cardinality(ItemsOf(m)) = 1
    <3>1. PICK c \in 1 .. Len(calls) : /\ calls[c].op = "link"
                                       /\ \E k \in 1 .. Len(calls[c].items) : calls[c].items[k].module = m
      BY <1>1, <2>5 DEF Inv, LinkOK
    <3>2. PICK k \in 1 .. Len(calls[c].items) : calls[c].items[k].module = m
      BY <3>1
    <3>3. c \in links
      BY <2>1, <3>1
    <3>4. PICK f : f = calls[c]
      OBVIOUS
    <3>5. /\ ItemStates(f) /\ OrderOK(f) /\ Len(f.items) \in Nat
          /\ DOMAIN f.items = 1 .. Len(f.items) /\ k \in 1 .. Len(f.items) /\ f.items[k].module = m
      BY <2>2, <3>2, <3>3, <3>4 DEF StackOK
    <3>6. f.at = "linked" => k < Len(f.items)
      <4>1. f.at = "linked" => k # Len(f.items)
        BY <2>5, <3>5 DEF ItemStates
      <4> QED BY <3>5, <4>1
    <3>7. k \in Waiting(c)
      BY <3>4, <3>5, <3>6
    <3>8. \A d \in links : d = c
      BY <2>2, <3>3
    <3>9. \A j \in Waiting(c) : calls[c].items[j].module = m => j = k
      <4> SUFFICES ASSUME NEW j \in 1 .. Len(f.items), f.items[j].module = m PROVE j = k
        BY <3>4, <3>5
      <4>1. ~(j < k) /\ ~(k < j)
        BY <3>5 DEF OrderOK
      <4> QED BY <3>5, <4>1
    <3>10. ItemsOf(m) = {<<c, k>>}
      <4>1. <<c, k>> \in ItemsOf(m)
        BY <3>2, <3>3, <3>7
      <4>2. ASSUME NEW p \in ItemsOf(m) PROVE p = <<c, k>>
        <5>1. PICK d \in links : p \in {<<d, j>> : j \in {j \in Waiting(d) : calls[d].items[j].module = m}}
          OBVIOUS
        <5>2. PICK j \in Waiting(d) : p = <<d, j>> /\ calls[d].items[j].module = m
          BY <5>1
        <5>3. d = c
          BY <3>8
        <5>4. j = k
          BY <3>9, <5>2, <5>3
        <5> QED BY <5>2, <5>3, <5>4
      <4> QED BY <4>1, <4>2
    <3> QED BY <3>10, FS_Singleton
  <2> QED BY <2>4, <2>5 DEF LinkingOnStack
<1>2. Inv => LinkingOnStack
  BY <1>1
<1> QED BY <1>2, ModuleInvariant, PTL

-----------------------------------------------------------------------------
(***************************************************************************)
(* Export resolution and namespace objects, for every finite set of        *)
(* modules and names with any star exports between them, if indirect       *)
(* exports keep the name (~Renames) and none of them leads back to itself  *)
(* (~Circular; without either the properties are false).                   *)
(***************************************************************************)
-----------------------------------------------------------------------------
(* The inductive invariant.                                                *)

FrameSet == [pair : Pairs, resolving : BOOLEAN]

Typed ==
  /\ star \in [Exporter -> Seq(Exporter)]
  /\ export \in [Pairs -> {Local, NotExported} \cup Pairs]
  /\ root \in Exporter
  /\ task \in {"resolve", "namespace", "done", "failed"}
  /\ asked \in {None} \cup Pairs
  /\ frames \in Seq(FrameSet)
  /\ resolve_set \subseteq Exporter \X (Name \cup {"*"})
  /\ found \in BOOLEAN
  /\ record \in {None} \cup Pairs
  /\ todo \in Seq(Exporter)
  /\ visited \subseteq Exporter
  /\ visiting \in Exporter
  /\ names \subseteq Name
  /\ entries \subseteq Name \X Pairs

\* The tables of exports do not change: indirect exports keep the name, have one
\* binding and do not lead back to themselves.
GraphOK ==
  \A p, q \in Pairs : export[p] = q =>
    /\ q[2] = p[2]
    /\ Cardinality(Bindings(p)) = 1
    /\ p \notin Reachable(q)

Seen == resolve_set \cap Pairs
PairAt(i) == frames[i].pair

\* A frame that is being resolved was met once, and its indirect export is the
\* frame above it or was met before.
FrameOK(a, i) ==
  /\ PairAt(i) \in Reachable(a) /\ PairAt(i)[2] = a[2]
  /\ frames[i].resolving =>
       /\ PairAt(i) \in Seen /\ export[PairAt(i)] # Local
       /\ <<PairAt(i)[1], "*">> \notin resolve_set
       /\ \A j \in 1 .. Len(frames) :
            frames[j].resolving /\ PairAt(j) = PairAt(i) => j = i
       /\ i = Len(frames) \/ export[PairAt(i)] \in Pairs
       /\ export[PairAt(i)] \in Pairs =>
            \/ export[PairAt(i)] \in Seen
            \/ i < Len(frames) /\ PairAt(i + 1) = export[PairAt(i)]
  /\ a[2] = "default" /\ i < Len(frames) => frames[i].resolving

FramesOK(a) == \A i \in 1 .. Len(frames) : FrameOK(a, i)

\* The top frame, whose star exports come next.
Waits(v) == frames # <<>> /\ ResolveTop.resolving /\ ResolveTop.pair = v /\ export[v] \notin Pairs

\* Where a pair v leads has been met as well, or is on the stack, and then
\* everything above it was reached from v.
NoGap(v) ==
  \A w \in Leads(v) :
    w \in Seen \/ \E j \in 1 .. Len(frames) :
                    /\ PairAt(j) = w
                    /\ \A i \in j .. Len(frames) : PairAt(i) \in Reachable(v)

\* As long as nothing is found the search has no gap.
PathOK(a) ==
  ~found =>
    /\ \A v \in Seen : export[v] # Local
    /\ a \in Seen \/ \E i \in 1 .. Len(frames) : PairAt(i) = a
    /\ \A v \in Seen : Waits(v) \/ NoGap(v)

FoundOK(a) ==
  found => IF record = None
             THEN \E p, q \in Bindings(a) : p # q
             ELSE record \in Bindings(a) /\ record \in Seen

\* The search for the pair a.
ResolutionOK(a) ==
  /\ a[1] = root
  /\ Seen \subseteq Reachable(a)
  /\ \A m \in Exporter : <<m, "*">> \in resolve_set => <<m, a[2]>> \in Seen
  /\ FramesOK(a) /\ PathOK(a) /\ FoundOK(a)
  /\ task = "failed" /\ frames # <<>> => ~found /\ Bindings(a) = {}

Searches == \A a \in Pairs : asked = a => ResolutionOK(a)

\* A module that star exports of r lead to: its names are names of r.
Served(r, m) ==
  \A n \in Name \ {"default"} :
    <<m, n>> \in Reachable(<<r, n>>) \/ Bindings(<<r, n>>) # {}

\* The namespace object of r: the stack of modules, then the names.
SpaceOK(r) ==
  /\ asked = None => frames = <<>>
  /\ task \in {"resolve", "failed"} => visited = {}
  /\ visited = {} => names = {} /\ (task = "namespace" => asked = None /\ todo = <<r>>)
  /\ visited # {} => r \in visited
  /\ visited # {} /\ task = "done" => names = {} /\ todo = <<>> /\ asked = None
  /\ \A m \in visited :
       /\ Served(r, m)
       /\ \A s \in Stars(m) : s \in visited \/ \E i \in 1 .. Len(todo) : todo[i] = s
  /\ \A i \in 1 .. Len(todo) : \A m \in Exporter : todo[i] = m => Served(r, m)

NamesOK(r) ==
  /\ \A n \in names : Bindings(<<r, n>>) # {}
  /\ visited # {} => \A a \in Pairs : asked = a => Bindings(a) # {}
  /\ \A m \in visited : \A n \in ExportedBy(m) :
       \/ n = "default" /\ m # r
       \/ n \in names \/ n \in Handled \/ asked = <<r, n>>
       \/ Cardinality(Bindings(<<r, n>>)) # 1
  /\ \A n \in Name : \A b \in Pairs : <<n, b>> \in entries => b \in Bindings(<<r, n>>)

Spaces == \A r \in Exporter : root = r => SpaceOK(r) /\ NamesOK(r)

ExportsInv == Typed /\ GraphOK /\ Searches /\ Spaces

-----------------------------------------------------------------------------
(* Reachability.                                                           *)

LEMMA LeadsPairs ==
  ASSUME Typed, NEW p \in Pairs
  PROVE  Leads(p) \subseteq Pairs
<1>1. \A s \in Stars(p[1]) : s \in Exporter
  <2>1. p[1] \in Exporter /\ star[p[1]] \in Seq(Exporter)
    BY DEF Typed, Pairs
  <2> QED BY <2>1 DEF Stars
<1>2. p[2] \in Name
  BY DEF Pairs
<1>3. CASE export[p] = Local
  BY <1>3 DEF Leads
<1>4. CASE export[p] # Local /\ export[p] \in Pairs
  BY <1>4 DEF Leads
<1>5. CASE export[p] # Local /\ export[p] \notin Pairs
  <2>1. Leads(p) = {<<s, p[2]>> : s \in IF p[2] = "default" THEN {} ELSE Stars(p[1])}
    BY <1>5 DEF Leads
  <2> QED BY <2>1, <1>1, <1>2 DEF Pairs
<1> QED BY <1>3, <1>4, <1>5

LEMMA ReachRefl ==
  ASSUME NEW p \in Pairs
  PROVE  p \in Reachable(p)
  BY DEF Reachable

LEMMA ReachIn ==
  ASSUME NEW p \in Pairs, NEW S \in SUBSET Pairs, p \in S, Closed(S)
  PROVE  Reachable(p) \subseteq S
  BY DEF Reachable

LEMMA ReachStep ==
  ASSUME Typed, NEW p \in Pairs, NEW q \in Reachable(p), NEW w \in Leads(q)
  PROVE  w \in Reachable(p)
<1>1. q \in Pairs
  BY DEF Reachable
<1>2. w \in Pairs
  BY <1>1, LeadsPairs
<1> QED BY <1>1, <1>2 DEF Reachable, Closed

LEMMA ReachTrans ==
  ASSUME Typed, NEW p \in Pairs, NEW q \in Reachable(p)
  PROVE  Reachable(q) \subseteq Reachable(p)
<1>1. q \in Pairs /\ Reachable(p) \in SUBSET Pairs
  BY DEF Reachable
<1>2. Closed(Reachable(p))
  BY ReachStep DEF Closed
<1> QED BY <1>1, <1>2, ReachIn

\* The three kinds of exports.
LEMMA Kinds ==
  /\ Local \notin Pairs /\ NotExported \notin Pairs /\ Local # NotExported
  /\ None \notin Pairs
  BY DEF Local, NotExported, Pairs, None

LEMMA BindingsOf ==
  ASSUME Typed, NEW p \in Pairs
  PROVE  /\ Bindings(p) \subseteq Reachable(p) /\ Reachable(p) \subseteq Pairs
         /\ \A q \in Reachable(p) : export[q] = Local => q \in Bindings(p)
         /\ \A q \in Bindings(p) : export[q] = Local
  BY DEF Bindings, Reachable

LEMMA OneBinding ==
  ASSUME Typed, NEW p \in Pairs
  PROVE  Cardinality(Bindings(p)) = 1 <=> \E b : Bindings(p) = {b}
<1>1. IsFiniteSet(Pairs)
  BY ExportsAssumption, FS_Product DEF Pairs
<1>2. IsFiniteSet(Bindings(p))
  BY <1>1, BindingsOf, FS_Subset
<1> QED BY <1>2, FS_Singleton

\* What the pair of an indirect export stands for.
LEMMA IndirectReach ==
  ASSUME Typed, NEW p \in Pairs, export[p] \in Pairs
  PROVE  /\ Reachable(p) \subseteq {p} \cup Reachable(export[p])
         /\ Bindings(p) \subseteq Bindings(export[p])
         /\ export[p] \in Reachable(p)
<1> DEFINE S == {p} \cup Reachable(export[p])
<1>1. Leads(p) = {export[p]} /\ export[p] \in Pairs /\ export[p] # Local
  BY Kinds DEF Leads
<1>2. Closed(S)
  BY <1>1, ReachStep, ReachRefl DEF Closed
<1>3. S \in SUBSET Pairs
  BY <1>1, BindingsOf
<1>4. Reachable(p) \subseteq S
  BY <1>2, <1>3, ReachIn
<1>5. Bindings(p) \subseteq Bindings(export[p])
  BY <1>4, <1>1, BindingsOf
<1> QED BY <1>1, <1>4, <1>5, ReachRefl, ReachStep

\* The tables of exports are constant, and so is what is defined from them.
LEMMA Fixed ==
  ASSUME exportVars' = exportVars
  PROVE  /\ export' = export /\ star' = star
         /\ \A p : Leads(p)' = Leads(p)
         /\ \A p : Reachable(p)' = Reachable(p)
         /\ \A p : Bindings(p)' = Bindings(p)
         /\ \A m : Stars(m)' = Stars(m)
         /\ \A m : ExportedBy(m)' = ExportedBy(m)
<1>1. export' = export /\ star' = star
  BY DEF exportVars
<1>2. \A p : Leads(p)' = Leads(p)
  BY <1>1 DEF Leads, Stars
<1>3. \A p : Reachable(p)' = Reachable(p)
  BY <1>2 DEF Reachable, Closed
<1>4. \A p : Bindings(p)' = Bindings(p)
  BY <1>1, <1>3 DEF Bindings
<1> QED BY <1>1, <1>2, <1>3, <1>4 DEF Stars, ExportedBy

-----------------------------------------------------------------------------
(* The stack of frames.                                                    *)

Size == Len(frames)

LEMMA TopFrame ==
  ASSUME Typed, frames # <<>>
  PROVE  /\ Size \in Nat /\ Size > 0 /\ Size \in 1 .. Size
         /\ frames[Size] = ResolveTop /\ ResolveTop \in FrameSet
         /\ PairAt(Size) = ResolveTop.pair /\ ResolveTop.pair \in Pairs
         /\ ResolveTop.resolving \in BOOLEAN
<1>1. Size \in Nat /\ Size > 0
  BY EmptyLen DEF Typed, Size
<1>2. ResolveTop \in FrameSet
  BY <1>1 DEF Typed, Size, ResolveTop
<1> QED BY <1>1, <1>2 DEF Size, ResolveTop, PairAt, FrameSet

LEMMA BelowFrames ==
  ASSUME Typed, frames # <<>>
  PROVE  /\ ResolveBelow \in Seq(FrameSet) /\ Len(ResolveBelow) = Size - 1
         /\ \A i \in 1 .. Size - 1 : ResolveBelow[i] = frames[i]
  BY FrontProperties DEF Typed, Size, ResolveBelow

\* Names of pairs are not the mark of star exports.
LEMMA NotStar ==
  ASSUME NEW p \in Pairs, NEW m
  PROVE  p # <<m, "*">> /\ <<m, "*">> \notin Pairs
  BY ExportsAssumption DEF Pairs

\* A frame is taken off the stack.
LEMMA PopFrames ==
  ASSUME Typed, NEW a \in Pairs, FramesOK(a), frames # <<>>, frames' = ResolveBelow,
         resolve_set' = resolve_set \cup {ResolveTop.pair}, exportVars' = exportVars
  PROVE  FramesOK(a)'
<1>1. /\ Size \in Nat /\ Size > 0 /\ PairAt(Size) = ResolveTop.pair /\ ResolveTop.pair \in Pairs
      /\ Len(frames') = Size - 1 /\ Size = Len(frames)
      /\ \A i \in 1 .. Size - 1 : frames'[i] = frames[i] /\ i \in 1 .. Size /\ i < Size
  BY TopFrame, BelowFrames DEF Size
<1>2. Seen' = Seen \cup {ResolveTop.pair} /\ Seen \subseteq Seen'
  BY <1>1 DEF Seen
<1>3. \A m : <<m, "*">> \in resolve_set' => <<m, "*">> \in resolve_set
  BY <1>1, NotStar
<1>4. \A k \in 1 .. Size - 1 : PairAt(k)' = PairAt(k)
  BY <1>1 DEF PairAt
<1>5. export' = export /\ Reachable(a)' = Reachable(a)
  BY Fixed
<1>6. ASSUME NEW i \in 1 .. Size - 1 PROVE FrameOK(a, i)'
  <2>1. FrameOK(a, i) /\ i < Size
    BY <1>1 DEF FramesOK
  <2>2. export[PairAt(i)] \in Pairs /\ frames[i].resolving =>
          export[PairAt(i)] \in Seen' \/ (i < Size - 1 /\ PairAt(i + 1)' = export[PairAt(i)])
    <3>1. CASE i = Size - 1
      BY <3>1, <1>1, <1>2, <2>1 DEF FrameOK
    <3>2. CASE i < Size - 1
      BY <3>2, <1>1, <1>2, <1>4, <2>1 DEF FrameOK
    <3> QED BY <1>1, <3>1, <3>2
  <2>3. ASSUME frames'[i].resolving, NEW j \in 1 .. Size - 1, frames'[j].resolving,
               PairAt(j)' = PairAt(i)'
        PROVE  j = i
    <3>1. /\ frames[i].resolving /\ frames[j].resolving /\ PairAt(j) = PairAt(i)
          /\ j \in 1 .. Len(frames)
      BY <2>3, <1>1, <1>4
    <3> QED BY <3>1, <2>1 DEF FrameOK
  <2>4. i < Size - 1 => i + 1 \in 1 .. Size - 1
    BY <1>1
  <2>5. frames'[i] = frames[i] /\ PairAt(i)' = PairAt(i)
    BY <1>1, <1>4
  <2> QED BY <1>1, <1>2, <1>3, <1>5, <2>1, <2>2, <2>3, <2>5 DEF FrameOK
<1> QED BY <1>1, <1>6 DEF FramesOK

\* A pair met before is met again: the search has no new gap.
LEMMA PopPath ==
  ASSUME Typed, NEW a \in Pairs, PathOK(a), frames # <<>>, frames' = ResolveBelow,
         resolve_set' = resolve_set, found' = found, ~ResolveTop.resolving,
         ResolveTop.pair \in resolve_set, exportVars' = exportVars
  PROVE  PathOK(a)'
<1> SUFFICES ASSUME ~found
             PROVE  /\ \A v \in Seen' : export'[v] # Local
                    /\ a \in Seen' \/ \E i \in 1 .. Len(frames') : PairAt(i)' = a
                    /\ \A v \in Seen' : NoGap(v)'
  BY DEF PathOK
<1>1. /\ Size \in Nat /\ Size > 0 /\ PairAt(Size) = ResolveTop.pair /\ ResolveTop.pair \in Pairs
      /\ Len(frames') = Size - 1 /\ Size = Len(frames)
      /\ \A i \in 1 .. Size - 1 : PairAt(i)' = PairAt(i) /\ i \in 1 .. Size
  BY TopFrame, BelowFrames DEF Size, PairAt
<1>2. Seen' = Seen /\ ResolveTop.pair \in Seen
  BY <1>1 DEF Seen
<1>3. export' = export /\ (\A p : Leads(p)' = Leads(p)) /\ \A p : Reachable(p)' = Reachable(p)
  BY Fixed
<1>4. a \in Seen \/ \E i \in 1 .. Size - 1 : PairAt(i) = a
  BY <1>1, <1>2 DEF PathOK
<1>5. ASSUME NEW v \in Seen PROVE NoGap(v)'
  <2>1. NoGap(v)
    BY DEF PathOK, Waits
  <2> SUFFICES ASSUME NEW w \in Leads(v), w \notin Seen
               PROVE  \E j \in 1 .. Size - 1 :
                        /\ PairAt(j)' = w
                        /\ \A i \in j .. Size - 1 : PairAt(i)' \in Reachable(v)
    BY <1>1, <1>2, <1>3 DEF NoGap
  <2>2. PICK j \in 1 .. Size : PairAt(j) = w /\ \A i \in j .. Size : PairAt(i) \in Reachable(v)
    BY <2>1, <1>1 DEF NoGap
  <2>3. j # Size
    BY <2>2, <1>1, <1>2
  <2> QED BY <2>2, <2>3, <1>1
<1> QED BY <1>1, <1>2, <1>3, <1>4, <1>5 DEF PathOK

\* When an indirect export is the top frame again, what it leads to has been
\* searched, since it does not lead back to the frames below: something was found.
LEMMA IndirectFinds ==
  ASSUME Typed, GraphOK, NEW a \in Pairs, FramesOK(a), PathOK(a), frames # <<>>,
         ResolveTop.resolving, ~found
  PROVE  export[ResolveTop.pair] = NotExported
<1> DEFINE p == ResolveTop.pair
<1>1. /\ Size \in Nat /\ Size > 0 /\ Size \in 1 .. Size /\ Size = Len(frames)
      /\ PairAt(Size) = p /\ p \in Pairs /\ frames[Size] = ResolveTop
  BY TopFrame DEF Size
<1>2. export[p] # Local
  BY <1>1 DEF FramesOK, FrameOK
<1>3. SUFFICES ASSUME export[p] \in Pairs PROVE FALSE
  BY <1>1, <1>2 DEF Typed
<1>4. PICK q \in Pairs : export[p] = q
  BY <1>3
<1> DEFINE V == Seen \cap Reachable(q)
<1>5. Cardinality(Bindings(p)) = 1 /\ p \notin Reachable(q)
  BY <1>1, <1>4 DEF GraphOK
<1>6. q \in V
  <2>1. FrameOK(a, Size)
    BY <1>1 DEF FramesOK
  <2>2. q \in Seen
    BY <2>1, <1>1, <1>4 DEF FrameOK
  <2> QED BY <2>2, ReachRefl
<1>7. Closed(V)
  <2> SUFFICES ASSUME NEW v \in V, NEW w \in Leads(v) PROVE w \in V
    BY DEF Closed
  <2>1. w \in Reachable(q)
    BY ReachStep
  <2>2. v # p
    BY <1>5
  <2>3. NoGap(v)
    BY <2>2 DEF PathOK, Waits
  <2>4. ASSUME w \notin Seen PROVE FALSE
    <3>1. PICK j \in 1 .. Size : \A i \in j .. Size : PairAt(i) \in Reachable(v)
      BY <2>3, <2>4, <1>1 DEF NoGap
    <3>2. p \in Reachable(v)
      BY <3>1, <1>1
    <3> QED BY <3>2, <1>5, ReachTrans
  <2> QED BY <2>1, <2>4
<1>8. Reachable(q) \subseteq V
  BY <1>6, <1>7, ReachIn DEF Seen
<1>9. Bindings(q) = {}
  BY <1>8, BindingsOf DEF PathOK
<1>10. Bindings(p) = {}
  BY <1>1, <1>3, <1>4, <1>9, IndirectReach
<1> QED BY <1>1, <1>5, <1>10, OneBinding

\* A search that is over, or that only has frames it has met, and that found
\* nothing, has met everything the pair leads to.
LEMMA NothingThere ==
  ASSUME Typed, NEW a \in Pairs, PathOK(a), ~found,
         \A i \in 1 .. Len(frames) : PairAt(i) \in Seen,
         \A v \in Seen : Waits(v) => Leads(v) = {}
  PROVE  Bindings(a) = {}
<1>1. a \in Seen
  BY DEF PathOK
<1>2. Closed(Seen)
  BY DEF PathOK, NoGap, Closed
<1>3. Reachable(a) \subseteq Seen
  BY <1>1, <1>2, ReachIn DEF Seen
<1> QED BY <1>3, BindingsOf DEF PathOK

\* A new frame stays, with its indirect export above it.
LEMMA ExpandShape ==
  ASSUME Typed, frames # <<>>,
         frames' = Append(ResolveBelow, [ResolveTop EXCEPT !.resolving = TRUE])
                     \o (IF export[ResolveTop.pair] \in Pairs
                           THEN <<ResolveFrame(export[ResolveTop.pair])>> ELSE <<>>)
  PROVE  /\ frames' \in Seq(FrameSet)
         /\ Len(frames') = IF export[ResolveTop.pair] \in Pairs THEN Size + 1 ELSE Size
         /\ \A i \in 1 .. Size - 1 : frames'[i] = frames[i]
         /\ frames'[Size].pair = ResolveTop.pair /\ frames'[Size].resolving = TRUE
         /\ export[ResolveTop.pair] \in Pairs => /\ frames'[Size + 1].pair = export[ResolveTop.pair]
                                          /\ frames'[Size + 1].resolving = FALSE
<1> DEFINE e == [ResolveTop EXCEPT !.resolving = TRUE]
           s == Append(ResolveBelow, e)
<1>1. Size \in Nat /\ Size > 0 /\ ResolveTop \in FrameSet
  BY TopFrame
<1>2. e \in FrameSet /\ e.pair = ResolveTop.pair /\ e.resolving = TRUE
  BY <1>1 DEF FrameSet
<1>3. /\ s \in Seq(FrameSet) /\ Len(s) = Size /\ s[Size] = e
      /\ \A i \in 1 .. Size - 1 : s[i] = frames[i]
  BY <1>2, ReplaceLast DEF Typed, Size, ResolveBelow
<1>4. CASE export[ResolveTop.pair] \notin Pairs
  <2>1. frames' = s
    BY <1>3, <1>4
  <2> QED BY <2>1, <1>2, <1>3, <1>4
<1>5. CASE export[ResolveTop.pair] \in Pairs
  <2> DEFINE f == ResolveFrame(export[ResolveTop.pair])
  <2>1. f \in FrameSet /\ f.pair = export[ResolveTop.pair] /\ f.resolving = FALSE
    BY <1>5 DEF ResolveFrame, FrameSet
  <2>2. frames' = Append(s, f)
    BY <1>3, <1>5, <2>1
  <2>3. /\ Append(s, f) \in Seq(FrameSet) /\ Len(Append(s, f)) = Size + 1
        /\ \A i \in 1 .. Size : Append(s, f)[i] = s[i]
        /\ Append(s, f)[Size + 1] = f
    <3> HIDE DEF s, f
    <3> QED BY <1>3, <2>1, AppendFacts
  <2> DEFINE t == Append(s, f)
  <2>4. t \in Seq(FrameSet) /\ Len(t) = Size + 1
    BY <2>3
  <2>5. \A i \in 1 .. Size - 1 : t[i] = frames[i]
    <3> HIDE DEF s, f
    <3> QED BY <2>3, <1>1, <1>3
  <2>6. t[Size].pair = ResolveTop.pair /\ t[Size].resolving = TRUE
    <3>1. t[Size] = e
      <4> HIDE DEF s, f, e
      <4> QED BY <2>3, <1>1, <1>3
    <3> HIDE DEF t, e
    <3> QED BY <3>1, <1>2
  <2>7. t[Size + 1].pair = export[ResolveTop.pair] /\ t[Size + 1].resolving = FALSE
    <3> HIDE DEF f, s
    <3> QED BY <2>1, <2>3
  <2>8. frames' = t
    BY <2>2
  <2> HIDE DEF t
  <2> QED BY <2>4, <2>5, <2>6, <2>7, <2>8, <1>5
<1> QED BY <1>4, <1>5

\* The frame of a pair that was not met before is looked at, and stays.
LEMMA ExpandFrames ==
  ASSUME Typed, NEW a \in Pairs, ResolutionOK(a), NEW n, n = Size, NEW t, t = ResolveTop.pair,
         frames # <<>>, ~ResolveTop.resolving,
         t \notin resolve_set, export[t] # Local, GraphOK,
         resolve_set' = resolve_set \cup {t}, exportVars' = exportVars,
         Len(frames') = IF export[t] \in Pairs THEN n + 1 ELSE n,
         \A i \in 1 .. n - 1 : frames'[i] = frames[i],
         frames'[n].pair = t, frames'[n].resolving = TRUE,
         export[t] \in Pairs => /\ frames'[n + 1].pair = export[t]
                                /\ frames'[n + 1].resolving = FALSE
  PROVE  FramesOK(a)'
<1> DEFINE last == Len(frames')
<1>1. /\ n \in Nat /\ n > 0 /\ PairAt(n) = t /\ t \in Pairs
      /\ n = Len(frames) /\ n \in 1 .. Len(frames)
  BY TopFrame DEF Size
<1>2. last \in {Size, n + 1} /\ (last = n + 1 <=> export[t] \in Pairs)
  BY <1>1
<1>3. Seen' = Seen \cup {t} /\ t \notin Seen
  BY <1>1 DEF Seen
<1>4. \A m : <<m, "*">> \in resolve_set' => <<m, "*">> \in resolve_set
  BY <1>1, NotStar
<1>5. \A k \in 1 .. n : PairAt(k)' = PairAt(k)
  <2>1. \A k \in 1 .. n - 1 : PairAt(k)' = PairAt(k)
    BY DEF PairAt
  <2>2. PairAt(n)' = PairAt(n)
    BY <1>1 DEF PairAt
  <2> QED BY <1>1, <2>1, <2>2
<1>6. export' = export /\ Reachable(a)' = Reachable(a)
  BY Fixed
<1>7. export[t] \in Pairs => PairAt(n + 1)' = export[t]
  BY DEF PairAt
<1>8. FrameOK(a, n) /\ t \in Reachable(a) /\ t[2] = a[2]
  BY <1>1 DEF ResolutionOK, FramesOK, FrameOK
<1>9. \A i \in 1 .. n - 1 : FrameOK(a, i)
  BY <1>1 DEF ResolutionOK, FramesOK
<1>10. ASSUME NEW i \in 1 .. n - 1 PROVE FrameOK(a, i)'
  <2>1. FrameOK(a, i) /\ i < n /\ i \in 1 .. n /\ i + 1 \in 1 .. n /\ i < last
    BY <1>1, <1>2, <1>9
  <2>2. frames'[i] = frames[i] /\ PairAt(i)' = PairAt(i) /\ PairAt(i + 1)' = PairAt(i + 1)
    BY <2>1, <1>5
  <2>3. ASSUME frames'[i].resolving, NEW j \in 1 .. last, frames'[j].resolving,
               PairAt(j)' = PairAt(i)'
        PROVE  j = i
    <3>1. frames[i].resolving /\ PairAt(i) \in Seen
      BY <2>1, <2>2, <2>3 DEF FrameOK
    <3>2. j # n
      BY <3>1, <2>2, <2>3, <1>1, <1>3, <1>5
    <3>3. j # n + 1
      BY <2>3, <1>2
    <3>4. j \in 1 .. n - 1
      BY <3>2, <3>3, <1>1, <1>2
    <3>5. frames[j].resolving /\ PairAt(j) = PairAt(i) /\ j \in 1 .. Len(frames)
      BY <3>4, <2>2, <2>3, <1>1, <1>5
    <3> QED BY <3>1, <3>5, <2>1 DEF FrameOK
  <2> QED BY <2>1, <2>2, <2>3, <1>1, <1>3, <1>4, <1>6 DEF FrameOK
<1>11. FrameOK(a, n)'
  <2>1. PairAt(n)' = t /\ frames'[n].resolving = TRUE
    BY <1>1, <1>5
  <2>2. <<t[1], "*">> \notin resolve_set'
    <3>1. t = <<t[1], a[2]>> /\ t[1] \in Exporter
      BY <1>1, <1>8 DEF Pairs
    <3> QED BY <3>1, <1>3, <1>4 DEF ResolutionOK
  <2>3. ASSUME NEW j \in 1 .. last, frames'[j].resolving, PairAt(j)' = t PROVE j = n
    <3>1. j # n + 1
      BY <2>3, <1>2
    <3>2. ASSUME j \in 1 .. n - 1 PROVE FALSE
      <4>1. frames[j].resolving /\ PairAt(j) = t
        BY <3>2, <2>3, <1>1, <1>5
      <4> QED BY <4>1, <3>2, <1>3, <1>9 DEF FrameOK
    <3> QED BY <3>1, <3>2, <1>1, <1>2
  <2>4. n = last \/ export[t] \in Pairs
    BY <1>2
  <2>5. export[t] \in Pairs => n < last /\ PairAt(n + 1)' = export[t]
    BY <1>1, <1>2, <1>7
  <2> QED BY <2>1, <2>2, <2>3, <2>4, <2>5, <1>3, <1>6, <1>8 DEF FrameOK
<1>12. ASSUME export[t] \in Pairs PROVE FrameOK(a, n + 1)'
  <2>1. export[t] \in Reachable(a) /\ export[t][2] = a[2]
    <3>1. export[t] \in Leads(t)
      BY <1>12, Kinds DEF Leads
    <3>2. export[t][2] = t[2]
      BY <1>1, <1>12 DEF GraphOK
    <3> QED BY <3>1, <3>2, <1>8, ReachStep
  <2>2. PairAt(n + 1)' = export[t] /\ frames'[n + 1].resolving = FALSE
    BY <1>7, <1>12
  <2>3. ~(n + 1 < last)
    BY <1>1, <1>2
  <2> QED BY <2>1, <2>2, <2>3, <1>6 DEF FrameOK
<1>13. ASSUME NEW i \in 1 .. last PROVE FrameOK(a, i)'
  <2>1. i \in 1 .. n - 1 \/ i = n \/ (i = n + 1 /\ export[t] \in Pairs)
    BY <1>1, <1>2
  <2> QED BY <2>1, <1>10, <1>11, <1>12
<1> QED BY <1>13 DEF FramesOK

LEMMA ExpandPath ==
  ASSUME Typed, NEW a \in Pairs, ResolutionOK(a), NEW n, n = Size, NEW t, t = ResolveTop.pair,
         frames # <<>>, ~ResolveTop.resolving,
         t \notin resolve_set, export[t] # Local, GraphOK,
         resolve_set' = resolve_set \cup {t}, exportVars' = exportVars,
         found' = found, frames' \in Seq(FrameSet),
         Len(frames') = IF export[t] \in Pairs THEN n + 1 ELSE n,
         \A i \in 1 .. n - 1 : frames'[i] = frames[i],
         frames'[n].pair = t, frames'[n].resolving = TRUE,
         export[t] \in Pairs => /\ frames'[n + 1].pair = export[t]
                                /\ frames'[n + 1].resolving = FALSE
  PROVE  PathOK(a)'
<1> DEFINE last == Len(frames')
<1> SUFFICES ASSUME ~found
             PROVE  /\ \A v \in Seen' : export'[v] # Local
                    /\ a \in Seen' \/ \E i \in 1 .. last : PairAt(i)' = a
                    /\ \A v \in Seen' : Waits(v)' \/ NoGap(v)'
  BY DEF PathOK
<1>1. /\ n \in Nat /\ n > 0 /\ PairAt(n) = t /\ t \in Pairs
      /\ n = Len(frames) /\ n \in 1 .. Len(frames)
  BY TopFrame DEF Size
<1>2. last \in {Size, n + 1} /\ (last = n + 1 <=> export[t] \in Pairs)
  BY <1>1
<1>3. Seen' = Seen \cup {t} /\ t \notin Seen
  BY <1>1 DEF Seen
<1>4. \A k \in 1 .. n : PairAt(k)' = PairAt(k)
  <2>1. \A k \in 1 .. n - 1 : PairAt(k)' = PairAt(k)
    BY DEF PairAt
  <2>2. PairAt(n)' = PairAt(n)
    BY <1>1 DEF PairAt
  <2> QED BY <1>1, <2>1, <2>2
<1>5. export[t] \in Pairs => PairAt(n + 1)' = export[t] /\ Leads(t) = {export[t]}
  BY Kinds DEF PairAt, Leads
<1>6. export' = export /\ (\A p : Leads(p)' = Leads(p)) /\ \A p : Reachable(p)' = Reachable(p)
  BY Fixed
<1>7. PathOK(a)
  BY DEF ResolutionOK
<1>8. a \in Seen' \/ \E i \in 1 .. last : PairAt(i)' = a
  BY <1>7, <1>1, <1>2, <1>3, <1>4 DEF PathOK
<1>9. ASSUME NEW v \in Seen PROVE NoGap(v)'
  <2>1. NoGap(v) /\ v \in Pairs
    BY <1>7 DEF PathOK, Waits, Seen
  <2> SUFFICES ASSUME NEW w \in Leads(v), w \notin Seen'
               PROVE  \E j \in 1 .. last : /\ PairAt(j)' = w
                                        /\ \A i \in j .. last : PairAt(i)' \in Reachable(v)
    BY <1>6 DEF NoGap
  <2>2. PICK j \in 1 .. n : PairAt(j) = w /\ \A i \in j .. n : PairAt(i) \in Reachable(v)
    BY <2>1, <1>1, <1>3 DEF NoGap
  <2>3. t \in Reachable(v)
    BY <2>2, <1>1
  <2>4. export[t] \in Pairs => PairAt(n + 1)' \in Reachable(v)
    BY <2>1, <2>3, <1>5, ReachStep
  <2>5. ASSUME NEW i \in j .. last PROVE PairAt(i)' \in Reachable(v)
    <3>1. i \in j .. n \/ (i = n + 1 /\ export[t] \in Pairs)
      BY <1>1, <1>2
    <3>2. CASE i \in j .. n
      BY <3>2, <2>2, <1>1, <1>4
    <3> QED BY <3>1, <3>2, <2>4
  <2>6. j \in 1 .. last /\ PairAt(j)' = w
    BY <2>2, <1>1, <1>2, <1>4
  <2> QED BY <2>5, <2>6
<1>10. Waits(t)' \/ NoGap(t)'
  <2>1. CASE export[t] \in Pairs
    <3>1. \A i \in n + 1 .. last : i = n + 1
      BY <1>1, <1>2
    <3>2. export[t] \in Reachable(t)
      BY <1>1, <1>5, <2>1, ReachRefl, ReachStep
    <3>3. n + 1 \in 1 .. last
      BY <1>1, <1>2, <2>1
    <3>4. \A w \in Leads(t) : PairAt(n + 1)' = w /\ w \in Reachable(t)
      BY <3>2, <1>5, <2>1
    <3> QED BY <3>1, <3>3, <3>4, <1>6 DEF NoGap
  <2>2. CASE export[t] \notin Pairs
    <3>1. last = n /\ frames' # <<>>
      BY <1>1, <1>2, <2>2, EmptyLen
    <3>2. ResolveTop' = frames'[n]
      BY <3>1 DEF ResolveTop
    <3> QED BY <3>1, <3>2, <2>2, <1>6 DEF Waits
  <2> QED BY <2>1, <2>2
<1> QED BY <1>3, <1>6, <1>7, <1>8, <1>9, <1>10 DEF PathOK

LEMMA FramesConcat ==
  \A b, g \in Seq(FrameSet) :
    /\ b \o g \in Seq(FrameSet) /\ Len(b \o g) = Len(b) + Len(g)
    /\ \A i \in 1 .. Len(b) : (b \o g)[i] = b[i]
    /\ \A i \in 1 .. Len(g) : (b \o g)[Len(b) + i] = g[i]
  BY ConcatFacts

\* A frame is replaced by those of the star exports of its module.
StarResult ==
  ResolveBelow \o [i \in DOMAIN star[ResolveTop.pair[1]] |->
              ResolveFrame(<<star[ResolveTop.pair[1]][i], asked[2]>>)]

StarsPushed(a, n, t, k) ==
  /\ k \in Nat /\ frames' \in Seq(FrameSet) /\ Len(frames') = n - 1 + k
  /\ \A i \in 1 .. n - 1 : frames'[i] = frames[i]
  /\ \A i \in 1 .. k : /\ frames'[n - 1 + i].pair = <<star[t[1]][i], a[2]>>
                       /\ frames'[n - 1 + i].resolving = FALSE

LEMMA StarShape ==
  ASSUME Typed, NEW a \in Pairs, asked = a, NEW n, n = Size, NEW t, t = ResolveTop.pair,
         NEW k, k = Len(star[t[1]]), frames # <<>>, frames' = StarResult
  PROVE  StarsPushed(a, n, t, k)
<1> DEFINE s == star[t[1]]
           f == [i \in 1 .. k |-> ResolveFrame(<<s[i], a[2]>>)]
           u == ResolveBelow \o f
<1>1. n \in Nat /\ n > 0 /\ t \in Pairs
  BY TopFrame
<1>2. s \in Seq(Exporter) /\ k \in Nat /\ DOMAIN s = 1 .. k
  <2>1. s \in Seq(Exporter)
    BY <1>1 DEF Typed, Pairs
  <2> QED BY <2>1, LenProperties
<1>3. \A i \in 1 .. k : s[i] \in Exporter
  BY <1>2
<1>4. a[2] \in Name
  BY DEF Pairs
<1>5. \A i \in 1 .. k : ResolveFrame(<<s[i], a[2]>>) \in FrameSet
  BY <1>3, <1>4 DEF ResolveFrame, FrameSet, Pairs
<1>6. f \in Seq(FrameSet) /\ Len(f) = k
  BY <1>2, <1>5, FunctionSeq
<1>7. frames' = u
  BY <1>2 DEF StarResult
<1>8. ResolveBelow \in Seq(FrameSet) /\ Len(ResolveBelow) = n - 1 /\ \A i \in 1 .. n - 1 : ResolveBelow[i] = frames[i]
  BY BelowFrames
<1>9. /\ u \in Seq(FrameSet) /\ Len(u) = n - 1 + k
      /\ \A i \in 1 .. n - 1 : u[i] = ResolveBelow[i]
      /\ \A i \in 1 .. k : u[n - 1 + i] = f[i]
  <2>1. PICK l \in Nat : l = Len(ResolveBelow) /\ l = n - 1
    BY <1>1, <1>8
  <2> HIDE DEF f
  <2>2. /\ u \in Seq(FrameSet) /\ Len(u) = l + k
        /\ \A i \in 1 .. l : u[i] = ResolveBelow[i]
        /\ \A i \in 1 .. k : u[l + i] = f[i]
    <3>1. /\ u \in Seq(FrameSet) /\ Len(u) = Len(ResolveBelow) + Len(f)
          /\ \A i \in 1 .. Len(ResolveBelow) : u[i] = ResolveBelow[i]
          /\ \A i \in 1 .. Len(f) : u[Len(ResolveBelow) + i] = f[i]
      <4>1. ResolveBelow \in Seq(FrameSet) /\ f \in Seq(FrameSet)
        BY <1>6, <1>8
      <4> QED BY ONLY <4>1, FramesConcat, Zenon
    <3> HIDE DEF u
    <3> QED BY <3>1, <2>1, <1>6
  <2> HIDE DEF u
  <2> QED BY <2>1, <2>2
<1>10. \A i \in 1 .. k : f[i].pair = <<s[i], a[2]>> /\ f[i].resolving = FALSE
  BY DEF ResolveFrame
<1>11. \A i \in 1 .. k : u[n - 1 + i].pair = <<s[i], a[2]>> /\ u[n - 1 + i].resolving = FALSE
  <2> HIDE DEF u, f
  <2> QED BY <1>9, <1>10
<1>12. \A i \in 1 .. n - 1 : u[i] = frames[i]
  <2> HIDE DEF u
  <2> QED BY <1>8, <1>9
<1> HIDE DEF u, f
<1> QED BY <1>2, <1>7, <1>9, <1>11, <1>12 DEF StarsPushed

\* The frames of star exports are where their module leads.
LEMMA StarLeads ==
  ASSUME Typed, NEW a \in Pairs, NEW t \in Pairs, t[2] = a[2], a[2] # "default",
         export[t] = NotExported
  PROVE  /\ \A i \in 1 .. Len(star[t[1]]) : <<star[t[1]][i], a[2]>> \in Leads(t)
         /\ \A w \in Leads(t) : \E i \in 1 .. Len(star[t[1]]) : w = <<star[t[1]][i], a[2]>>
<1>1. star[t[1]] \in Seq(Exporter)
  BY DEF Typed, Pairs
<1>2. DOMAIN star[t[1]] = 1 .. Len(star[t[1]])
  BY <1>1, LenProperties
<1>3. Leads(t) = {<<s, t[2]>> : s \in Stars(t[1])}
  BY Kinds DEF Leads
<1> QED BY <1>2, <1>3 DEF Stars

LEMMA StarFrames ==
  ASSUME Typed, NEW a \in Pairs, ResolutionOK(a), NEW n, n = Size, NEW t, t = ResolveTop.pair,
         NEW k \in Nat, k = Len(star[t[1]]), frames # <<>>, ResolveTop.resolving,
         a[2] # "default", export[t] = NotExported,
         resolve_set' = resolve_set \cup {<<t[1], "*">>}, exportVars' = exportVars,
         Len(frames') = n - 1 + k, \A i \in 1 .. n - 1 : frames'[i] = frames[i],
         \A i \in 1 .. k : /\ frames'[n - 1 + i].pair = <<star[t[1]][i], a[2]>>
                           /\ frames'[n - 1 + i].resolving = FALSE
  PROVE  FramesOK(a)'
<1> DEFINE last == Len(frames')
<1>1. /\ n \in Nat /\ n > 0 /\ PairAt(n) = t /\ t \in Pairs /\ frames[n] = ResolveTop
      /\ n = Len(frames) /\ n \in 1 .. Len(frames)
  BY TopFrame DEF Size
<1>2. Seen' = Seen
  BY <1>1, NotStar DEF Seen
<1>3. \A i \in 1 .. n - 1 : PairAt(i)' = PairAt(i)
  BY DEF PairAt
<1>4. export' = export /\ Reachable(a)' = Reachable(a)
  BY Fixed
<1>5. \A i \in 1 .. n : FrameOK(a, i)
  BY <1>1 DEF ResolutionOK, FramesOK
<1>6. /\ t \in Seen /\ t \in Reachable(a) /\ t[2] = a[2]
      /\ \A j \in 1 .. n : frames[j].resolving /\ PairAt(j) = t => j = n
  <2>1. FrameOK(a, n) /\ frames[n].resolving
    BY <1>1, <1>5
  <2> QED BY <2>1, <1>1 DEF FrameOK
<1>7. ASSUME NEW j \in 1 .. last, frames'[j].resolving PROVE j \in 1 .. n - 1
  <2>1. ASSUME j > n - 1 PROVE FALSE
    <3>1. PICK i \in 1 .. k : j = n - 1 + i
      <4>1. j - (n - 1) \in 1 .. k /\ j = n - 1 + (j - (n - 1))
        BY <2>1, <1>1
      <4> QED BY <4>1
    <3> QED BY <3>1, <1>7
  <2> QED BY <2>1, <1>1
<1>8. ASSUME NEW i \in 1 .. n - 1 PROVE FrameOK(a, i)'
  <2>1. FrameOK(a, i) /\ i \in 1 .. n /\ i < n
    BY <1>1, <1>5
  <2>2. frames'[i] = frames[i] /\ PairAt(i)' = PairAt(i)
    BY <1>3
  <2>3. ASSUME frames[i].resolving, NEW j \in 1 .. last, frames'[j].resolving,
               PairAt(j)' = PairAt(i)
        PROVE  j = i
    <3>1. j \in 1 .. n - 1
      BY <2>3, <1>7
    <3>2. frames[j].resolving /\ PairAt(j) = PairAt(i) /\ j \in 1 .. Len(frames)
      BY <3>1, <2>3, <1>1, <1>3
    <3> QED BY <3>2, <2>1, <2>3 DEF FrameOK
  <2>4. ASSUME frames[i].resolving PROVE <<PairAt(i)[1], "*">> \notin resolve_set'
    <3>1. <<PairAt(i)[1], "*">> \notin resolve_set /\ PairAt(i)[2] = t[2] /\ PairAt(i) \in Pairs
      BY <2>1, <2>4, <1>6 DEF FrameOK, Seen
    <3>2. PairAt(i) # t
      BY <2>1, <2>4, <1>6
    <3>3. PairAt(i)[1] # t[1]
      BY <3>1, <3>2, <1>1, SMTT(40) DEF Pairs
    <3> QED BY <3>1, <3>3
  <2>5. ASSUME frames[i].resolving, export[PairAt(i)] \in Pairs
        PROVE  export[PairAt(i)] \in Seen \/ (i < last /\ PairAt(i + 1)' = export[PairAt(i)])
    <3>1. CASE i = n - 1
      BY <3>1, <2>1, <2>5, <1>1, <1>6 DEF FrameOK
    <3>2. CASE i < n - 1
      <4>1. PairAt(i + 1)' = PairAt(i + 1) /\ i < last
        BY <3>2, <1>1, <1>3
      <4> QED BY <4>1, <2>1, <2>5 DEF FrameOK
    <3> QED BY <1>1, <3>1, <3>2
  <2>6. frames[i].resolving => export[PairAt(i)] \in Pairs
    BY <2>1, <1>1 DEF FrameOK
  <2> QED BY <2>1, <2>2, <2>3, <2>4, <2>5, <2>6, <1>2, <1>4 DEF FrameOK
<1>9. ASSUME NEW i \in 1 .. k PROVE FrameOK(a, n - 1 + i)'
  <2>1. <<star[t[1]][i], a[2]>> \in Reachable(a)
    BY <1>1, <1>6, StarLeads, ReachStep
  <2> DEFINE w == <<star[t[1]][i], a[2]>>
  <2>2. PICK j : j = n - 1 + i
    OBVIOUS
  <2>3. PairAt(j)' = w /\ frames'[j].resolving = FALSE /\ w[2] = a[2]
    BY <2>2 DEF PairAt
  <2> HIDE DEF w
  <2>4. w \in Reachable(a)
    BY <2>1 DEF w
  <2>5. FrameOK(a, j)'
    BY <2>3, <2>4, <1>4 DEF FrameOK
  <2> QED BY <2>2, <2>5
<1>10. ASSUME NEW i \in 1 .. last PROVE FrameOK(a, i)'
  <2>1. CASE i \in 1 .. n - 1
    BY <2>1, <1>8
  <2>2. CASE i > n - 1
    <3>1. i - (n - 1) \in 1 .. k /\ i = n - 1 + (i - (n - 1))
      BY <2>2, <1>1
    <3> QED BY <3>1, <1>9
  <2> QED BY <1>1, <2>1, <2>2
<1> QED BY <1>10 DEF FramesOK

LEMMA StarPath ==
  ASSUME Typed, NEW a \in Pairs, ResolutionOK(a), NEW n, n = Size, NEW t, t = ResolveTop.pair,
         NEW k \in Nat, k = Len(star[t[1]]), frames # <<>>, ResolveTop.resolving,
         a[2] # "default", export[t] = NotExported, found' = found,
         resolve_set' = resolve_set \cup {<<t[1], "*">>}, exportVars' = exportVars,
         Len(frames') = n - 1 + k, \A i \in 1 .. n - 1 : frames'[i] = frames[i],
         \A i \in 1 .. k : /\ frames'[n - 1 + i].pair = <<star[t[1]][i], a[2]>>
                           /\ frames'[n - 1 + i].resolving = FALSE
  PROVE  PathOK(a)'
<1> DEFINE last == Len(frames')
<1> SUFFICES ASSUME ~found
             PROVE  /\ \A v \in Seen' : export'[v] # Local
                    /\ a \in Seen' \/ \E i \in 1 .. last : PairAt(i)' = a
                    /\ \A v \in Seen' : NoGap(v)'
  BY DEF PathOK
<1>1. /\ n \in Nat /\ n > 0 /\ PairAt(n) = t /\ t \in Pairs /\ frames[n] = ResolveTop
      /\ n = Len(frames) /\ n \in 1 .. Len(frames)
  BY TopFrame DEF Size
<1>2. Seen' = Seen
  BY <1>1, NotStar DEF Seen
<1>3. \A i \in 1 .. n - 1 : PairAt(i)' = PairAt(i)
  BY DEF PairAt
<1>4. export' = export /\ (\A p : Leads(p)' = Leads(p)) /\ \A p : Reachable(p)' = Reachable(p)
  BY Fixed
<1>5. t \in Seen /\ t[2] = a[2]
  BY <1>1 DEF ResolutionOK, FramesOK, FrameOK
<1>6. PathOK(a)
  BY DEF ResolutionOK
<1>7. ASSUME NEW i \in n .. last
      PROVE  PairAt(i)' \in Leads(t)
  <2>1. PICK j \in 1 .. k : i = n - 1 + j
    <3>1. i - (n - 1) \in 1 .. k /\ i = n - 1 + (i - (n - 1))
      BY <1>1
    <3> QED BY <3>1
  <2>2. PairAt(i)' = <<star[t[1]][j], a[2]>>
    BY <2>1 DEF PairAt
  <2>3. <<star[t[1]][j], a[2]>> \in Leads(t)
    BY <1>1, <1>5, StarLeads
  <2> QED BY <2>2, <2>3
<1>8. a \in Seen' \/ \E i \in 1 .. last : PairAt(i)' = a
  <2>1. CASE a \in Seen
    BY <2>1, <1>2
  <2>2. CASE a \notin Seen
    <3>1. PICK i \in 1 .. n : PairAt(i) = a
      BY <2>2, <1>1, <1>6 DEF PathOK
    <3>2. i \in 1 .. n - 1 /\ i \in 1 .. last
      BY <3>1, <2>2, <1>1, <1>5
    <3> QED BY <3>1, <3>2, <1>3
  <2> QED BY <2>1, <2>2
<1>9. ASSUME NEW v \in Seen, v # t PROVE NoGap(v)'
  <2>1. NoGap(v) /\ v \in Pairs
    BY <1>6, <1>9 DEF PathOK, Waits, Seen
  <2> SUFFICES ASSUME NEW w \in Leads(v), w \notin Seen
               PROVE  \E j \in 1 .. last : /\ PairAt(j)' = w
                                           /\ \A i \in j .. last : PairAt(i)' \in Reachable(v)
    BY <1>2, <1>4 DEF NoGap
  <2>2. PICK j \in 1 .. n : PairAt(j) = w /\ \A i \in j .. n : PairAt(i) \in Reachable(v)
    BY <2>1, <1>1 DEF NoGap
  <2>3. t \in Reachable(v) /\ j # n
    BY <2>2, <1>1, <1>5
  <2>4. ASSUME NEW i \in j .. last PROVE PairAt(i)' \in Reachable(v)
    <3>1. CASE i \in j .. n - 1
      <4>1. i \in 1 .. n - 1 /\ i \in j .. n
        BY <3>1, <1>1
      <4> QED BY <4>1, <2>2, <1>3
    <3>2. CASE i \in n .. last
      BY <3>2, <2>1, <2>3, <1>7, ReachStep
    <3> QED BY <1>1, <3>1, <3>2
  <2>5. j \in 1 .. last /\ PairAt(j)' = w
    BY <2>2, <2>3, <1>1, <1>3
  <2> QED BY <2>4, <2>5
<1>10. NoGap(t)'
  <2> SUFFICES ASSUME NEW w \in Leads(t)
               PROVE  \E j \in 1 .. last : /\ PairAt(j)' = w
                                           /\ \A i \in j .. last : PairAt(i)' \in Reachable(t)
    BY <1>4 DEF NoGap
  <2>1. PICK i \in 1 .. k : w = <<star[t[1]][i], a[2]>>
    BY <1>1, <1>5, StarLeads
  <2>2. PICK j : j = n - 1 + i
    OBVIOUS
  <2>3. j \in 1 .. last /\ PairAt(j)' = w
    BY <1>1, <2>1, <2>2 DEF PairAt
  <2>4. \A l \in j .. last : l \in n .. last
    BY <1>1, <2>2
  <2>5. \A l \in j .. last : PairAt(l)' \in Reachable(t)
    BY <2>4, <1>1, <1>7, ReachRefl, ReachStep
  <2> QED BY <2>3, <2>5
<1> QED BY <1>2, <1>4, <1>6, <1>8, <1>9, <1>10 DEF PathOK

-----------------------------------------------------------------------------
(* The steps of a search.                                                  *)

\* A step that leaves the search alone, but for its outcome at the end.
LEMMA SameSearch ==
  ASSUME NEW a \in Pairs, ResolutionOK(a), UNCHANGED <<exportVars, root, resolveVars>>,
         task' = task \/ frames = <<>>
  PROVE  ResolutionOK(a)'
<1>1. /\ asked' = asked /\ frames' = frames /\ resolve_set' = resolve_set
      /\ found' = found /\ record' = record /\ root' = root
  BY DEF resolveVars
<1>2. /\ export' = export /\ (\A p : Leads(p)' = Leads(p))
      /\ (\A p : Reachable(p)' = Reachable(p)) /\ (\A p : Bindings(p)' = Bindings(p))
  BY Fixed
<1>3. Seen' = Seen /\ (\A i : PairAt(i)' = PairAt(i)) /\ ResolveTop' = ResolveTop
  BY <1>1 DEF Seen, PairAt, ResolveTop
<1>4. FramesOK(a)'
  BY <1>1, <1>2, <1>3 DEF ResolutionOK, FramesOK, FrameOK
<1>5. \A v : Waits(v)' = Waits(v)
  BY <1>1, <1>2, <1>3 DEF Waits
<1>6. \A v : NoGap(v)' = NoGap(v)
  BY <1>1, <1>2, <1>3 DEF NoGap
<1>7. PathOK(a)'
  BY <1>1, <1>2, <1>3, <1>5, <1>6 DEF ResolutionOK, PathOK
<1>8. FoundOK(a)'
  BY <1>1, <1>2, <1>3 DEF ResolutionOK, FoundOK
<1> QED BY <1>1, <1>2, <1>3, <1>4, <1>7, <1>8 DEF ResolutionOK

LEMMA SkipFrameSearch ==
  ASSUME Typed, NEW a \in Pairs, ResolutionOK(a), SkipFrame
  PROVE  ResolutionOK(a)'
<1>1. /\ exportVars' = exportVars /\ root' = root /\ asked' = asked /\ task' = task
      /\ resolve_set' = resolve_set /\ found' = found /\ record' = record
      /\ frames # <<>> /\ frames' = ResolveBelow /\ task \in {"resolve", "namespace"}
  BY DEF SkipFrame, UNCHANGED_Rest, Looping
<1>2. Size \in 1 .. Len(frames) /\ frames[Size] = ResolveTop /\ PairAt(Size) = ResolveTop.pair /\ ResolveTop.pair \in Pairs
  BY <1>1, TopFrame DEF Size
<1>3. FrameOK(a, Size)
  BY <1>2 DEF ResolutionOK, FramesOK
<1>4. ResolveTop.pair \in resolve_set /\ (ResolveTop.resolving => found)
  BY <1>2, <1>3 DEF SkipFrame, FrameOK, Seen
<1>5. FramesOK(a)'
  BY <1>1, <1>4, PopFrames DEF ResolutionOK
<1>6. PathOK(a)'
  <2>1. CASE found
    BY <2>1, <1>1 DEF PathOK
  <2>2. CASE ~ResolveTop.resolving
    BY <2>2, <1>1, <1>4, PopPath DEF ResolutionOK
  <2> QED BY <2>1, <2>2, <1>4
<1>7. FoundOK(a)' /\ Reachable(a)' = Reachable(a) /\ Seen' = Seen
  BY <1>1, Fixed DEF ResolutionOK, FoundOK, Seen
<1> QED BY <1>1, <1>5, <1>6, <1>7 DEF ResolutionOK

LEMMA LocalExportSearch ==
  ASSUME Typed, NEW a \in Pairs, ResolutionOK(a), LocalExport
  PROVE  ResolutionOK(a)'
<1>1. /\ exportVars' = exportVars /\ root' = root /\ asked' = asked /\ task' = task
      /\ resolve_set' = resolve_set \cup {ResolveTop.pair} /\ found' = TRUE
      /\ record' = IF found THEN None ELSE ResolveTop.pair
      /\ frames # <<>> /\ frames' = ResolveBelow /\ task \in {"resolve", "namespace"}
      /\ ResolveTop.pair \notin resolve_set /\ export[ResolveTop.pair] = Local
  BY DEF LocalExport, UNCHANGED_Rest, Looping
<1>2. Size \in 1 .. Len(frames) /\ PairAt(Size) = ResolveTop.pair /\ ResolveTop.pair \in Pairs
  BY <1>1, TopFrame DEF Size
<1>3. ResolveTop.pair \in Reachable(a)
  BY <1>2 DEF ResolutionOK, FramesOK, FrameOK
<1>4. FramesOK(a)'
  BY <1>1, PopFrames DEF ResolutionOK
<1>5. PathOK(a)'
  BY <1>1 DEF PathOK
<1>6. (Reachable(a)' = Reachable(a)) /\ (Bindings(a)' = Bindings(a))
  BY <1>1, Fixed
<1>7. ResolveTop.pair \in Bindings(a)
  BY <1>1, <1>3, BindingsOf
<1>8. FoundOK(a)'
  <2>1. CASE ~found
    BY <2>1, <1>1, <1>2, <1>6, <1>7, Kinds DEF FoundOK, Seen
  <2>2. CASE found /\ record = None
    BY <2>2, <1>1, <1>6 DEF ResolutionOK, FoundOK
  <2>3. CASE found /\ record # None
    <3>1. record \in Bindings(a) /\ record \in Seen
      BY <2>3 DEF ResolutionOK, FoundOK
    <3>2. record # ResolveTop.pair
      BY <1>1, <3>1 DEF Seen
    <3> QED BY <3>1, <3>2, <2>3, <1>1, <1>6, <1>7 DEF FoundOK
  <2> QED BY <2>1, <2>2, <2>3
<1>9. Seen' = Seen \cup {ResolveTop.pair}
  BY <1>1, <1>2 DEF Seen
<1>10. \A m \in Exporter : <<m, "*">> \in resolve_set' => <<m, a[2]>> \in Seen'
  BY <1>1, <1>2, <1>9, NotStar DEF ResolutionOK
<1> QED BY <1>1, <1>3, <1>4, <1>5, <1>6, <1>8, <1>9, <1>10 DEF ResolutionOK

LEMMA IndirectExportSearch ==
  ASSUME Typed, GraphOK, NEW a \in Pairs, asked = a, ResolutionOK(a), IndirectExport
  PROVE  ResolutionOK(a)'
<1>1. /\ exportVars' = exportVars /\ root' = root /\ task' = task
      /\ resolve_set' = resolve_set \cup {ResolveTop.pair} /\ found' = found
      /\ record' = record /\ frames # <<>> /\ task \in {"resolve", "namespace"}
      /\ ~ResolveTop.resolving /\ ResolveTop.pair \notin resolve_set /\ export[ResolveTop.pair] # Local
      /\ frames' = IF found THEN ResolveBelow
                   ELSE Append(ResolveBelow, [ResolveTop EXCEPT !.resolving = TRUE])
                          \o (IF export[ResolveTop.pair] \in Pairs
                                THEN <<ResolveFrame(export[ResolveTop.pair])>> ELSE <<>>)
  BY DEF IndirectExport, UNCHANGED_Rest, Looping
<1>2. PICK n : n = Size
  OBVIOUS
<1>3. PICK t \in Pairs : t = ResolveTop.pair
  BY <1>1, TopFrame
<1>4. t \in Reachable(a)
  BY <1>1, <1>3, TopFrame DEF ResolutionOK, FramesOK, FrameOK, Size
<1>5. FramesOK(a)' /\ PathOK(a)'
  <2>1. CASE found
    <3>1. FramesOK(a)'
      BY <1>1, <2>1, PopFrames DEF ResolutionOK
    <3> QED BY <3>1, <2>1, <1>1 DEF PathOK
  <2>2. CASE ~found
    <3>1. /\ frames' \in Seq(FrameSet)
          /\ Len(frames') = IF export[t] \in Pairs THEN n + 1 ELSE n
          /\ \A i \in 1 .. n - 1 : frames'[i] = frames[i]
          /\ frames'[n].pair = t /\ frames'[n].resolving = TRUE
          /\ export[t] \in Pairs => /\ frames'[n + 1].pair = export[t]
                                    /\ frames'[n + 1].resolving = FALSE
      BY <1>1, <1>2, <1>3, <2>2, ExpandShape
    <3>2. /\ ~ResolveTop.resolving /\ t \notin resolve_set /\ export[t] # Local /\ frames # <<>>
          /\ resolve_set' = resolve_set \cup {t} /\ exportVars' = exportVars
          /\ found' = found
      BY <1>1, <1>3
    <3>3. FramesOK(a)'
      BY <3>1, <3>2, <1>2, <1>3, ExpandFrames
    <3>4. PathOK(a)'
      BY <3>1, <3>2, <1>2, <1>3, ExpandPath
    <3> QED BY <3>3, <3>4
  <2> QED BY <2>1, <2>2
<1>6. (Reachable(a)' = Reachable(a)) /\ (Bindings(a)' = Bindings(a))
  BY <1>1, Fixed
<1>7. Seen' = Seen \cup {t}
  BY <1>1, <1>3 DEF Seen
<1>8. FoundOK(a)'
  BY <1>1, <1>6, <1>7 DEF ResolutionOK, FoundOK
<1>9. \A m \in Exporter : <<m, "*">> \in resolve_set' => <<m, a[2]>> \in Seen'
  BY <1>1, <1>3, <1>7, NotStar DEF ResolutionOK
<1> QED BY <1>1, <1>4, <1>5, <1>6, <1>7, <1>8, <1>9 DEF ResolutionOK

LEMMA StarExportsSearch ==
  ASSUME Typed, GraphOK, NEW a \in Pairs, asked = a, ResolutionOK(a), StarExports
  PROVE  ResolutionOK(a)'
<1>1. /\ exportVars' = exportVars /\ root' = root /\ task' = task
      /\ resolve_set' = resolve_set \cup {<<ResolveTop.pair[1], "*">>} /\ found' = found
      /\ record' = record /\ frames # <<>> /\ task \in {"resolve", "namespace"}
      /\ ResolveTop.resolving /\ ~found /\ ResolveTop.pair[2] # "default"
      /\ frames' = StarResult
  BY DEF StarExports, Unfinished, UNCHANGED_Rest, Looping, StarResult
<1>2. PICK n : n = Size
  OBVIOUS
<1>3. PICK t \in Pairs : t = ResolveTop.pair
  BY <1>1, TopFrame
<1>4. FrameOK(a, Size) /\ frames[Size].resolving /\ PairAt(Size) = t
  BY <1>1, <1>3, TopFrame DEF ResolutionOK, FramesOK, Size
<1>5. t[2] = a[2] /\ t \in Seen /\ a[2] # "default"
  BY <1>1, <1>3, <1>4 DEF FrameOK
<1>6. export[t] = NotExported
  BY <1>1, <1>3, IndirectFinds DEF ResolutionOK
<1>7. PICK k : k = Len(star[t[1]])
  OBVIOUS
<1>8. /\ k \in Nat /\ frames' \in Seq(FrameSet) /\ Len(frames') = n - 1 + k
      /\ \A i \in 1 .. n - 1 : frames'[i] = frames[i]
      /\ \A i \in 1 .. k : /\ frames'[n - 1 + i].pair = <<star[t[1]][i], a[2]>>
                           /\ frames'[n - 1 + i].resolving = FALSE
  <2>1. frames # <<>> /\ frames' = StarResult
    BY <1>1
  <2>2. StarsPushed(a, n, t, k)
    BY <2>1, <1>2, <1>3, <1>7, StarShape
  <2> QED BY <2>2 DEF StarsPushed
<1>9. /\ ResolveTop.resolving /\ frames # <<>> /\ found' = found
      /\ resolve_set' = resolve_set \cup {<<t[1], "*">>} /\ exportVars' = exportVars
  BY <1>1, <1>3
<1>10. FramesOK(a)'
  BY <1>2, <1>3, <1>5, <1>6, <1>7, <1>8, <1>9, StarFrames
<1>11. PathOK(a)'
  BY <1>2, <1>3, <1>5, <1>6, <1>7, <1>8, <1>9, StarPath
<1>12. Seen' = Seen
  BY <1>9, NotStar DEF Seen
<1>13. (Reachable(a)' = Reachable(a)) /\ (Bindings(a)' = Bindings(a))
  BY <1>1, Fixed
<1>14. FoundOK(a)'
  BY <1>1 DEF FoundOK
<1>15. \A m \in Exporter : <<m, "*">> \in resolve_set' => <<m, a[2]>> \in Seen'
  <2>1. t = <<t[1], a[2]>>
    BY <1>5 DEF Pairs
  <2> SUFFICES ASSUME NEW m \in Exporter, <<m, "*">> \in resolve_set'
               PROVE  <<m, a[2]>> \in Seen
    BY <1>12
  <2>2. CASE m = t[1]
    BY <2>1, <2>2, <1>5
  <2>3. CASE m # t[1]
    <3>1. <<m, "*">> \in resolve_set
      BY <2>3, <1>9
    <3> QED BY <3>1 DEF ResolutionOK
  <2> QED BY <2>2, <2>3
<1> QED BY <1>1, <1>10, <1>11, <1>12, <1>13, <1>14, <1>15 DEF ResolutionOK

\* "default" is not among the indirect exports that were met, and there is nowhere
\* else to look.
LEMMA NoDefaultSearch ==
  ASSUME Typed, GraphOK, NEW a \in Pairs, asked = a, ResolutionOK(a), NoDefault
  PROVE  ResolutionOK(a)' /\ Bindings(a) = {}
<1>1. /\ frames # <<>> /\ ResolveTop.resolving /\ ~found /\ ResolveTop.pair[2] = "default"
      /\ UNCHANGED <<exportVars, root, resolveVars>> /\ task \in {"resolve", "namespace"}
  BY DEF NoDefault, Unfinished, Looping
<1>2. /\ Size \in Nat /\ Size = Len(frames) /\ frames[Size] = ResolveTop
      /\ PairAt(Size) = ResolveTop.pair /\ Size \in 1 .. Size /\ ResolveTop.pair \in Pairs
  BY <1>1, TopFrame DEF Size
<1>3. a[2] = "default"
  BY <1>1, <1>2 DEF ResolutionOK, FramesOK, FrameOK
<1>4. \A i \in 1 .. Len(frames) : FrameOK(a, i) /\ frames[i].resolving
  <2> SUFFICES ASSUME NEW i \in 1 .. Len(frames) PROVE FrameOK(a, i) /\ frames[i].resolving
    OBVIOUS
  <2>1. FrameOK(a, i)
    BY DEF ResolutionOK, FramesOK
  <2>2. i = Size \/ i < Len(frames)
    BY <1>2
  <2> QED BY <2>1, <2>2, <1>1, <1>2, <1>3 DEF FrameOK
<1>5. \A i \in 1 .. Len(frames) : PairAt(i) \in Seen
  BY <1>4 DEF FrameOK
<1>6. Leads(ResolveTop.pair) = {}
  <2>1. export[ResolveTop.pair] = NotExported
    BY <1>1, IndirectFinds DEF ResolutionOK
  <2> QED BY <2>1, <1>1, Kinds DEF Leads
<1>7. Bindings(a) = {}
  BY <1>1, <1>5, <1>6, NothingThere DEF ResolutionOK, Waits
<1>8. Bindings(a)' = {} /\ ~found'
  <2>1. Bindings(a)' = Bindings(a)
    BY <1>1, Fixed
  <2> QED BY <2>1, <1>1, <1>7 DEF resolveVars
<1>9. ResolutionOK(a)'
  <2>1. /\ asked' = asked /\ frames' = frames /\ resolve_set' = resolve_set
        /\ found' = found /\ record' = record /\ root' = root
    BY <1>1 DEF resolveVars
  <2>2. /\ export' = export /\ (\A p : Leads(p)' = Leads(p))
        /\ (\A p : Reachable(p)' = Reachable(p))
    BY <1>1, Fixed
  <2>3. Seen' = Seen /\ (\A i : PairAt(i)' = PairAt(i)) /\ ResolveTop' = ResolveTop
    BY <2>1 DEF Seen, PairAt, ResolveTop
  <2>4. FramesOK(a)'
    BY <2>1, <2>2, <2>3 DEF ResolutionOK, FramesOK, FrameOK
  <2>5. (\A v : Waits(v)' = Waits(v)) /\ (\A v : NoGap(v)' = NoGap(v))
    BY <2>1, <2>2, <2>3 DEF Waits, NoGap
  <2>6. PathOK(a)' /\ FoundOK(a)'
    BY <2>1, <2>2, <2>3, <2>5, <1>1 DEF ResolutionOK, PathOK, FoundOK
  <2> QED BY <2>1, <2>2, <2>3, <2>4, <2>6, <1>8 DEF ResolutionOK
<1> QED BY <1>7, <1>9

LEMMA StartSearch ==
  ASSUME Typed, NEW r \in Exporter, r = root, NEW n \in Name, StartResolve(n),
         exportVars' = exportVars, root' = root, task' # "failed"
  PROVE  ResolutionOK(<<r, n>>)' /\ asked' = <<r, n>>
<1> DEFINE a == <<r, n>>
<1>1. a \in Pairs /\ a[1] = r /\ a[2] = n
  BY DEF Pairs
<1>2. /\ asked' = a /\ frames' = <<ResolveFrame(a)>> /\ resolve_set' = {} /\ found' = FALSE
  BY DEF StartResolve
<1>3. /\ Len(frames') = 1 /\ frames'[1].pair = a /\ frames'[1].resolving = FALSE
  BY <1>2 DEF ResolveFrame
<1>4. Seen' = {} /\ PairAt(1)' = a
  BY <1>2, <1>3 DEF Seen, PairAt
<1>5. a \in Reachable(a)'
  <2>1. a \in Reachable(a)
    BY <1>1, ReachRefl
  <2>2. Reachable(a)' = Reachable(a)
    BY Fixed
  <2> QED BY <2>1, <2>2
<1>6. FrameOK(a, 1)'
  BY <1>3, <1>4, <1>5 DEF FrameOK
<1>7. FramesOK(a)'
  BY <1>3, <1>6 DEF FramesOK
<1>8. PathOK(a)'
  BY <1>3, <1>4 DEF PathOK
<1>9. FoundOK(a)'
  BY <1>2 DEF FoundOK
<1> QED BY <1>1, <1>2, <1>4, <1>7, <1>8, <1>9 DEF ResolutionOK

-----------------------------------------------------------------------------
(* Every step.                                                             *)

LEMMA StepFixed ==
  ASSUME [ExportsNext]_exportsVars
  PROVE  exportVars' = exportVars /\ root' = root
<1> USE DEF exportsVars
<1>1. CASE UNCHANGED exportsVars
  BY <1>1
<1>2. CASE \E n \in Name : ResolveName(n) \/ AddName(n)
  BY <1>2 DEF ResolveName, AddName
<1>3. CASE SkipFrame \/ LocalExport \/ IndirectExport \/ StarExports
  BY <1>3 DEF SkipFrame, LocalExport, IndirectExport, StarExports, UNCHANGED_Rest
<1>4. CASE NoDefault \/ ResolveEnds \/ NextModule \/ NameResolved \/ NamespaceEnds
  BY <1>4 DEF NoDefault, ResolveEnds, NextModule, NameResolved, NamespaceEnds
<1> QED BY <1>1, <1>2, <1>3, <1>4 DEF ExportsNext

LEMMA GraphStep ==
  ASSUME GraphOK, exportVars' = exportVars
  PROVE  GraphOK'
<1>1. export' = export /\ (\A p : Bindings(p)' = Bindings(p))
      /\ \A p : Reachable(p)' = Reachable(p)
  BY Fixed
<1> QED BY <1>1 DEF GraphOK

LEMMA TypedSearch ==
  ASSUME Typed, Spaces,
         SkipFrame \/ LocalExport \/ IndirectExport \/ StarExports
  PROVE  Typed'
<1>1. /\ export' = export /\ star' = star /\ root' = root /\ asked' = asked /\ task' = task
      /\ todo' = todo /\ visited' = visited /\ visiting' = visiting /\ names' = names
      /\ entries' = entries
  BY DEF SkipFrame, LocalExport, IndirectExport, StarExports, UNCHANGED_Rest,
         exportVars, namespaceVars
<1>2. frames # <<>>
  BY DEF SkipFrame, LocalExport, IndirectExport, StarExports, Unfinished, Looping
<1>3. ResolveBelow \in Seq(FrameSet) /\ ResolveTop.pair \in Pairs
  BY <1>2, BelowFrames, TopFrame
<1>4. ResolveTop.pair \in Exporter \X (Name \cup {"*"})
      /\ <<ResolveTop.pair[1], "*">> \in Exporter \X (Name \cup {"*"})
  BY <1>3 DEF Pairs
<1>5. frames' \in Seq(FrameSet)
  <2>1. CASE SkipFrame \/ LocalExport
    BY <2>1, <1>3 DEF SkipFrame, LocalExport
  <2>2. CASE IndirectExport
    <3>1. CASE found
      BY <3>1, <2>2, <1>3 DEF IndirectExport
    <3>2. CASE ~found
      <4>1. frames' = Append(ResolveBelow, [ResolveTop EXCEPT !.resolving = TRUE])
                        \o (IF export[ResolveTop.pair] \in Pairs
                              THEN <<ResolveFrame(export[ResolveTop.pair])>> ELSE <<>>)
        BY <3>2, <2>2 DEF IndirectExport
      <4> QED BY <4>1, <1>2, ExpandShape
    <3> QED BY <3>1, <3>2
  <2>3. CASE StarExports
    <3>1. frames' = StarResult
      BY <2>3 DEF StarExports, StarResult
    <3>2. PICK a \in Pairs : asked = a
      BY <1>2 DEF Spaces, SpaceOK, Typed
    <3>3. \A n, t, k : n = Size /\ t = ResolveTop.pair /\ k = Len(star[t[1]]) => StarsPushed(a, n, t, k)
      BY <3>1, <3>2, <1>2, StarShape
    <3> QED BY <3>3 DEF StarsPushed
  <2> QED BY <2>1, <2>2, <2>3
<1>6. resolve_set' \subseteq Exporter \X (Name \cup {"*"})
  BY <1>4 DEF Typed, SkipFrame, LocalExport, IndirectExport, StarExports
<1>7. found' \in BOOLEAN /\ record' \in {None} \cup Pairs
  BY <1>3 DEF Typed, SkipFrame, LocalExport, IndirectExport, StarExports
<1> QED BY <1>1, <1>5, <1>6, <1>7 DEF Typed

LEMMA TypedStart ==
  ASSUME Typed, NEW n \in Name, StartResolve(n),
         UNCHANGED <<exportVars, root, task, todo, visited, visiting, entries>>,
         names' \subseteq Name
  PROVE  Typed'
<1>1. <<root, n>> \in Pairs
  BY DEF Typed, Pairs
<1>2. frames' \in Seq(FrameSet)
  <2>1. ResolveFrame(<<root, n>>) \in FrameSet
    BY <1>1 DEF ResolveFrame, FrameSet
  <2> QED BY <2>1 DEF StartResolve
<1> QED BY <1>1, <1>2 DEF Typed, StartResolve, exportVars

LEMMA TypedStep ==
  ASSUME ExportsInv, [ExportsNext]_exportsVars
  PROVE  Typed'
<1> USE DEF ExportsInv
<1>1. CASE UNCHANGED exportsVars
  BY <1>1 DEF Typed, exportsVars, exportVars, resolveVars, namespaceVars
<1>2. ASSUME NEW n \in Name, ResolveName(n) PROVE Typed'
  BY <1>2, TypedStart DEF ResolveName, namespaceVars, Typed
<1>3. ASSUME NEW n \in Name, AddName(n) PROVE Typed'
  <2>1. names' \subseteq Name
    BY <1>3 DEF AddName, Typed
  <2>2. CASE n \in Handled
    BY <1>3, <2>1, <2>2 DEF AddName, Typed, exportVars, resolveVars
  <2>3. CASE n \notin Handled
    BY <1>3, <2>1, <2>3, TypedStart DEF AddName
  <2> QED BY <2>2, <2>3
<1>4. CASE SkipFrame \/ LocalExport \/ IndirectExport \/ StarExports
  BY <1>4, TypedSearch
<1>5. CASE NoDefault \/ ResolveEnds \/ NamespaceEnds
  BY <1>5 DEF NoDefault, ResolveEnds, NamespaceEnds, Typed, exportVars, resolveVars,
              namespaceVars
<1>6. CASE NextModule
  <2> DEFINE m == todo[Len(todo)]
             rest == SubSeq(todo, 1, Len(todo) - 1)
  <2>1. todo # <<>> /\ UNCHANGED <<exportVars, root, task, resolveVars, entries>>
    BY <1>6 DEF NextModule
  <2>2. rest \in Seq(Exporter) /\ m \in Exporter
    <3>1. Len(todo) \in Nat /\ Len(todo) > 0
      BY <2>1, EmptyLen DEF Typed
    <3>2. m \in Exporter
      BY <3>1 DEF Typed
    <3> QED BY <2>1, <3>2, FrontProperties DEF Typed
  <2>3. rest \o star[m] \in Seq(Exporter)
    <3>1. star[m] \in Seq(Exporter)
      BY <2>2 DEF Typed
    <3> QED BY <2>2, <3>1, ConcatProperties
  <2>4. names' \subseteq Name /\ visited' \subseteq Exporter /\ visiting' \in Exporter
        /\ todo' \in Seq(Exporter)
    <3> HIDE DEF m, rest
    <3>1. /\ visited' = visited \cup {m} /\ visiting' = m
          /\ \/ todo' = rest /\ names' = names
             \/ todo' = rest \o star[m] /\ names' \subseteq ExportedBy(m)
      BY <1>6 DEF NextModule, m, rest
    <3> QED BY <3>1, <2>2, <2>3 DEF Typed, ExportedBy
  <2> QED BY <2>1, <2>4 DEF Typed, exportVars, resolveVars
<1>7. CASE NameResolved
  <2>1. /\ asked # None /\ asked' = None /\ task' \in {task, "failed"}
        /\ UNCHANGED <<exportVars, root, frames, resolve_set, found, record, todo, visited,
                       visiting, names>>
    BY <1>7 DEF NameResolved, Resolved
  <2>2. asked \in Pairs /\ asked[2] \in Name
    BY <2>1 DEF Typed, Pairs
  <2>3. entries' \subseteq Name \X Pairs
    <3>1. CASE found /\ record # None
      <4>1. record \in Pairs
        BY <3>1 DEF Typed
      <4> QED BY <3>1, <4>1, <2>2, <1>7 DEF NameResolved, Typed
    <3>2. CASE ~(found /\ record # None)
      BY <3>2, <1>7 DEF NameResolved, Typed
    <3> QED BY <3>1, <3>2
  <2> QED BY <2>1, <2>3 DEF Typed, exportVars
<1> QED BY <1>1, <1>2, <1>3, <1>4, <1>5, <1>6, <1>7 DEF ExportsNext

LEMMA AskedIs ==
  ASSUME ExportsInv, frames # <<>> \/ asked # None
  PROVE  \E a \in Pairs : asked = a /\ ResolutionOK(a)
<1>1. asked # None
  BY DEF ExportsInv, Spaces, SpaceOK, Typed
<1> QED BY <1>1 DEF ExportsInv, Typed, Searches

LEMMA SearchesStep ==
  ASSUME ExportsInv, [ExportsNext]_exportsVars
  PROVE  Searches'
<1> SUFFICES ASSUME NEW a \in Pairs, asked' = a PROVE ResolutionOK(a)'
  BY DEF Searches, Pairs
<1>1. exportVars' = exportVars /\ root' = root /\ Typed /\ GraphOK /\ root \in Exporter
  BY StepFixed DEF ExportsInv, Typed
<1>2. a # None
  BY Kinds
<1>3. ASSUME NEW n \in Name, StartResolve(n), task' = task, task # "failed"
      PROVE  ResolutionOK(a)'
  <2>1. PICK r \in Exporter : r = root
    BY <1>1
  <2>2. ResolutionOK(<<r, n>>)' /\ asked' = <<r, n>>
    BY <1>1, <1>3, <2>1, StartSearch
  <2>3. a = <<r, n>>
    BY <2>2
  <2> QED BY <2>2, <2>3
<1>4. ASSUME resolveVars' = resolveVars, task' = task \/ frames = <<>>
      PROVE  ResolutionOK(a)'
  <2>1. ResolutionOK(a)
    BY <1>4 DEF ExportsInv, Searches, resolveVars
  <2> QED BY <2>1, <1>1, <1>4, SameSearch
<1>5. CASE UNCHANGED exportsVars
  BY <1>4, <1>5 DEF exportsVars
<1>6. ASSUME NEW n \in Name, ResolveName(n) PROVE ResolutionOK(a)'
  BY <1>3, <1>6 DEF ResolveName
<1>7. ASSUME NEW n \in Name, AddName(n) PROVE ResolutionOK(a)'
  <2>1. task' = task /\ task = "namespace"
    BY <1>7 DEF AddName, Filling
  <2>2. CASE n \in Handled
    BY <1>4, <1>7, <2>1, <2>2 DEF AddName
  <2>3. CASE n \notin Handled
    BY <1>3, <1>7, <2>1, <2>3 DEF AddName
  <2> QED BY <2>2, <2>3
<1>8. CASE SkipFrame \/ LocalExport \/ IndirectExport \/ StarExports
  <2>1. asked = a
    BY <1>8 DEF SkipFrame, LocalExport, IndirectExport, StarExports, UNCHANGED_Rest
  <2>2. ResolutionOK(a)
    BY <2>1 DEF ExportsInv, Searches
  <2> QED BY <1>1, <1>8, <2>1, <2>2, SkipFrameSearch, LocalExportSearch,
             IndirectExportSearch, StarExportsSearch
<1>9. CASE NoDefault
  <2>1. asked = a
    BY <1>9 DEF NoDefault, resolveVars
  <2>2. ResolutionOK(a)
    BY <2>1 DEF ExportsInv, Searches
  <2> QED BY <1>1, <1>9, <2>1, <2>2, NoDefaultSearch
<1>10. CASE ResolveEnds
  BY <1>4, <1>10 DEF ResolveEnds, Resolved
<1>11. CASE NextModule
  BY <1>4, <1>11 DEF NextModule
<1>12. CASE NameResolved
  BY <1>2, <1>12 DEF NameResolved
<1>13. CASE NamespaceEnds
  BY <1>4, <1>13 DEF NamespaceEnds, Filling
<1> QED BY <1>5, <1>6, <1>7, <1>8, <1>9, <1>10, <1>11, <1>12, <1>13 DEF ExportsNext

-----------------------------------------------------------------------------
(* Namespace objects.                                                      *)

\* A name that a module exports has a binding.
LEMMA ExportedServed ==
  ASSUME Typed, GraphOK, NEW r \in Exporter, NEW m \in Exporter, NEW n \in ExportedBy(m),
         <<m, n>> \in Reachable(<<r, n>>)
  PROVE  Bindings(<<r, n>>) # {}
<1> DEFINE p == <<m, n>>
           a == <<r, n>>
<1>1. n \in Name /\ export[p] # NotExported
  BY DEF ExportedBy
<1>2. p \in Pairs /\ a \in Pairs
  BY <1>1 DEF Pairs
<1> HIDE DEF p, a
<1>3. p \in Reachable(a)
  BY DEF p, a
<1>4. CASE export[p] = Local
  <2>1. p \in Bindings(a)
    BY <1>2, <1>3, <1>4, BindingsOf
  <2> QED BY <2>1 DEF a
<1>5. CASE export[p] # Local
  <2>1. export[p] \in Pairs
    BY <1>1, <1>2, <1>5 DEF Typed
  <2>2. Cardinality(Bindings(p)) = 1
    BY <1>2, <2>1 DEF GraphOK
  <2>3. PICK b : Bindings(p) = {b}
    BY <1>2, <2>2, OneBinding
  <2>4. b \in Reachable(p) /\ export[b] = Local
    BY <2>3, <1>2, BindingsOf
  <2>5. b \in Bindings(a)
    BY <2>4, <1>2, <1>3, ReachTrans, BindingsOf
  <2> QED BY <2>5 DEF a
<1> QED BY <1>4, <1>5

LEMMA ServedStar ==
  ASSUME Typed, GraphOK, NEW r \in Exporter, NEW m \in Exporter, Served(r, m),
         NEW s \in Stars(m)
  PROVE  Served(r, s)
<1> SUFFICES ASSUME NEW n \in Name \ {"default"}, Bindings(<<r, n>>) = {}
             PROVE  <<s, n>> \in Reachable(<<r, n>>)
  BY DEF Served
<1>1. <<m, n>> \in Reachable(<<r, n>>)
  BY DEF Served
<1>2. n \notin ExportedBy(m)
  BY <1>1, ExportedServed
<1>3. export[<<m, n>>] = NotExported
  BY <1>2 DEF ExportedBy
<1>4. <<s, n>> \in Leads(<<m, n>>)
  BY <1>3, Kinds DEF Leads
<1>5. <<r, n>> \in Pairs
  BY DEF Pairs
<1> QED BY <1>1, <1>4, <1>5, ReachStep

\* Steps that leave the namespace object and its loop alone.
LEMMA SameSpace ==
  ASSUME NEW r \in Exporter, SpaceOK(r), NamesOK(r), exportVars' = exportVars,
         namespaceVars' = namespaceVars, task' = task, asked' = asked, frames' = frames \/ asked # None
  PROVE  SpaceOK(r)' /\ NamesOK(r)'
<1>1. /\ todo' = todo /\ visited' = visited /\ visiting' = visiting /\ names' = names
      /\ entries' = entries /\ Handled' = Handled
  BY DEF namespaceVars, Handled
<1>2. /\ (\A p : Bindings(p)' = Bindings(p)) /\ (\A p : Reachable(p)' = Reachable(p))
      /\ (\A m : Stars(m)' = Stars(m)) /\ (\A m : ExportedBy(m)' = ExportedBy(m))
  BY Fixed
<1>3. \A m : Served(r, m)' = Served(r, m)
  BY <1>2 DEF Served
<1>4. SpaceOK(r)'
  BY <1>1, <1>2, <1>3 DEF SpaceOK
<1>5. NamesOK(r)'
  BY <1>1, <1>2 DEF NamesOK
<1> QED BY <1>4, <1>5

\* The tables a namespace step looks at.
LEMMA SpaceFixed ==
  ASSUME NEW r, exportVars' = exportVars
  PROVE  /\ (\A p : Bindings(p)' = Bindings(p)) /\ (\A m : Served(r, m)' = Served(r, m))
         /\ (\A m : Stars(m)' = Stars(m)) /\ (\A m : ExportedBy(m)' = ExportedBy(m))
<1>1. /\ (\A p : Bindings(p)' = Bindings(p)) /\ (\A p : Reachable(p)' = Reachable(p))
      /\ (\A m : Stars(m)' = Stars(m)) /\ (\A m : ExportedBy(m)' = ExportedBy(m))
  BY Fixed
<1> QED BY <1>1 DEF Served

\* Outside of the namespace loop.
LEMMA ResolveSpace ==
  ASSUME NEW r \in Exporter, SpaceOK(r), NamesOK(r), exportVars' = exportVars,
         namespaceVars' = namespaceVars, visited = {}, task' # "namespace",
         asked' = None => frames' = <<>>
  PROVE  SpaceOK(r)' /\ NamesOK(r)'
<1>1. /\ todo' = todo /\ visited' = {} /\ visiting' = visiting /\ names' = names
      /\ entries' = entries /\ Handled' = Handled /\ names = {}
  BY DEF namespaceVars, Handled, SpaceOK
<1>2. /\ (\A p : Bindings(p)' = Bindings(p)) /\ (\A m : Served(r, m)' = Served(r, m))
  BY SpaceFixed
<1>3. SpaceOK(r)'
  BY <1>1, <1>2 DEF SpaceOK
<1>4. NamesOK(r)'
  BY <1>1, <1>2 DEF NamesOK
<1> QED BY <1>3, <1>4

LEMMA NextModuleSpace ==
  ASSUME Typed, GraphOK, NEW r \in Exporter, SpaceOK(r), NamesOK(r), NextModule
  PROVE  SpaceOK(r)' /\ NamesOK(r)'
<1>1. PICK k \in Nat : k = Len(todo) /\ k > 0
  BY EmptyLen DEF Typed, NextModule
<1>2. PICK m \in Exporter : m = todo[k]
  BY <1>1 DEF Typed
<1>3. PICK rest : rest = SubSeq(todo, 1, Len(todo) - 1)
  OBVIOUS
<1>4. /\ task' = task /\ task = "namespace" /\ asked' = asked /\ asked = None
      /\ frames' = frames /\ frames = <<>> /\ names = {} /\ exportVars' = exportVars
      /\ visited' = visited \cup {m} /\ entries' = entries /\ Handled' = Handled
      /\ IF m \in visited
           THEN todo' = rest /\ names' = names
           ELSE /\ todo' = rest \o star[m]
                /\ names' = IF visited = {} THEN ExportedBy(m)
                                           ELSE ExportedBy(m) \ {"default"}
  BY <1>1, <1>2, <1>3 DEF NextModule, Filling, resolveVars, Handled
<1>5. rest \in Seq(Exporter) /\ Len(rest) = k - 1 /\ \A i \in 1 .. k - 1 : rest[i] = todo[i]
  BY <1>1, <1>3, FrontProperties DEF Typed
<1>6. star[m] \in Seq(Exporter) /\ Len(star[m]) \in Nat /\ DOMAIN star[m] = 1 .. Len(star[m])
  <2>1. star[m] \in Seq(Exporter)
    BY DEF Typed
  <2> QED BY <2>1, LenProperties
<1>7. PICK t : t = rest \o star[m]
  OBVIOUS
<1>8. /\ t \in Seq(Exporter) /\ Len(t) = k - 1 + Len(star[m])
      /\ \A i \in 1 .. k - 1 : t[i] = rest[i]
      /\ \A i \in 1 .. Len(star[m]) : t[k - 1 + i] = star[m][i]
  <2>1. \A b, g \in Seq(Exporter) :
          /\ b \o g \in Seq(Exporter) /\ Len(b \o g) = Len(b) + Len(g)
          /\ \A i \in 1 .. Len(b) : (b \o g)[i] = b[i]
          /\ \A i \in 1 .. Len(g) : (b \o g)[Len(b) + i] = g[i]
    BY ConcatFacts
  <2>2. /\ t \in Seq(Exporter) /\ Len(t) = Len(rest) + Len(star[m])
        /\ \A i \in 1 .. Len(rest) : t[i] = rest[i]
        /\ \A i \in 1 .. Len(star[m]) : t[Len(rest) + i] = star[m][i]
    <3>1. rest \in Seq(Exporter) /\ star[m] \in Seq(Exporter)
      BY <1>5, <1>6
    <3> QED BY ONLY <3>1, <2>1, <1>7, Zenon
  <2> QED BY <2>2, <1>5
<1>9. /\ (\A p : Bindings(p)' = Bindings(p)) /\ (\A x : Served(r, x)' = Served(r, x))
      /\ (\A x : Stars(x)' = Stars(x)) /\ (\A x : ExportedBy(x)' = ExportedBy(x))
  BY <1>4, SpaceFixed
<1>10. Served(r, m) /\ (visited = {} => m = r)
  <2>1. k \in 1 .. Len(todo)
    BY <1>1
  <2>2. Served(r, m)
    BY <2>1, <1>2 DEF SpaceOK
  <2>3. visited = {} => todo = <<r>>
    BY <1>4 DEF SpaceOK
  <2> QED BY <1>1, <1>2, <2>2, <2>3
<1>11. \A s \in Stars(m) : s \in Exporter /\ Served(r, s)
  <2>1. \A s \in Stars(m) : s \in Exporter
    BY <1>6 DEF Stars
  <2> QED BY <2>1, <1>10, ServedStar
<1>12. \A i \in 1 .. Len(star[m]) : star[m][i] \in Stars(m)
  BY <1>6 DEF Stars
<1>13. \A s \in Stars(m) : \E i \in 1 .. Len(star[m]) : star[m][i] = s
  BY <1>6 DEF Stars
<1>14. \A i \in 1 .. Len(todo') : Served(r, todo'[i])
  <2>1. \A i \in 1 .. k - 1 : Served(r, todo[i])
    <3>1. \A i \in 1 .. k - 1 : i \in 1 .. Len(todo) /\ todo[i] \in Exporter
      BY <1>1 DEF Typed
    <3> QED BY <3>1 DEF SpaceOK
  <2>2. CASE m \in visited
    BY <2>1, <2>2, <1>4, <1>5
  <2>3. CASE m \notin visited
    <3> SUFFICES ASSUME NEW i \in 1 .. Len(t) PROVE Served(r, t[i])
      BY <2>3, <1>4, <1>7
    <3>1. CASE i \in 1 .. k - 1
      BY <3>1, <2>1, <1>5, <1>8
    <3>2. CASE i > k - 1
      <4>1. PICK j \in 1 .. Len(star[m]) : i = k - 1 + j
        <5>1. i - (k - 1) \in 1 .. Len(star[m]) /\ i = k - 1 + (i - (k - 1))
          BY <3>2, <1>1, <1>6, <1>8
        <5> QED BY <5>1
      <4> QED BY <4>1, <1>8, <1>11, <1>12
    <3> QED BY <1>1, <3>1, <3>2
  <2> QED BY <2>2, <2>3
<1>15. \A i \in 1 .. k - 1 : \E j \in 1 .. Len(todo') : todo'[j] = todo[i]
  <2>1. CASE m \in visited
    BY <2>1, <1>4, <1>5
  <2>2. CASE m \notin visited
    <3>1. todo' = t
      BY <2>2, <1>4, <1>7
    <3>2. \A i \in 1 .. k - 1 : i \in 1 .. Len(t) /\ t[i] = todo[i]
      BY <1>1, <1>5, <1>6, <1>8
    <3> QED BY <3>1, <3>2
  <2> QED BY <2>1, <2>2
<1>16. ASSUME NEW x \in visited', NEW s \in Stars(x)
       PROVE  s \in visited' \/ \E i \in 1 .. Len(todo') : todo'[i] = s
  <2>1. CASE x \in visited
    <3>1. s \in visited \/ \E i \in 1 .. k : todo[i] = s
      BY <2>1, <1>1 DEF SpaceOK
    <3>2. CASE s \in visited
      BY <3>2, <1>4
    <3>3. ASSUME NEW i \in 1 .. k, todo[i] = s
          PROVE  s \in visited' \/ \E j \in 1 .. Len(todo') : todo'[j] = s
      <4>1. CASE i = k
        BY <4>1, <3>3, <1>2, <1>4
      <4>2. CASE i \in 1 .. k - 1
        BY <4>2, <3>3, <1>15
      <4> QED BY <1>1, <4>1, <4>2
    <3> QED BY <3>1, <3>2, <3>3
  <2>2. CASE x \notin visited
    <3>1. x = m /\ m \notin visited
      BY <2>2, <1>4
    <3>2. PICK i \in 1 .. Len(star[m]) : star[m][i] = s
      BY <3>1, <1>13
    <3>3. PICK j : j = k - 1 + i
      OBVIOUS
    <3>4. j \in 1 .. Len(t) /\ t[j] = s
      BY <3>2, <3>3, <1>1, <1>6, <1>8
    <3> QED BY <3>1, <3>4, <1>4, <1>7
  <2> QED BY <2>1, <2>2
<1>17. SpaceOK(r)'
  <2>1. \A x \in visited' : Served(r, x)
    BY <1>4, <1>10 DEF SpaceOK
  <2>2. r \in visited'
    BY <1>4, <1>10 DEF SpaceOK
  <2> QED BY <2>1, <2>2, <1>4, <1>9, <1>14, <1>16 DEF SpaceOK
<1>18. \A n \in names' : Bindings(<<r, n>>) # {}
  <2> SUFFICES ASSUME NEW n \in names' PROVE Bindings(<<r, n>>) # {}
    OBVIOUS
  <2>1. n \in ExportedBy(m) /\ (n = "default" => m = r)
    BY <1>4, <1>10
  <2>2. n \in Name
    BY <2>1 DEF ExportedBy
  <2>3. CASE n # "default"
    BY <2>1, <2>2, <2>3, <1>10, ExportedServed DEF Served
  <2>4. CASE n = "default"
    <3>1. <<r, n>> \in Reachable(<<r, n>>)
      BY <2>2, ReachRefl DEF Pairs
    <3> QED BY <3>1, <2>1, <2>4, ExportedServed
  <2> QED BY <2>3, <2>4
<1>19. NamesOK(r)'
  <2>1. ASSUME NEW x \in visited', NEW n \in ExportedBy(x), ~(n = "default" /\ x # r)
        PROVE  n \in names' \/ n \in Handled \/ Cardinality(Bindings(<<r, n>>)) # 1
    <3>1. CASE x \in visited
      <4>1. <<r, n>> \in Pairs
        BY <2>1 DEF ExportedBy, Pairs
      <4>2. asked # <<r, n>>
        BY <4>1, <1>4, Kinds
      <4> QED BY <3>1, <4>2, <2>1, <1>4 DEF NamesOK
    <3>2. CASE x \notin visited
      <4>1. x = m /\ m \notin visited
        BY <3>2, <1>4
      <4>2. n = "default" => visited = {}
        BY <4>1, <2>1 DEF SpaceOK
      <4> QED BY <4>1, <4>2, <2>1, <1>4
    <3> QED BY <3>1, <3>2
  <2>2. \A a \in Pairs : asked' # a
    BY <1>4, Kinds
  <2> QED BY <2>1, <2>2, <1>4, <1>9, <1>18 DEF NamesOK
<1> QED BY <1>17, <1>19

LEMMA AddNameSpace ==
  ASSUME Typed, NEW r \in Exporter, r = root, SpaceOK(r), NamesOK(r),
         NEW n \in Name, AddName(n)
  PROVE  SpaceOK(r)' /\ NamesOK(r)'
<1>1. /\ task' = task /\ task = "namespace" /\ asked = None /\ frames = <<>>
      /\ exportVars' = exportVars /\ n \in names /\ names' = names \ {n}
      /\ todo' = todo /\ visited' = visited /\ entries' = entries /\ Handled' = Handled
  BY DEF AddName, Filling, NextNames, Handled
<1>2. visited # {}
  BY <1>1 DEF SpaceOK
<1>3. \/ n \in Handled /\ asked' = None /\ frames' = frames
      \/ asked' = <<r, n>>
  BY <1>1 DEF AddName, resolveVars, StartResolve
<1>4. /\ (\A p : Bindings(p)' = Bindings(p)) /\ (\A x : Served(r, x)' = Served(r, x))
      /\ (\A x : Stars(x)' = Stars(x)) /\ (\A x : ExportedBy(x)' = ExportedBy(x))
  BY <1>1, SpaceFixed
<1>5. <<r, n>> # None /\ Bindings(<<r, n>>) # {}
  BY <1>1, Kinds DEF NamesOK, Pairs
<1>6. SpaceOK(r)'
  BY <1>1, <1>2, <1>3, <1>4, <1>5 DEF SpaceOK
<1>7. \A a \in Pairs : asked' = a => Bindings(a) # {}
  <2> SUFFICES ASSUME NEW a \in Pairs, asked' = a PROVE Bindings(a) # {}
    OBVIOUS
  <2>1. a = <<r, n>>
    BY <1>3, Kinds
  <2> QED BY <2>1, <1>5
<1>8. ASSUME NEW x \in visited, NEW e \in ExportedBy(x), ~(e = "default" /\ x # r)
      PROVE  e \in names' \/ e \in Handled \/ asked' = <<r, e>> \/ Cardinality(Bindings(<<r, e>>)) # 1
  <2>1. <<r, e>> \in Pairs
    BY DEF ExportedBy, Pairs
  <2>2. asked # <<r, e>>
    BY <2>1, <1>1, Kinds
  <2>3. e \in names \/ e \in Handled \/ Cardinality(Bindings(<<r, e>>)) # 1
    BY <2>2, <1>8 DEF NamesOK
  <2> QED BY <2>3, <1>1, <1>3
<1>9. NamesOK(r)'
  BY <1>1, <1>4, <1>7, <1>8 DEF NamesOK
<1> QED BY <1>6, <1>9

\* The search for a name of a namespace object finds something.
LEMMA NameResolvedSpace ==
  ASSUME Typed, NEW r \in Exporter, r = root, SpaceOK(r), NamesOK(r),
         NEW a \in Pairs, asked = a, ResolutionOK(a), NameResolved
  PROVE  SpaceOK(r)' /\ NamesOK(r)'
<1>1. /\ task = "namespace" /\ frames = <<>> /\ frames' = frames /\ asked' = None
      /\ task' = (IF found THEN task ELSE "failed") /\ exportVars' = exportVars
      /\ entries' = (IF found /\ record # None THEN entries \cup {<<a[2], record>>} ELSE entries)
      /\ todo' = todo /\ visited' = visited /\ names' = names
  BY DEF NameResolved, Filling, Resolved
<1>2. PICK n \in Name : a = <<r, n>>
  BY DEF ResolutionOK, Pairs
<1>3. visited # {} /\ Bindings(a) # {}
  BY <1>1, Kinds DEF SpaceOK, NamesOK
<1>4. found
  <2>1. Len(frames) = 0
    BY <1>1
  <2>2. (\A i \in 1 .. Len(frames) : PairAt(i) \in Seen) /\ \A v \in Seen : ~Waits(v)
    BY <2>1, <1>1 DEF Waits
  <2>3. PathOK(a)
    BY DEF ResolutionOK
  <2> QED BY <1>3, <2>2, <2>3, NothingThere
<1>5. /\ (\A p : Bindings(p)' = Bindings(p)) /\ (\A x : Served(r, x)' = Served(r, x))
      /\ (\A x : Stars(x)' = Stars(x)) /\ (\A x : ExportedBy(x)' = ExportedBy(x))
  BY <1>1, SpaceFixed
<1>6. SpaceOK(r)'
  BY <1>1, <1>3, <1>4, <1>5 DEF SpaceOK
<1>7. Handled \subseteq Handled' /\ (record # None => n \in Handled')
  <2>1. Handled \subseteq Handled'
    BY <1>1 DEF Handled
  <2>2. ASSUME record # None PROVE n \in Handled'
    <3>1. <<n, record>> \in entries'
      BY <2>2, <1>1, <1>2, <1>4
    <3> QED BY <3>1 DEF Handled
  <2> QED BY <2>1, <2>2
<1>8. record = None => Cardinality(Bindings(a)) # 1
  BY <1>4, OneBinding DEF ResolutionOK, FoundOK
<1>9. ASSUME NEW x \in visited, NEW e \in ExportedBy(x), ~(e = "default" /\ x # r)
      PROVE  e \in names \/ e \in Handled' \/ Cardinality(Bindings(<<r, e>>)) # 1
  <2>1. \/ e \in names \/ e \in Handled \/ asked = <<r, e>>
        \/ Cardinality(Bindings(<<r, e>>)) # 1
    BY <1>9 DEF NamesOK
  <2>2. CASE asked = <<r, e>>
    <3>1. <<r, e>> = <<r, n>>
      BY <2>2, <1>2
    <3>2. e = n /\ a = <<r, e>>
      BY <3>1, <1>2
    <3> QED BY <3>2, <1>7, <1>8
  <2> QED BY <2>1, <2>2, <1>7
<1>10. ASSUME NEW e \in Name, NEW b \in Pairs, <<e, b>> \in entries'
       PROVE  b \in Bindings(<<r, e>>)
  <2>1. CASE <<e, b>> \in entries
    BY <2>1 DEF NamesOK
  <2>2. CASE <<e, b>> \notin entries
    <3>1. record # None /\ <<e, b>> = <<a[2], record>>
      BY <2>2, <1>1, <1>10
    <3>2. e = n /\ b = record
      BY <3>1, <1>2
    <3> QED BY <3>1, <3>2, <1>2, <1>4 DEF ResolutionOK, FoundOK
  <2> QED BY <2>1, <2>2
<1>11. \A p \in Pairs : asked' # p
  BY <1>1, Kinds
<1>12. NamesOK(r)'
  <2>1. \A k \in names' : Bindings(<<r, k>>)' # {}
    BY <1>1, <1>5 DEF NamesOK
  <2>2. \A x \in visited' : \A e \in ExportedBy(x)' :
          \/ e = "default" /\ x # r
          \/ e \in names' \/ e \in Handled' \/ Cardinality(Bindings(<<r, e>>)') # 1
    BY <1>1, <1>5, <1>9
  <2>3. \A e \in Name : \A b \in Pairs : <<e, b>> \in entries' => b \in Bindings(<<r, e>>)'
    BY <1>5, <1>10
  <2> QED BY <2>1, <2>2, <2>3, <1>11 DEF NamesOK
<1> QED BY <1>6, <1>12

LEMMA SpacesStep ==
  ASSUME ExportsInv, [ExportsNext]_exportsVars
  PROVE  Spaces'
<1>1. PICK r \in Exporter : r = root
  BY DEF ExportsInv, Typed
<1>2. exportVars' = exportVars /\ root' = root /\ Typed /\ GraphOK
  BY StepFixed DEF ExportsInv
<1>3. SUFFICES SpaceOK(r)' /\ NamesOK(r)'
  BY <1>1, <1>2 DEF Spaces
<1>4. SpaceOK(r) /\ NamesOK(r)
  BY <1>1 DEF ExportsInv, Spaces
<1>5. CASE UNCHANGED exportsVars
  BY <1>2, <1>4, <1>5, SameSpace DEF exportsVars, resolveVars
<1>6. ASSUME NEW n \in Name, ResolveName(n) PROVE SpaceOK(r)' /\ NamesOK(r)'
  <2>1. /\ task' = "resolve" /\ task = "resolve" /\ namespaceVars' = namespaceVars
        /\ asked' = <<root, n>>
    BY <1>6 DEF ResolveName, StartResolve
  <2>2. asked' # None
    BY <2>1 DEF None
  <2> QED BY <2>1, <2>2, <1>2, <1>4, ResolveSpace DEF SpaceOK
<1>7. ASSUME NEW n \in Name, AddName(n) PROVE SpaceOK(r)' /\ NamesOK(r)'
  BY <1>1, <1>2, <1>4, <1>7, AddNameSpace
<1>8. CASE SkipFrame \/ LocalExport \/ IndirectExport \/ StarExports
  <2>1. frames # <<>> /\ namespaceVars' = namespaceVars /\ task' = task /\ asked' = asked
    BY <1>8 DEF SkipFrame, LocalExport, IndirectExport, StarExports, UNCHANGED_Rest,
                Unfinished, Looping
  <2>2. asked # None
    BY <2>1, <1>4 DEF SpaceOK
  <2> QED BY <2>1, <2>2, <1>2, <1>4, SameSpace
<1>9. CASE NoDefault
  <2>1. /\ frames # <<>> /\ namespaceVars' = namespaceVars /\ asked' = asked
        /\ frames' = frames /\ task' = "failed"
    BY <1>9 DEF NoDefault, Unfinished, Looping, resolveVars
  <2>2. PICK a \in Pairs : asked = a /\ ResolutionOK(a)
    BY <2>1, AskedIs
  <2>3. Bindings(a) = {}
    BY <2>2, <1>2, <1>9, NoDefaultSearch
  <2>4. visited = {}
    BY <2>2, <2>3, <1>4 DEF NamesOK
  <2> QED BY <2>1, <2>2, <2>4, <1>2, <1>4, Kinds, ResolveSpace
<1>10. CASE ResolveEnds
  <2>1. /\ namespaceVars' = namespaceVars /\ frames' = <<>> /\ task = "resolve"
        /\ task' # "namespace"
    BY <1>10 DEF ResolveEnds, Resolved, resolveVars
  <2> QED BY <2>1, <1>2, <1>4, ResolveSpace DEF SpaceOK
<1>11. CASE NextModule
  BY <1>2, <1>4, <1>11, NextModuleSpace
<1>12. CASE NameResolved
  <2>1. PICK a \in Pairs : asked = a /\ ResolutionOK(a)
    BY <1>12, AskedIs DEF NameResolved, Resolved
  <2> QED BY <2>1, <1>1, <1>2, <1>4, <1>12, NameResolvedSpace
<1>13. CASE NamespaceEnds
  <2>1. /\ asked = None /\ names = {} /\ todo = <<>> /\ task' = "done"
        /\ frames = <<>>
        /\ todo' = todo /\ visited' = visited /\ names' = names /\ asked' = asked
        /\ frames' = frames /\ entries' = entries /\ Handled' = Handled
    BY <1>13 DEF NamespaceEnds, Filling, resolveVars, namespaceVars, Handled
  <2>2. /\ (\A p : Bindings(p)' = Bindings(p)) /\ (\A x : Served(r, x)' = Served(r, x))
        /\ (\A x : Stars(x)' = Stars(x)) /\ (\A x : ExportedBy(x)' = ExportedBy(x))
    BY <1>2, SpaceFixed
  <2>3. SpaceOK(r)'
    BY <2>1, <2>2, <1>4 DEF SpaceOK
  <2>4. NamesOK(r)'
    BY <2>1, <2>2, <1>4 DEF NamesOK
  <2> QED BY <2>3, <2>4
<1> QED BY <1>5, <1>6, <1>7, <1>8, <1>9, <1>10, <1>11, <1>12, <1>13 DEF ExportsNext

-----------------------------------------------------------------------------
LEMMA ResolveInitInv ==
  ASSUME ~Renames, ~Circular, ExportsInit
  PROVE  ExportsInv
<1>1. star \in [Exporter -> Seq(Exporter)]
  <2>1. StarLists \subseteq Seq(Exporter)
    <3> SUFFICES ASSUME NEW s \in StarLists PROVE s \in Seq(Exporter)
      OBVIOUS
    <3>1. PICK k \in 0 .. MaxStars : s \in [1 .. k -> Exporter]
      BY DEF StarLists
    <3>2. k \in Nat
      BY ExportsAssumption
    <3> QED BY <3>1, <3>2, FunctionSeq
  <2> QED BY <2>1 DEF ExportsInit, StarTables
<1>2. Typed
  <2>1. export \in [Pairs -> {Local, NotExported} \cup Pairs]
    BY DEF ExportsInit, ExportTables
  <2>2. frames \in Seq(FrameSet) /\ todo \in Seq(Exporter)
    BY DEF ExportsInit
  <2>3. asked = None /\ resolve_set = {} /\ found = FALSE /\ record = None /\ visited = {}
        /\ visiting = root /\ root \in Exporter /\ names = {} /\ entries = {}
        /\ task \in {"resolve", "namespace"}
    BY DEF ExportsInit
  <2> QED BY <1>1, <2>1, <2>2, <2>3 DEF Typed
<1>3. GraphOK
  <2> SUFFICES ASSUME NEW p \in Pairs, NEW q \in Pairs, export[p] = q
               PROVE  /\ q[2] = p[2]
                      /\ Cardinality(Bindings(p)) = 1
                      /\ p \notin Reachable(q)
    BY DEF GraphOK
  <2>1. q[2] = p[2]
    BY DEF ExportsInit, ExportTables
  <2>2. Cardinality(Bindings(p)) = 1
    BY DEF ExportsInit, BrokenExports
  <2>3. p \notin Reachable(q)
    BY DEF ExportsInit, CircularExports
  <2> QED BY <2>1, <2>2, <2>3
<1>4. Searches
  BY Kinds DEF Searches, ExportsInit
<1>5. ASSUME NEW r \in Exporter, root = r PROVE SpaceOK(r) /\ NamesOK(r)
  <2>1. Served(r, r)
    BY ReachRefl DEF Served, Pairs
  <2>2. \A i \in 1 .. Len(todo) : todo[i] = r
    BY <1>5 DEF ExportsInit
  <2>3. SpaceOK(r)
    BY <1>5, <2>1, <2>2 DEF SpaceOK, ExportsInit
  <2>4. NamesOK(r)
    BY <1>5 DEF NamesOK, ExportsInit
  <2> QED BY <2>3, <2>4
<1> QED BY <1>2, <1>3, <1>4, <1>5 DEF ExportsInv, Spaces

\* The inductive invariant of export resolution and of the creation of namespace
\* objects: ecma_module_resolve_export and ecma_module_create_namespace_object.
THEOREM ExportsInvariant ==
  ASSUME ~Renames, ~Circular
  PROVE  ExportsSpec => []ExportsInv
<1>1. ExportsInit => ExportsInv
  BY ResolveInitInv
<1>2. ExportsInv /\ [ExportsNext]_exportsVars => ExportsInv'
  <2> SUFFICES ASSUME ExportsInv, [ExportsNext]_exportsVars PROVE ExportsInv'
    OBVIOUS
  <2>1. Typed'
    BY TypedStep
  <2>2. GraphOK'
    BY StepFixed, GraphStep DEF ExportsInv
  <2>3. Searches' /\ Spaces'
    BY SearchesStep, SpacesStep
  <2> QED BY <2>1, <2>2, <2>3 DEF ExportsInv
<1> QED BY <1>1, <1>2, PTL DEF ExportsSpec

\* The loop of ecma_module_resolve_export finds the binding of a name if there is
\* one, and nothing that is not a binding of it.
THEOREM ExportsSatisfied ==
  ASSUME ~Renames, ~Circular
  PROVE  ExportsSpec => []ExportSatisfied
<1>1. ASSUME ExportsInv PROVE ExportSatisfied
  <2> SUFFICES ASSUME asked # None, frames = <<>> \/ task = "failed"
               PROVE  /\ found => record \in {None} \cup Bindings(asked)
                      /\ Cardinality(Bindings(asked)) = 1 => found /\ record \in Bindings(asked)
                      /\ Bindings(asked) = {} => ~found
    BY DEF ExportSatisfied
  <2>1. PICK a \in Pairs : asked = a /\ ResolutionOK(a) /\ Typed
    BY <1>1, AskedIs DEF ExportsInv
  <2>2. ~found => Bindings(a) = {}
    <3>1. CASE frames # <<>>
      BY <3>1, <2>1 DEF ResolutionOK
    <3>2. CASE frames = <<>>
      <4>1. Len(frames) = 0
        BY <3>2
      <4>2. (\A i \in 1 .. Len(frames) : PairAt(i) \in Seen) /\ \A v \in Seen : ~Waits(v)
        BY <4>1, <3>2 DEF Waits
      <4> QED BY <4>2, <2>1, NothingThere DEF ResolutionOK
    <3> QED BY <3>1, <3>2
  <2>3. found => \/ record = None /\ \E p, q \in Bindings(a) : p # q
                 \/ record \in Bindings(a)
    BY <2>1 DEF ResolutionOK, FoundOK
  <2>4. Cardinality(Bindings(a)) = 1 => \E b : Bindings(a) = {b}
    BY <2>1, OneBinding
  <2> QED BY <2>1, <2>2, <2>3, <2>4
<1> QED BY <1>1, ExportsInvariant, PTL

\* ecma_module_create_namespace_object does not fail, and gives the object every
\* name that stands for one binding, and no name without one.
THEOREM NamespacesComplete ==
  ASSUME ~Renames, ~Circular
  PROVE  ExportsSpec => []NamespaceComplete
<1>1. ASSUME ExportsInv PROVE NamespaceComplete
  <2> SUFFICES ASSUME visited # {}, task \in {"done", "failed"}
               PROVE  /\ task = "done"
                      /\ \A e \in entries : e[2] \in Bindings(<<root, e[1]>>)
                      /\ \A n \in Name :
                           Cardinality(Bindings(<<root, n>>)) = 1 => n \in Handled
    BY DEF NamespaceComplete
  <2>1. PICK r \in Exporter : r = root /\ SpaceOK(r) /\ NamesOK(r)
    BY <1>1 DEF ExportsInv, Typed, Spaces
  <2>2. Typed /\ GraphOK
    BY <1>1 DEF ExportsInv
  <2>3. /\ task = "done" /\ names = {} /\ todo = <<>> /\ asked = None /\ r \in visited
        /\ Len(todo) = 0
    BY <2>1 DEF SpaceOK
  <2>4. ASSUME NEW e \in entries PROVE e[2] \in Bindings(<<r, e[1]>>)
    <3>1. e = <<e[1], e[2]>> /\ e[1] \in Name /\ e[2] \in Pairs
      BY <2>2 DEF Typed
    <3> QED BY <3>1, <2>1 DEF NamesOK
  <2>5. ASSUME NEW n \in Name, Cardinality(Bindings(<<r, n>>)) = 1 PROVE n \in Handled
    <3>1. <<r, n>> \in Pairs
      BY DEF Pairs
    <3>2. Bindings(<<r, n>>) # {}
      BY <3>1, <2>2, <2>5, OneBinding
    <3>3. ASSUME NEW m \in visited, n \in ExportedBy(m), n # "default" \/ m = r
          PROVE  n \in Handled
      <4>1. asked # <<r, n>>
        BY <3>1, <2>3, Kinds
      <4> QED BY <4>1, <3>3, <2>1, <2>3, <2>5 DEF NamesOK
    <3>4. CASE n = "default"
      <4>1. ASSUME n \notin ExportedBy(r) PROVE FALSE
        <5> DEFINE S == {<<r, n>>}
        <5>1. export[<<r, n>>] = NotExported
          BY <4>1 DEF ExportedBy
        <5>2. Leads(<<r, n>>) = {}
          BY <5>1, <3>4, Kinds DEF Leads
        <5>3. Closed(S) /\ S \in SUBSET Pairs /\ <<r, n>> \in S
          BY <5>2, <3>1 DEF Closed
        <5>4. Reachable(<<r, n>>) \subseteq S
          BY <5>3, <3>1, ReachIn
        <5> QED BY <5>1, <5>4, <3>1, <3>2, <2>2, BindingsOf, Kinds
      <4> QED BY <4>1, <3>3, <2>3
    <3>5. CASE n # "default" /\ \A m \in visited : n \notin ExportedBy(m)
      <4> DEFINE S == {<<m, n>> : m \in visited}
      <4>1. \A m \in visited : m \in Exporter /\ export[<<m, n>>] = NotExported
        BY <3>5, <2>2 DEF ExportedBy, Typed
      <4>2. \A m \in visited : Leads(<<m, n>>) = {<<s, n>> : s \in Stars(m)}
        BY <4>1, <3>5, Kinds DEF Leads
      <4>3. \A m \in visited : \A s \in Stars(m) : s \in visited
        BY <2>1, <2>3 DEF SpaceOK
      <4>4. Closed(S)
        BY <4>2, <4>3 DEF Closed
      <4>5. S \in SUBSET Pairs /\ <<r, n>> \in S
        BY <4>1, <2>3 DEF Pairs
      <4>6. Reachable(<<r, n>>) \subseteq S
        BY <4>4, <4>5, <3>1, ReachIn
      <4>7. \A q \in S : export[q] # Local
        BY <4>1, Kinds
      <4> QED BY <4>6, <4>7, <3>1, <3>2, <2>2, BindingsOf
    <3> QED BY <3>3, <3>4, <3>5
  <2> QED BY <2>1, <2>3, <2>4, <2>5
<1> QED BY <1>1, ExportsInvariant, PTL
=============================================================================
