----------------------------- MODULE EcmaModule -----------------------------
(***************************************************************************)
(* ECMAScript modules: linking, evaluation and dynamic import              *)
(* (jerry-core/ecma/base/ecma-module.c and its API in jerry.c).            *)
(*                                                                         *)
(* A module is what these functions see of it: its state, its requests     *)
(* (imports_p nodes) and whether each is resolved, its scope.  Names,      *)
(* bindings and namespace objects are in EcmaModuleExports; here a name    *)
(* that does not resolve makes a step fail.                                *)
(*                                                                         *)
(* The functions call the host and the program in the middle of their work *)
(* (the resolve callback, the callback for state changes, module bodies),  *)
(* and these may use modules again.  `calls' are the calls in progress,    *)
(* the innermost last.                                                     *)
(***************************************************************************)
EXTENDS Integers, Sequences, FiniteSets

CONSTANTS Module,         \* the modules
          MaxImports,     \* bound: requests of a module
          MaxCalls,       \* bound: nested calls
          LinkCallbacks   \* whether the callbacks of jerry_module_link may link
                          \* and evaluate modules

ASSUME LinkCallbacksAssumption == LinkCallbacks \in BOOLEAN
ASSUME BoundsAssumption == MaxImports \in Nat /\ MaxCalls \in Nat

VARIABLES
  imports,   \* the modules that the requests stand for
  resolved,  \* the requests whose path_or_module is a module already
  state,     \* module_state
  ancestor,  \* dfs_ancestor_index
  scope,     \* scope_p is set
  calls,     \* calls in progress
  ran,       \* history: how often the body of the module was started
  phase      \* "run", or "assert" after a failed assertion

graphVars == <<imports, resolved, scope>>
vars == <<graphVars, state, ancestor, calls, ran, phase>>

Requests ==
  {s \in UNION {[1..n -> Module] : n \in 0..MaxImports} :
     \A i, j \in DOMAIN s : s[i] = s[j] => i = j}

Init ==
  /\ imports \in [Module -> Requests]
  /\ resolved = [m \in Module |-> {}]
  /\ state = [m \in Module |-> "unlinked"]
  /\ ancestor = [m \in Module |-> 0]
  /\ scope = [m \in Module |-> FALSE]
  /\ calls = <<>>
  /\ ran = [m \in Module |-> 0]
  /\ phase = "run"

-----------------------------------------------------------------------------
(***************************************************************************)
(* Calls.  A link has its stack of items, the item it works on, and the    *)
(* node it looks at; an evaluation or an import has its module.  `at' is   *)
(* the place in the function: in those of UserCode the host or the program *)
(* runs; "wait" waits for the call above to return, which sets it to "ok"  *)
(* or "error".                                                             *)
(***************************************************************************)
Top == calls[Len(calls)]
Below == SubSeq(calls, 1, Len(calls) - 1)
In(op, at) == phase = "run" /\ calls # <<>> /\ Top.op = op /\ Top.at = at
Goto(at) == Append(Below, [Top EXCEPT !.at = at])

\* The call above fs returns r.
Return(fs, r) ==
  IF fs # <<>> /\ fs[Len(fs)].at = "wait"
    THEN [fs EXCEPT ![Len(fs)].at = r]
    ELSE fs

UserCode == {"callback", "linked", "body", "changed"}
LinkCode == {"callback", "linked"}

\* The host or the program has control and may call the API.
MayCall ==
  /\ phase = "run"
  /\ calls # <<>> => Top.at \in UserCode
  /\ LinkCallbacks \/ \A i \in DOMAIN calls : calls[i].at \notin LinkCode
  /\ Len(calls) < MaxCalls

-----------------------------------------------------------------------------
(***************************************************************************)
(* ecma_module_link: a depth-first search that finds the strongly          *)
(* connected components of the modules.                                    *)
(***************************************************************************)
Item(m, parent, dfs) == [module |-> m, parent |-> parent, dfs |-> dfs, node |-> 1]
Current == Top.items[Top.current]
CurrentModule == Current.module

\* The link starts at m, with the calls fs around it.
Link(fs, m) ==
  /\ state' = [state EXCEPT ![m] = "linking"]
  /\ ancestor' = [ancestor EXCEPT ![m] = 0]
  /\ calls' = Append(fs, [op |-> "link", at |-> "resolve", items |-> <<Item(m, 0, 0)>>,
                          current |-> 1, index |-> 0])

\* jerry_module_link.
ApiLink(m) ==
  /\ MayCall
  /\ state[m] = "unlinked"
  /\ Link(calls, m)
  /\ UNCHANGED <<graphVars, ran, phase>>

\* The first request of the current module that is not resolved yet goes to the
\* resolve callback.
Unresolved(m) == DOMAIN imports[m] \ resolved[m]
FirstUnresolved(m) == CHOOSE i \in Unresolved(m) : \A j \in Unresolved(m) : i <= j

ResolveRequest ==
  /\ In("link", "resolve")
  /\ Unresolved(CurrentModule) # {}
  /\ calls' = Goto("callback")
  /\ UNCHANGED <<graphVars, state, ancestor, ran, phase>>

\* Faulty variant of LinkFails: only the module that failed is unlinked.
LinkFailsCurrent ==
  /\ state' = [state EXCEPT ![CurrentModule] = "unlinked"]
  /\ calls' = Return(Below, "error")

\* The error exit: the modules of all items are unlinked again.
LinkFails ==
  /\ state' = [m \in Module |->
                 IF \E i \in DOMAIN Top.items : Top.items[i].module = m
                   THEN "unlinked" ELSE state[m]]
  /\ calls' = Return(Below, "error")

\* The callback returns an error, or something that is not a module,
CallbackFails ==
  /\ In("link", "callback")
  /\ LinkFails
  /\ UNCHANGED <<graphVars, ancestor, ran, phase>>

\* or the module, which is kept also if it is in error state.
CallbackReturns ==
  LET m == CurrentModule
      i == FirstUnresolved(m)
  IN /\ In("link", "callback")
     /\ resolved' = [resolved EXCEPT ![m] = @ \cup {i}]
     /\ IF state[imports[m][i]] = "error"
          THEN LinkFails
          ELSE calls' = Goto("resolve") /\ UNCHANGED state
     /\ UNCHANGED <<imports, scope, ancestor, ran, phase>>

RequestsResolved ==
  /\ In("link", "resolve")
  /\ Unresolved(CurrentModule) = {}
  /\ calls' = Goto("visit")
  /\ UNCHANGED <<graphVars, state, ancestor, ran, phase>>

NodesLeft == Current.node <= Len(imports[CurrentModule])
Target == imports[CurrentModule][Current.node]
NextNode == [Top EXCEPT !.items[Top.current].node = @ + 1]
Lower(a, b) == IF a < b THEN a ELSE b

\* An unlinked module is entered; its item becomes the current one.
VisitUnlinked ==
  /\ In("link", "visit")
  /\ NodesLeft
  /\ state[Target] = "unlinked"
  /\ state' = [state EXCEPT ![Target] = "linking"]
  /\ ancestor' = [ancestor EXCEPT ![Target] = Top.index + 1]
  /\ calls' = Append(Below,
                [NextNode EXCEPT
                   !.items = Append(@, Item(Target, Top.current, Top.index + 1)),
                   !.current = Len(Top.items) + 1,
                   !.index = @ + 1,
                   !.at = "resolve"])
  /\ UNCHANGED <<graphVars, ran, phase>>

\* Faulty variant of VisitOther: the ancestor of a module on the stack is not taken over.
VisitOtherNoAncestor ==
  /\ In("link", "visit")
  /\ NodesLeft
  /\ state[Target] # "unlinked"
  /\ calls' = Append(Below, NextNode)
  /\ UNCHANGED <<graphVars, state, ancestor, ran, phase>>

\* Another one is passed over; if it is on the stack the current module belongs to
\* the component of its ancestor.
VisitOther ==
  /\ In("link", "visit")
  /\ NodesLeft
  /\ state[Target] # "unlinked"
  /\ ancestor' = IF state[Target] = "linking"
                   THEN [ancestor EXCEPT ![CurrentModule] = Lower(@, ancestor[Target])]
                   ELSE ancestor
  /\ calls' = Append(Below, NextNode)
  /\ UNCHANGED <<graphVars, state, ran, phase>>

\* The module is done and gets its scope (vm_init_module_scope).  Unless it is the
\* root of its component the search goes back to its parent.
BackToParent ==
  LET parent == Top.items[Current.parent].module
  IN /\ In("link", "visit")
     /\ ~NodesLeft
     /\ ancestor[CurrentModule] # Current.dfs
     /\ scope' = [scope EXCEPT ![CurrentModule] = TRUE]
     /\ ancestor' = [ancestor EXCEPT ![parent] = Lower(@, ancestor[CurrentModule])]
     /\ calls' = Append(Below, [Top EXCEPT !.current = Current.parent])
     /\ UNCHANGED <<imports, resolved, state, ran, phase>>

\* The root of a component: the modules from the last item down to it are linked,
\* the last one first, each with a call of the callback for state changes.
Last == Top.items[Len(Top.items)].module

ComponentFound ==
  /\ In("link", "visit")
  /\ ~NodesLeft
  /\ ancestor[CurrentModule] = Current.dfs
  /\ scope' = [scope EXCEPT ![CurrentModule] = TRUE]
  /\ state' = [state EXCEPT ![Last] = "linked"]
  /\ calls' = Goto("linked")
  /\ UNCHANGED <<imports, resolved, ancestor, ran, phase>>

\* The callback returns and the item is freed.
NextLinked ==
  LET rest == SubSeq(Top.items, 1, Len(Top.items) - 1)
  IN /\ In("link", "linked")
     /\ IF Len(Top.items) > Top.current
          THEN /\ state' = [state EXCEPT ![rest[Len(rest)].module] = "linked"]
               /\ calls' = Append(Below, [Top EXCEPT !.items = rest])
          ELSE /\ calls' = IF Current.parent = 0
                             THEN Return(Below, "ok")
                             ELSE Append(Below, [Top EXCEPT !.items = rest,
                                                   !.current = Current.parent,
                                                   !.at = "visit"])
               /\ UNCHANGED state
     /\ UNCHANGED <<graphVars, ancestor, ran, phase>>

-----------------------------------------------------------------------------
(***************************************************************************)
(* ecma_module_evaluate, with vm_run_module and ecma_module_initialize.    *)
(***************************************************************************)
Evaluated == {"evaluating", "evaluated"}

\* The evaluation of m is entered, with the calls fs around it.
Evaluate(fs, m) ==
  CASE state[m] = "error" -> calls' = Return(fs, "error") /\ UNCHANGED <<state, phase>>
    [] state[m] \in Evaluated -> calls' = Return(fs, "ok") /\ UNCHANGED <<state, phase>>
    [] state[m] = "linked" ->
         /\ state' = [state EXCEPT ![m] = "evaluating"]
         /\ calls' = Append(fs, [op |-> "evaluate", at |-> "ok", module |-> m, node |-> 0])
         /\ UNCHANGED phase
    [] OTHER -> phase' = "assert" /\ calls' = fs /\ UNCHANGED state

\* jerry_module_evaluate.
ApiEvaluate(m) ==
  /\ MayCall
  /\ state[m] = "linked"
  /\ Evaluate(calls, m)
  /\ UNCHANGED <<graphVars, ancestor, ran>>

\* Faulty variant of EvaluateImport: the result of the evaluation is not looked at.
EvaluateImportNoWait ==
  /\ In("evaluate", "ok")
  /\ Top.node < Len(imports[Top.module])
  /\ Evaluate(Append(Below, [Top EXCEPT !.node = @ + 1]),
              imports[Top.module][Top.node + 1])
  /\ UNCHANGED <<graphVars, ancestor, ran>>

\* ecma_module_connect_imports: the modules of the requests are evaluated in turn.
EvaluateImport ==
  /\ In("evaluate", "ok")
  /\ Top.node < Len(imports[Top.module])
  /\ Evaluate(Append(Below, [Top EXCEPT !.at = "wait", !.node = @ + 1]),
              imports[Top.module][Top.node + 1])
  /\ UNCHANGED <<graphVars, ancestor, ran>>

\* The bindings exist and the indirect exports resolve: the body runs.
EvaluateBody ==
  /\ In("evaluate", "ok")
  /\ Top.node = Len(imports[Top.module])
  /\ calls' = Goto("body")
  /\ ran' = [ran EXCEPT ![Top.module] = @ + 1]
  /\ UNCHANGED <<graphVars, state, ancestor, phase>>

\* The body returns,
EvaluateReturns ==
  /\ In("evaluate", "body")
  /\ state' = [state EXCEPT ![Top.module] = "evaluated"]
  /\ calls' = Goto("changed")
  /\ UNCHANGED <<graphVars, ancestor, ran, phase>>

\* or it throws, an import fails, or a name does not resolve.
EvaluateFails ==
  /\ \E at \in {"error", "ok", "body"} : In("evaluate", at)
  /\ state' = [state EXCEPT ![Top.module] = "error"]
  /\ calls' = Goto("changed")
  /\ UNCHANGED <<graphVars, ancestor, ran, phase>>

\* The callback for state changes returns.
EvaluateEnds ==
  /\ In("evaluate", "changed")
  /\ calls' = Return(Below, IF state[Top.module] = "error" THEN "error" ELSE "ok")
  /\ UNCHANGED <<graphVars, state, ancestor, ran, phase>>

-----------------------------------------------------------------------------
(***************************************************************************)
(* ecma_module_import.                                                     *)
(***************************************************************************)

\* import () of m.
Import(m) ==
  /\ MayCall
  /\ calls' = Append(calls, [op |-> "import", at |-> "ok", module |-> m])
  /\ UNCHANGED <<graphVars, state, ancestor, ran, phase>>

ImportLinks ==
  /\ In("import", "ok")
  /\ state[Top.module] = "unlinked"
  /\ Link(Goto("wait"), Top.module)
  /\ UNCHANGED <<graphVars, ran, phase>>

ImportEvaluates ==
  /\ In("import", "ok")
  /\ state[Top.module] = "linked"
  /\ Evaluate(Goto("wait"), Top.module)
  /\ UNCHANGED <<graphVars, ancestor, ran>>

\* The promise is fulfilled with the namespace object of an evaluated module,
ImportFulfills ==
  /\ In("import", "ok")
  /\ state[Top.module] = "evaluated"
  /\ calls' = Below
  /\ UNCHANGED <<graphVars, state, ancestor, ran, phase>>

\* and rejected otherwise.
ImportRejects ==
  /\ \/ In("import", "error")
     \/ In("import", "ok") /\ state[Top.module] \in {"linking", "evaluating", "error"}
  /\ calls' = Below
  /\ UNCHANGED <<graphVars, state, ancestor, ran, phase>>

-----------------------------------------------------------------------------
User ==
  \E m \in Module : ApiLink(m) \/ ApiEvaluate(m) \/ Import(m)

\* The host or the program returns to the call that waits for it.
UserReturns ==
  \/ CallbackFails
  \/ CallbackReturns
  \/ NextLinked
  \/ EvaluateReturns
  \/ EvaluateFails
  \/ EvaluateEnds

Engine ==
  \/ ResolveRequest
  \/ RequestsResolved
  \/ VisitUnlinked
  \/ VisitOther
  \/ BackToParent
  \/ ComponentFound
  \/ EvaluateImport
  \/ EvaluateBody
  \/ ImportLinks
  \/ ImportEvaluates
  \/ ImportFulfills
  \/ ImportRejects

Next == User \/ UserReturns \/ Engine

Spec == Init /\ [][Next]_vars

-----------------------------------------------------------------------------
(***************************************************************************)
(* Properties.                                                             *)
(***************************************************************************)

\* A module is linked only when everything it needs is: its requests are resolved
\* to modules that are linked, or are being linked by the same call, which has
\* found their common component.  Everything has its scope, and what
\* ecma_module_evaluate is entered for is linked, as it asserts.
LinkedClosed ==
  phase # "assert" /\ \A m \in Module : state[m] \notin {"unlinked", "linking"} =>
    /\ scope[m]
    /\ Unresolved(m) = {}
    /\ \A i \in DOMAIN imports[m] :
         LET t == imports[m][i]
         IN /\ scope[t]
            /\ state[t] # "unlinked"
            /\ state[t] = "linking" =>
                 \E c \in DOMAIN calls :
                   /\ calls[c].op = "link"
                   /\ calls[c].at = "linked"
                   /\ \E k \in calls[c].current..Len(calls[c].items) :
                        calls[c].items[k].module = t

\* A module is being linked exactly if it is on the stack of one link, once: the
\* loops over the items find what they assert, and the search ends.
LinkingOnStack ==
  LET links == {c \in DOMAIN calls : calls[c].op = "link"}
      Waiting(c) == {k \in DOMAIN calls[c].items :
                       calls[c].at = "linked" => k < Len(calls[c].items)}
      ItemsOf(m) == UNION {{<<c, k>> : k \in {k \in Waiting(c) :
                              calls[c].items[k].module = m}} : c \in links}
  IN \A m \in Module :
       Cardinality(ItemsOf(m)) = IF state[m] = "linking" THEN 1 ELSE 0

\* A body runs once, and only when the modules it imports from have run or are
\* being evaluated by a call around it.
BodiesInOrder ==
  /\ \A m \in Module : ran[m] <= 1
  /\ \A c \in DOMAIN calls : calls[c].at = "body" =>
       \A i \in DOMAIN imports[calls[c].module] :
         LET t == imports[calls[c].module][i]
         IN \/ state[t] = "evaluated"
            \/ \E b \in 1..c : calls[b].op = "evaluate" /\ calls[b].module = t
=============================================================================
