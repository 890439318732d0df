----------------------------- MODULE PromptWalk -----------------------------
(***************************************************************************)
(* The loading-time walk over a prompt template (internal/template), and the  *)
(* rendering it is meant to make safe.  A template is written one node at  *)
(* a time and the walk sees every node once, in text order, keeping a      *)
(* stack of scopes that map a name to a shape.  A template it accepts is   *)
(* then rendered, by an engine that takes any branch, repeats any loop and *)
(* has one set of bindings for the whole template: a name bound in a       *)
(* branch is still bound after it.                                         *)
(*                                                                         *)
(* The walk promises two things of every later render.  No name it         *)
(* accepted is undefined.  And fenced text, the part of a prompt an issue  *)
(* author or an earlier agent wrote, is only ever emitted whole: a value   *)
(* that holds a fence is never filtered, tested, assigned or reached into. *)
(*                                                                         *)
(* An expression is a reference or a literal, with or without a filter.    *)
(***************************************************************************)
EXTENDS Naturals, Sequences, FiniteSets, SequencesExt

CONSTANTS Expressions,   \* the expressions a template may use, per position
          MaxNodes,      \* nodes of a template
          MaxDepth,      \* blocks open at once
          MaxRounds      \* times a loop body is entered

ASSUME PromptAssumption == {MaxNodes, MaxDepth, MaxRounds} \subseteq Nat

VARIABLES nodes,      \* the template so far
          loading,       \* "open", "accepted" or "refused"
          scopes,     \* the walk: its scopes, innermost last
          open,       \* the walk: the blocks open, with what it notes on entry
          emissions,  \* the walk: whole emissions of fenced content
          filters,    \* the walk: the filters met
          cursor,     \* the render: the node to run next
          env,        \* the render: the engine's bindings
          running,    \* the render: the blocks it is inside of
          harm        \* the render: what has gone wrong

promptVars == <<nodes, loading, scopes, open, emissions, filters, cursor, env, running, harm>>

Names == {"issue", "attempt", "run", "c", "x", "forloop"}
Unbound == "unbound"

-----------------------------------------------------------------------------
(* Shapes: what a value is and what is under it.  A shape is tainted when  *)
(* a fence is anywhere in it.                                              *)

Objects == [issue   |-> [title |-> "fenced", body |-> "fenced", state |-> "string",
                         labels |-> "strings", blockers |-> "blockers"],
            blocker |-> [identifier |-> "string", open |-> "bool"],
            run     |-> [id |-> "string", previous_attempt |-> "fenced"],
            forloop |-> [index |-> "int", first |-> "bool"]]
Elements == [strings |-> "string", blockers |-> "blocker"]
Scalars == {"string", "fenced", "int", "bool", "any"}
NoShape == "none"

Tainted(s) == s \in {"fenced", "issue", "run"}
Container(s) == s \in DOMAIN Objects \/ s \in DOMAIN Elements

Property(s, name) ==
    CASE s = "any" -> "any"
      [] s \in DOMAIN Objects -> IF name \in DOMAIN Objects[s] THEN Objects[s][name] ELSE NoShape
      [] s \in {"string", "fenced"} -> IF name = "size" THEN "int" ELSE NoShape
      [] s \in DOMAIN Elements -> IF name = "size" THEN "int"
                                  ELSE IF name \in {"first", "last"} THEN Elements[s] ELSE NoShape
      [] OTHER -> NoShape

KeyIndex(s, name) ==
    CASE s = "any" -> "any"
      [] s \in DOMAIN Objects -> IF name \in DOMAIN Objects[s] THEN Objects[s][name] ELSE NoShape
      [] OTHER -> NoShape

Index(s) == CASE s = "any" -> "any" [] s \in DOMAIN Elements -> Elements[s] [] OTHER -> NoShape

(* One step of a path.                                                     *)
Step(s, seg) == CASE seg.kind = "prop" -> Property(s, seg.name)
                  [] seg.kind = "key"  -> KeyIndex(s, seg.name)
                  [] OTHER             -> Index(s)

RootScope == [n \in Names |-> CASE n = "issue" -> "issue" [] n = "run" -> "run"
                                [] n = "attempt" -> "int" [] OTHER -> Unbound]
NoScope == [n \in Names |-> Unbound]

-----------------------------------------------------------------------------
(* References: a root, and a path of properties, keys and indexes.  The    *)
(* index of a dynamic access is a reference of its own.                    *)

Literal == [root |-> "", segs |-> <<>>, filter |-> ""]
Ref(root, segs) == [root |-> root, segs |-> segs, filter |-> ""]
Filtered(e, f) == [e EXCEPT !.filter = f]
WholeRef(e) == e.root # "" /\ e.filter = ""

(* analyze: the references of an expression, the nested ones included.     *)
Inner(e) == {Ref(e.segs[i].by, <<>>) : i \in {j \in DOMAIN e.segs : e.segs[j].kind = "dynamic"}}
Refs(e) == IF e.root = "" THEN {} ELSE {e} \cup Inner(e)
FiltersOf(e) == {e.filter} \ {""}

Lookup(stack, name) ==
    LET at == {i \in DOMAIN stack : stack[i][name] # Unbound}
    IN IF at = {} THEN Unbound ELSE stack[CHOOSE i \in at : \A j \in at : j <= i][name]

(* The shapes along a path, the root's first; NoShape from a step the      *)
(* shape does not admit.                                                   *)
Along(s, segs) ==
    LET path[i \in 0..Len(segs)] == IF i = 0 THEN s ELSE IF path[i - 1] = NoShape THEN NoShape ELSE Step(path[i - 1], segs[i])
    IN [i \in 1..(Len(segs) + 1) |-> path[i - 1]]
ShapeOf(s, segs) == Last(Along(s, segs))

(* A step into a value that carries a fence without being a container.     *)
ReachesInto(path) == \E i \in 1..(Len(path) - 1) : Tainted(path[i]) /\ ~Container(path[i])

(* Mutant: what a fence was cut out of is only looked for at the end.      *)
AdmitsRefEnd(e, bare) ==
    LET s == Lookup(scopes, e.root) IN
    /\ s # Unbound
    /\ ShapeOf(s, e.segs) # NoShape
    /\ Tainted(ShapeOf(s, e.segs)) => bare

(* checkRef.                                                               *)
AdmitsRef(e, bare) ==
    LET s == Lookup(scopes, e.root)
        path == Along(s, e.segs)
    IN /\ s # Unbound
       /\ ~ReachesInto(path)
       /\ Last(path) # NoShape
       /\ Tainted(Last(path)) => bare

(* check, for a condition, an assignment or a loop, and for an emission.   *)
AdmitsAll(e, bare) == \A r \in Refs(e) : AdmitsRef(r, bare)

FencesRead(e) == Cardinality({r \in Refs(e) : Tainted(ShapeOf(Lookup(scopes, r.root), r.segs))})

(* wholeRefShape: anything but a whole reference is the checking frontier. *)
WholeRefShape(e) == IF WholeRef(e) THEN ShapeOf(Lookup(scopes, e.root), e.segs) ELSE "any"

-----------------------------------------------------------------------------
(* The walk, node by node.                                                 *)

Bindable(name) == name # "forloop"
Pushed(scope) == Append(scopes, scope)
Popped == Front(scopes)
BoundIn(stack, name, s) == [stack EXCEPT ![Len(stack)][name] = s]

Write(op, name, e) ==
    /\ loading = "open" /\ Len(nodes) < MaxNodes
    /\ nodes' = Append(nodes, [op |-> op, name |-> name, e |-> e])
    /\ filters' = filters \cup FiltersOf(e)
    /\ UNCHANGED <<loading, cursor, env, running, harm>>

Enter(op, name, scope) ==
    /\ Len(open) < MaxDepth
    /\ scopes' = Pushed(scope)
    /\ open' = Append(open, [op |-> op, name |-> name, before |-> emissions])

WalkEmission(e) ==
    /\ Write("emit", "", e)
    /\ AdmitsAll(e, WholeRef(e))
    /\ emissions' = emissions + FencesRead(e)
    /\ UNCHANGED <<scopes, open>>

(* Mutant: a prompt may bind the name the engine keeps its loop under.     *)
AssignableAny(name) == name # ""
Assignable(name) == Bindable(name)

WalkAssign(name, e) ==
    /\ Write("assign", name, e)
    /\ Assignable(name) /\ AdmitsAll(e, FALSE)
    /\ scopes' = BoundIn(scopes, name, WholeRefShape(e))
    /\ UNCHANGED <<open, emissions>>

WalkCycle ==
    /\ Write("cycle", "", Literal)
    /\ UNCHANGED <<scopes, open, emissions>>

WalkIf(e) ==
    /\ Write("if", "", e)
    /\ Enter("if", "", NoScope)
    /\ AdmitsAll(e, FALSE)
    /\ UNCHANGED emissions

WalkElse ==
    /\ open # <<>> /\ Last(open).op = "if"
    /\ Write("else", "", Literal)
    /\ scopes' = Append(Popped, NoScope)
    /\ open' = [open EXCEPT ![Len(open)].op = "else"]
    /\ UNCHANGED emissions

ElementOf(s) == IF s \in DOMAIN Elements THEN Elements[s] ELSE "any"

WalkFor(name, e) ==
    /\ Write("for", name, e)
    /\ Bindable(name) /\ AdmitsAll(e, FALSE)
    /\ Enter("for", name, [NoScope EXCEPT ![name] = ElementOf(WholeRefShape(e)), !["forloop"] = "forloop"])
    /\ UNCHANGED emissions

WalkCapture(name) ==
    /\ Bindable(name)
    /\ Write("capture", name, Literal)
    /\ Enter("capture", name, NoScope)
    /\ UNCHANGED emissions

(* Mutant: a captured string is an ordinary string.                        *)
CapturedPlain(before) == "string"

(* A capture over fenced content still holds the fence.                    *)
Captured(before) == IF emissions > before THEN "fenced" ELSE "string"

(* Mutant: a scope outlives its block.                                     *)
ClosedScopesKept == [Popped EXCEPT ![Len(Popped)] =
                        [n \in Names |-> IF Last(scopes)[n] # Unbound THEN Last(scopes)[n] ELSE Last(Popped)[n]]]
ClosedScopes == Popped

WalkEnd ==
    /\ open # <<>>
    /\ Write("end", "", Literal)
    /\ scopes' = IF Last(open).op = "capture" THEN BoundIn(ClosedScopes, Last(open).name, Captured(Last(open).before))
                 ELSE ClosedScopes
    /\ open' = Front(open)
    /\ UNCHANGED emissions

(* Mutant: filter names are left to the render.                            *)
FiltersDefinedUnasked == TRUE
FiltersDefined == "bogus" \notin filters

(* Load: the whole template walked, and every filter known to the engine.  *)
LoadEnds ==
    /\ loading = "open" /\ open = <<>> /\ nodes # <<>>
    /\ loading' = IF FiltersDefined THEN "accepted" ELSE "refused"
    /\ UNCHANGED <<nodes, scopes, open, emissions, filters, cursor, env, running, harm>>

-----------------------------------------------------------------------------
(* Render: the engine.                                                     *)

OpensBlock(i) == nodes[i].op \in {"if", "for", "capture"}
DepthAt(i, j) == Cardinality({k \in i..j : OpensBlock(k)}) - Cardinality({k \in i..j : nodes[k].op = "end"})
EndOf(i) == CHOOSE j \in i..Len(nodes) : DepthAt(i, j) = 0 /\ \A k \in i..(j - 1) : DepthAt(i, k) > 0
ElseOf(i) == {j \in i..EndOf(i) : nodes[j].op = "else" /\ DepthAt(i, j) = 1}

Path(e) == Along(env[e.root], e.segs)
HoldsFence(e) == e.root # "" /\ Tainted(Last(Path(e)))

HarmOf(e, whole) ==
    {"undefined" : r \in {q \in Refs(e) : env[q.root] = Unbound}}
    \cup {"reshaped" : r \in {q \in {e} \ {Literal} : q.root # "" /\ (ReachesInto(Path(q)) \/ (HoldsFence(q) /\ ~whole))}}
    \cup {"filter" : f \in FiltersOf(e) \cap {"bogus"}}

RenderAt(op) == loading = "accepted" /\ harm = {} /\ cursor <= Len(nodes) /\ nodes[cursor].op = op
NodeHere == nodes[cursor]
Rendered(e) == IF WholeRef(e) /\ Last(Path(e)) # NoShape THEN Last(Path(e)) ELSE "string"

(* The innermost capture takes what is emitted inside it.                  *)
Absorb(frames, fence) ==
    LET at == {i \in DOMAIN frames : frames[i].op = "capture"}
        top == CHOOSE i \in at : \A j \in at : j <= i
    IN IF at = {} \/ ~fence THEN frames ELSE [frames EXCEPT ![top].fence = TRUE]

RenderEmission ==
    /\ RenderAt("emit")
    /\ harm' = HarmOf(NodeHere.e, WholeRef(NodeHere.e))
    /\ running' = Absorb(running, HoldsFence(NodeHere.e))
    /\ cursor' = cursor + 1
    /\ UNCHANGED <<nodes, loading, scopes, open, emissions, filters, env>>

RenderAssign ==
    /\ RenderAt("assign")
    /\ harm' = HarmOf(NodeHere.e, FALSE)
    /\ env' = [env EXCEPT ![NodeHere.name] = Rendered(NodeHere.e)]
    /\ cursor' = cursor + 1
    /\ UNCHANGED <<nodes, loading, scopes, open, emissions, filters, running>>

(* The cycle tag takes forloop to be the record its loop wrote.            *)
RenderCycle ==
    /\ RenderAt("cycle")
    /\ harm' = IF env["forloop"] \in {"forloop", Unbound} THEN {} ELSE {"panic"}
    /\ cursor' = cursor + 1
    /\ UNCHANGED <<nodes, loading, scopes, open, emissions, filters, env, running>>

Frame(op) == [op |-> op, at |-> cursor, name |-> NodeHere.name, fence |-> FALSE, rounds |-> 1,
              was |-> IF NodeHere.name = "" THEN Unbound ELSE env[NodeHere.name], loop |-> env["forloop"]]

RenderIf ==
    /\ RenderAt("if")
    /\ harm' = HarmOf(NodeHere.e, FALSE)
    /\ \E taken \in BOOLEAN :
          IF taken THEN cursor' = cursor + 1 /\ running' = Append(running, Frame("if"))
          ELSE IF ElseOf(cursor) # {}
          THEN cursor' = (CHOOSE j \in ElseOf(cursor) : TRUE) + 1 /\ running' = Append(running, Frame("if"))
          ELSE cursor' = EndOf(cursor) + 1 /\ UNCHANGED running
    /\ UNCHANGED <<nodes, loading, scopes, open, emissions, filters, env>>

RenderElse ==
    /\ RenderAt("else")
    /\ cursor' = EndOf(Last(running).at)
    /\ UNCHANGED <<nodes, loading, scopes, open, emissions, filters, env, running, harm>>

RenderFor ==
    /\ RenderAt("for")
    /\ harm' = HarmOf(NodeHere.e, FALSE)
    /\ \E empty \in BOOLEAN :
          IF empty THEN cursor' = EndOf(cursor) + 1 /\ UNCHANGED <<running, env>>
          ELSE /\ cursor' = cursor + 1
               /\ running' = Append(running, Frame("for"))
               /\ env' = [env EXCEPT !["forloop"] = "forloop", ![NodeHere.name] = ElementOf(Rendered(NodeHere.e))]
    /\ UNCHANGED <<nodes, loading, scopes, open, emissions, filters>>

RenderCapture ==
    /\ RenderAt("capture")
    /\ running' = Append(running, Frame("capture"))
    /\ cursor' = cursor + 1
    /\ UNCHANGED <<nodes, loading, scopes, open, emissions, filters, env, harm>>

RenderEnd ==
    /\ RenderAt("end")
    /\ LET f == Last(running)
           left == Front(running)
       IN \/ /\ f.op = "for" /\ f.rounds < MaxRounds
             /\ running' = [running EXCEPT ![Len(running)].rounds = @ + 1]
             /\ env' = [env EXCEPT ![f.name] = ElementOf(Rendered(nodes[f.at].e))]
             /\ cursor' = f.at + 1
          \/ /\ running' = left /\ cursor' = cursor + 1
             /\ env' = CASE f.op = "for" -> [env EXCEPT ![f.name] = f.was, !["forloop"] = f.loop]
                         [] f.op = "capture" -> [env EXCEPT ![f.name] = IF f.fence THEN "fenced" ELSE "string"]
                         [] OTHER -> env
    /\ UNCHANGED <<nodes, loading, scopes, open, emissions, filters, harm>>

PromptInit ==
    /\ nodes = <<>> /\ loading = "open" /\ scopes = <<RootScope>> /\ open = <<>> /\ emissions = 0
    /\ filters = {} /\ cursor = 1 /\ env = RootScope /\ running = <<>> /\ harm = {}

PromptNext ==
    \/ \E e \in Expressions.emit : WalkEmission(e)
    \/ \E e \in Expressions.test : WalkIf(e)
    \/ \E e \in Expressions.each : WalkFor("x", e)
    \/ \E e \in Expressions.value, n \in {"c", "forloop"} : WalkAssign(n, e)
    \/ WalkCapture("c") \/ WalkElse \/ WalkEnd \/ WalkCycle \/ LoadEnds
    \/ RenderEmission \/ RenderAssign \/ RenderCycle \/ RenderIf \/ RenderElse \/ RenderFor
    \/ RenderCapture \/ RenderEnd

PromptSpec == PromptInit /\ [][PromptNext]_promptVars

-----------------------------------------------------------------------------
PromptTypeOK ==
    /\ Len(nodes) <= MaxNodes /\ loading \in {"open", "accepted", "refused"}
    /\ Len(scopes) = Len(open) + 1 /\ cursor \in 1..(Len(nodes) + 1)
    /\ harm \subseteq {"undefined", "reshaped", "filter", "panic"}

(* No render of an accepted template meets an undefined name or filter,    *)
(* whatever branches it takes, and none makes the cycle tag panic.         *)
AcceptedIsDefined == harm \cap {"undefined", "filter", "panic"} = {}

Binders(name) == {i \in DOMAIN nodes : nodes[i].op \in {"assign", "capture", "for"} /\ nodes[i].name = name}

(* Where the template binds a name in one place only, fenced text is       *)
(* emitted whole in every render or not at all.                            *)
FencedStaysWhole == (\A n \in Names : Cardinality(Binders(n)) <= 1) => "reshaped" \notin harm

PromptSafe == PromptTypeOK /\ AcceptedIsDefined /\ FencedStaysWhole

(* The walk's promise for every accepted template: a value that holds a    *)
(* fence is never filtered, tested, assigned or reached into.              *)
(* Not an invariant of the code: README, section 5.                        *)
FencedOnlyWhole == "reshaped" \notin harm
=============================================================================
