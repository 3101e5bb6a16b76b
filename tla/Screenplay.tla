------------------------------ MODULE Screenplay ------------------------------
(***************************************************************************)
(* From the tokens of a screenplay to a film: the parser and tree builder  *)
(* of crates/core/src/syntax, and the binding and resolution of            *)
(* crates/core/src/compiler, in the order of crates/cli/src/compilation.rs. *)
(*                                                                         *)
(* An author writes one token after the other.  A tag is its element's     *)
(* kind with what the later phases tell apart: the id it declares (for     *)
(* om-field its name), the cue it refers to, the variant field it is bound *)
(* to and by which sink (for om-field the sink of its type), and whether   *)
(* its other attributes are valid.  A node remembers the elements that     *)
(* were open when it was written, outermost first.  Spans, texts and the   *)
(* css sink are left out, and diagnostics are a set of codes.              *)
(***************************************************************************)
EXTENDS Integers, FiniteSets, SequencesExt

CONSTANTS
  Offered,         \* the tags an author may write in an element of each kind
  Supply,          \* how often each tag may be written
  Preambles,       \* how documents begin: nodes, and which of them are open
  StrayEnds,       \* the closing tags an author may write in the wrong place
  SelfClosed,      \* the kinds of elements an author may give a solidus
  NestingDepth,    \* SyntaxLimits::nesting_depth
  RetainedItems,   \* SyntaxLimits::retained_items, an element with its attributes being one
  MaxSlips         \* bound on the kinds of syntax errors of a document

ASSUME ScreenplayAssumption ==
  NestingDepth \in Nat /\ RetainedItems \in Nat /\ MaxSlips \in Nat

\* Text has no attributes.
IsTag(tag) == tag.kind \in DOMAIN Offered /\ (tag.kind = "text" => tag.field = "none")

ASSUME OfferedAssumption ==
  "document" \in DOMAIN Offered /\ \A kind \in DOMAIN Offered : \A tag \in Offered[kind] : IsTag(tag)

\* A path leads through the nodes of one that it extends by its last.
Leads(tree, path, before) ==
  /\ path \in Seq(1 .. before)
  /\ path # <<>> => path = Append(tree[Last(path)].within, Last(path))

\* What stands between an element and one that it contains, it contains as well.
IsTree(tree, stack) ==
  /\ \A i \in DOMAIN tree :
       /\ Leads(tree, tree[i].within, i - 1)
       /\ \A a \in Range(tree[i].within) : \A j \in a + 1 .. i : a \in Range(tree[j].within)
  /\ Leads(tree, stack, Len(tree))
  /\ \A a \in Range(stack) : \A j \in a + 1 .. Len(tree) : a \in Range(tree[j].within)

ASSUME PreamblesAssumption ==
  \A p \in Preambles :
    /\ p.nodes \in Seq(Range(p.nodes)) /\ IsTree(p.nodes, p.open)
    /\ \A i \in DOMAIN p.nodes : IsTag(p.nodes[i])

VARIABLES
  phase,       \* what happens to the document next
  nodes,       \* the nodes of the tree, in document order
  open,        \* TreeBuilder::stack
  diagnostics, \* the codes of the errors reported
  film         \* the resolved film, if there is one

screenplayVars == <<phase, nodes, open, diagnostics, film>>

Report(fault, code) == IF fault THEN {code} ELSE {}

-----------------------------------------------------------------------------
(* Reading the tree.                                                        *)

Kind(i) == nodes[i].kind
Path(i) == Range(nodes[i].within) \cup {i}
Parent(i) == IF nodes[i].within = <<>> THEN 0 ELSE Last(nodes[i].within)
IsElement(i) == Kind(i) # "text"

\* Some nodes, or positions, in their order.
InOrder(S) ==
  [n \in 1 .. Cardinality(S) |-> CHOOSE x \in S : Cardinality({y \in S : y < x}) = n - 1]

ChildrenOfKind(i, kinds) == InOrder({n \in DOMAIN nodes : Parent(n) = i /\ Kind(n) \in kinds})

\* ElementKind and the matches of the binder: what an element may contain.
Legal ==
  [kind \in {"om-film", "om-fields", "om-field", "om-cues", "om-cue", "om-captions", "om-music",
             "om-scene", "om-shot", "om-transition", "video", "om-vo", "om-sfx", "om-title", "om-cta"} |->
     CASE kind = "om-film" -> {"om-fields", "om-cues", "om-captions", "om-music", "om-scene"}
       [] kind = "om-fields" -> {"om-field"}
       [] kind = "om-cues" -> {"om-cue"}
       [] kind = "om-scene" -> {"om-shot", "om-transition"}
       [] kind = "om-shot" -> {"video", "om-vo", "om-sfx", "om-title", "om-cta"}
       [] OTHER -> {}]

Known(i) == Kind(i) \in DOMAIN Legal
Unknown(i) == Kind(i) = "om-unknown"

-----------------------------------------------------------------------------
(* The parser.                                                              *)

Void == {"img"}

WritingInit ==
  /\ phase = "writing" /\ diagnostics = {} /\ film = {}
  /\ \E p \in Preambles : nodes = p.nodes /\ open = p.open

Context == IF open = <<>> THEN "document" ELSE Kind(Last(open))

Written(tag) ==
  Cardinality({i \in DOMAIN nodes : \A attribute \in DOMAIN tag : nodes[i][attribute] = tag[attribute]})

\* A tag where the document is open.
Placed(tag) ==
  [kind |-> tag.kind, id |-> tag.id, cue |-> tag.cue, field |-> tag.field,
   sink |-> tag.sink, valid |-> tag.valid, within |-> open]

MayWrite(tag) ==
  /\ phase = "writing" /\ Cardinality(diagnostics) <= MaxSlips
  /\ Written(tag) < Supply[tag]

\* Parser::start_element and ::add_text at a limit: the rest is not read.
ReachLimit(tag) ==
  /\ MayWrite(tag)
  /\ \/ tag.kind # "text" /\ Len(open) >= NestingDepth
     \/ Len(nodes) = RetainedItems
  /\ phase' = "parsed" /\ open' = <<>>
  /\ diagnostics' = diagnostics \cup {"ResourceLimit"}
  /\ UNCHANGED <<nodes, film>>

\* Parser::start_element: the solidus of an element that is not void is an
\* error, and is ignored.
StartTag(tag, selfClosing) ==
  /\ MayWrite(tag) /\ tag.kind # "text"
  /\ Len(open) < NestingDepth /\ Len(nodes) < RetainedItems
  /\ nodes' = Append(nodes, Placed(tag))
  /\ open' = IF tag.kind \in Void THEN open ELSE Append(open, Len(nodes) + 1)
  /\ diagnostics' = diagnostics \cup Report(selfClosing /\ tag.kind \notin Void, "SelfClosingNonVoid")
  /\ UNCHANGED <<phase, film>>

\* Parser::add_text
Text(tag) ==
  /\ MayWrite(tag) /\ tag.kind = "text" /\ Len(nodes) < RetainedItems
  /\ nodes' = Append(nodes, Placed(tag))
  /\ UNCHANGED <<phase, open, diagnostics, film>>

\* TreeBuilder::close_element: a closing tag that does not fit is ignored.
EndTag(kind) ==
  /\ phase = "writing" /\ Cardinality(diagnostics) <= MaxSlips
  /\ LET fits == open # <<>> /\ Kind(Last(open)) = kind IN
     /\ open' = IF fits THEN Front(open) ELSE open
     /\ diagnostics' = diagnostics \cup Report(open = <<>>, "UnexpectedClosingTag")
                                   \cup Report(open # <<>> /\ ~fits, "MismatchedClosingTag")
  /\ UNCHANGED <<phase, nodes, film>>

\* Parser::finish_open_elements
EndOfFile ==
  /\ phase = "writing"
  /\ phase' = "parsed" /\ open' = <<>>
  /\ diagnostics' = diagnostics \cup Report(open # <<>>, "UnclosedElement")
  /\ UNCHANGED <<nodes, film>>

-----------------------------------------------------------------------------
(* Binding.                                                                 *)

Shell == {"html", "body"}

\* collect_document_element: only the document shell is transparent.
AtDocumentLevel(i) == \A a \in Range(nodes[i].within) : Kind(a) \in Shell

FilmRoots == {i \in DOMAIN nodes : AtDocumentLevel(i) /\ Kind(i) = "om-film"}
Film == CHOOSE i \in FilmRoots : TRUE

LevelFaults ==
  LET level == {i \in DOMAIN nodes : AtDocumentLevel(i)} IN
  Report(\E i \in level : Known(i) /\ Kind(i) # "om-film", "MisplacedElement")
  \cup Report(\E i \in level : Unknown(i), "UnknownElement")

\* bind_variant_schema_container, bind_cues_container: the first one counts.
IsRepeated(i) ==
  /\ Kind(i) \in {"om-fields", "om-cues"}
  /\ \E j \in 1 .. i - 1 : Parent(j) = Parent(i) /\ Kind(j) = Kind(i)

\* The elements Binder::bind_film comes to: everything between the film and
\* them is where it may be.
IsBound(i) ==
  LET root == Film IN
  /\ root \in Path(i)
  /\ \A n \in Path(i) : n > root =>
       Known(Parent(n)) /\ Kind(n) \in Legal[Kind(Parent(n))] /\ ~IsRepeated(n)

Bound == {i \in DOMAIN nodes : IsBound(i)}

TextElements == {"om-vo", "om-title", "om-cta"}

\* What the binder looks at in a bound element: its children, and through
\* presentation markup only where it collects text (collect_text).
Examined(i) ==
  {n \in DOMAIN nodes :
     IF Kind(i) \in TextElements
     THEN n # i /\ i \in Path(n) /\ \A m \in Path(n) \ {n} : m > i => ~Known(m) /\ ~Unknown(m)
     ELSE Parent(n) = i}

\* structural_child, recognize_or_report, reject_child_elements_and_text
ChildFaults(i) ==
  UNION {Report(~IsElement(n) /\ Kind(i) \notin TextElements, "UnexpectedText")
         \cup Report(Unknown(n), "UnknownElement")
         \cup Report(Known(n) /\ Kind(n) \notin Legal[Kind(i)], "MisplacedElement")
         \cup Report(n \in DOMAIN nodes /\ IsRepeated(n), "DuplicateContainer") : n \in Examined(i)}

Structure(scene) == {n \in DOMAIN nodes : Parent(n) = scene /\ Kind(n) \in {"om-shot", "om-transition"}}

\* One follows the other in the structure of a scene.
Adjacent(i, j) ==
  LET structure == Structure(Parent(i))
  IN {i, j} \subseteq structure /\ i < j /\ ~ \E m \in structure : i < m /\ m < j

\* bind_scene: a transition stands between two shots.
BetweenShots(t) ==
  /\ \E shot \in DOMAIN nodes : Kind(shot) = "om-shot" /\ Adjacent(shot, t)
  /\ \E shot \in DOMAIN nodes : Kind(shot) = "om-shot" /\ Adjacent(t, shot)

BoundaryFaults(scene) ==
  Report(\E t \in Structure(scene) : Kind(t) = "om-transition" /\ ~BetweenShots(t),
         "InvalidTransitionBoundary")

\* Binder::bind_id: the schema and its fields have no identity of this kind.
Identified ==
  {i \in DOMAIN nodes : nodes[i].id # "none" /\ Kind(i) \notin {"om-fields", "om-field"} /\ IsBound(i)}

IdFaults ==
  LET identified == Identified IN
  Report(\E i \in identified : nodes[i].id = "bad", "InvalidNodeId")
  \cup Report(\E i, j \in identified : i # j /\ nodes[i].id = nodes[j].id, "DuplicateNodeId")

-----------------------------------------------------------------------------
(* Variant bindings (variant_binding.rs): these are collected from all that *)
(* lies below the film, presentation markup included.                       *)

ForbidsBindings ==
  {"om-fields", "om-field", "om-cues", "om-cue", "om-vo", "om-music", "om-sfx", "script", "style"}

HasBinding(i) == nodes[i].field # "none"
Bindings == {i \in DOMAIN nodes : Film \in Path(i) /\ HasBinding(i)}

Forbidden(i) == \E n \in Path(i) : n >= Film /\ Kind(n) \in ForbidsBindings

\* semantic_scope: the innermost element that owns a part of the document.
Scope(i) ==
  LET owners == {n \in Path(i) : n >= Film /\ Kind(n) \in {"om-film", "om-scene", "om-shot", "om-transition"}}
  IN CHOOSE n \in owners : \A m \in owners : m <= n

BindFaults ==
  LevelFaults \cup
  (IF Cardinality(FilmRoots) # 1
   THEN {IF FilmRoots = {} THEN "MissingFilmRoot" ELSE "MultipleFilmRoots"}
   ELSE (UNION {ChildFaults(i) : i \in Bound})
        \cup (UNION {BoundaryFaults(i) : i \in {n \in Bound : Kind(n) = "om-scene"}})
        \cup IdFaults
        \cup Report(\E i \in Bindings : Forbidden(i), "ForbiddenBinding"))

-----------------------------------------------------------------------------
(* Resolution (resolve.rs, variant_resolution.rs).                          *)

Declared(kind) ==
  {i \in DOMAIN nodes : Kind(i) = kind /\ nodes[i].valid /\ nodes[i].id # "none" /\ IsBound(i)}

\* Resolver::resolve_cue fills the table before any overlay asks for a cue.
AttributeFaults ==
  Report(\E i \in Bound : ~nodes[i].valid, "InvalidAttribute")
  \cup Report(\E i \in Bound : Kind(i) \in {"om-cue", "om-captions", "om-field"} /\ nodes[i].id = "none",
              "MissingAttribute")
  \cup Report(\E i \in Bound : nodes[i].cue # "none" /\ ~ \E c \in Declared("om-cue") : nodes[c].id = nodes[i].cue,
              "UnknownCue")

\* resolve_fields: the first declaration of a name counts.
FieldOf(name) ==
  LET named == {i \in Declared("om-field") : nodes[i].id = name}
  IN {i \in named : \A j \in named : i <= j}

\* text_fallback: direct text only
DirectTextOnly(i) == \A n \in DOMAIN nodes : Parent(n) = i => ~IsElement(n)

\* resolve_bindings: the name, the sink, the fallback.
BindingFaults(i) ==
  LET field == FieldOf(nodes[i].field) IN
  Report(field = {}, "UnknownField")
  \cup Report(\E f \in field : nodes[f].sink # nodes[i].sink, "IncompatibleBinding")
  \cup Report(field # {} /\ nodes[i].sink = "text" /\ ~DirectTextOnly(i), "InvalidFallback")

ResolveFaults ==
  AttributeFaults
  \cup Report(\E i \in Declared("om-field") : i \notin FieldOf(nodes[i].id), "DuplicateField")
  \cup (UNION {BindingFaults(i) : i \in Bindings})

-----------------------------------------------------------------------------
(* The film: its scenes, and its shots in order, each with its scene, the   *)
(* transition before it, if any, and its content.                           *)

ResolvedShot(n) ==
  [node |-> n, scene |-> Parent(n),
   cut |-> {t \in DOMAIN nodes : Kind(t) = "om-transition" /\ Adjacent(t, n)},
   content |-> ChildrenOfKind(n, {"video", "om-vo", "om-title", "om-cta"})]

TheFilm ==
  LET scenes == ChildrenOfKind(Film, {"om-scene"})
      shots == FlattenSeq([s \in DOMAIN scenes |-> ChildrenOfKind(scenes[s], {"om-shot"})])
  IN [node |-> Film, scenes |-> scenes, shots |-> [k \in DOMAIN shots |-> ResolvedShot(shots[k])]]

\* compilation::resolve: each phase only after one without errors.
Faults ==
  IF diagnostics # {} THEN diagnostics
  ELSE LET binding == BindFaults IN IF binding # {} THEN binding ELSE ResolveFaults

Compile ==
  /\ phase = "parsed"
  /\ diagnostics' = Faults
  /\ phase' = IF diagnostics' = {} THEN "compiled" ELSE "rejected"
  /\ film' = IF diagnostics' = {} THEN {TheFilm} ELSE {}
  /\ UNCHANGED <<nodes, open>>

Write ==
  \/ \E tag \in Offered[Context] :
       \/ ReachLimit(tag)
       \/ Text(tag)
       \/ StartTag(tag, FALSE)
       \/ tag.kind \in SelfClosed /\ StartTag(tag, TRUE)
  \/ \E kind \in StrayEnds \cup {Context} : EndTag(kind)
  \/ EndOfFile
=============================================================================
