------------------------------ MODULE RegionPage ------------------------------
(***************************************************************************)
(* One region of a film on its page.  Three parties read the document: the *)
(* compiler, whose browser plan names elements by their place in a         *)
(* preorder (crates/core/src/protocol/projection.rs, plan.rs); the         *)
(* bundler, that takes out what the browser must not see and what the      *)
(* region does not hold (packages/bundler/src/authored_html.ts); and the   *)
(* page, that counts the elements it is left with and gives them to the    *)
(* plan (packages/authoring/src/presentation.ts, variant.ts).              *)
(*                                                                         *)
(* The browser's tree of an accepted document is the compiler's.  Frames   *)
(* are left out: what a selected shot holds plays in its region, and a     *)
(* region is one shot or two that a transition joins.                      *)
(***************************************************************************)
EXTENDS Screenplay

VARIABLES
  region,    \* the selected shots, by their index
  plan,      \* the browser plan of the region, if there is one
  page,      \* the elements of the page's document
  bound,     \* the element each node of the plan is bound to
  shown,     \* the elements that show the value of the field they are bound to
  failure    \* why the page did not load

pageVars == <<region, plan, page, bound, shown, failure>>
documentVars == <<screenplayVars, pageVars>>

CompiledFilm == CHOOSE f \in film : TRUE

-----------------------------------------------------------------------------
(* The compiler's projection.                                               *)

\* What a filter keeps of a sequence: its members at these positions.
Kept(sequence, positions) ==
  LET kept == InOrder(positions) IN [n \in DOMAIN kept |-> sequence[kept[n]]]

\* ProjectionBuilder::project_scene and ::project_shot: voice-overs have no
\* node, and a transition has one where the shot before it is selected too.
ProjectShot(k, selection) ==
  LET shots == CompiledFilm.shots
      joined == k - 1 \in selection /\ shots[k - 1].scene = shots[k].scene
  IN (IF joined THEN SetToSeq(shots[k].cut) ELSE <<>>)
     \o <<shots[k].node>>
     \o Kept(shots[k].content, {n \in DOMAIN shots[k].content : Kind(shots[k].content[n]) # "om-vo"})

ProjectScene(scene, selection) ==
  LET shots == CompiledFilm.shots
      selected == InOrder({k \in DOMAIN shots : shots[k].scene = scene /\ k \in selection})
  IN IF selected = <<>> THEN <<>>
     ELSE <<scene>> \o FlattenSeq([n \in DOMAIN selected |-> ProjectShot(selected[n], selection)])

ProjectNodes(selection) ==
  LET scenes == CompiledFilm.scenes
  IN <<CompiledFilm.node>> \o FlattenSeq([s \in DOMAIN scenes |-> ProjectScene(scenes[s], selection)])

\* BrowserPlan::foreground_only with ::compact_node_ids
Foreground(sequence) == Kept(sequence, {n \in DOMAIN sequence : Kind(sequence[n]) # "video"})

\* VariantScopeIndex::resolve: an owner the film does not hold has no scope.
ScopesOf(name) == {Scope(i) : i \in {b \in Bindings : nodes[b].field = name}} \cap Bound

(* Mutant: a transition's fields enter the regions of both its shots.       *)
AffectsEither(scope, selection) ==
  \E k \in selection : LET shot == CompiledFilm.shots[k] IN
    \/ scope \in {CompiledFilm.node, shot.scene, shot.node} \cup shot.cut
    \/ k < Len(CompiledFilm.shots) /\ scope \in CompiledFilm.shots[k + 1].cut

\* TimelineVariantScope::affects
Affects(scope, selection) ==
  \E k \in selection : LET shot == CompiledFilm.shots[k] IN
    \/ scope \in {CompiledFilm.node, shot.scene, shot.node}
    \/ scope \in shot.cut /\ k - 1 \in selection

RegionFields(selection) ==
  {nodes[b].field : b \in {n \in Bindings :
     \E s \in ScopesOf(nodes[n].field) : Affects(s, selection)}}

\* What the page is told: of every node its kind and its authored id, and
\* for a video the node of its shot.
PlanOf(sequence, selection) ==
  [nodes |-> [n \in DOMAIN sequence |-> [kind |-> Kind(sequence[n]), id |-> nodes[sequence[n]].id]],
   videoShots |-> {n \in DOMAIN sequence :
                     \E v \in Range(sequence) : Kind(v) = "video" /\ Parent(v) = sequence[n]},
   fields |-> RegionFields(selection),
   elements |-> sequence]

-----------------------------------------------------------------------------
(* The bundler's projection.                                                *)

\* isCompilerOnlyElement
CompilerOnly == {"om-fields", "om-cues", "om-captions", "om-music", "om-sfx", "om-vo"}

\* findElement in the document that is left of them
HtmlFilm ==
  LET films == {i \in DOMAIN nodes : Kind(i) = "om-film" /\ \A n \in Path(i) : Kind(n) \notin CompilerOnly}
  IN CHOOSE i \in films : \A j \in films : i <= j

HtmlShots ==
  LET scenes == ChildrenOfKind(HtmlFilm, {"om-scene"})
  IN FlattenSeq([s \in DOMAIN scenes |-> ChildrenOfKind(scenes[s], {"om-shot"})])

\* projectSceneStructure: the shots around a transition, as far as there are any.
HtmlNeighbors(t) ==
  LET shots == HtmlShots
      siblings == {k \in DOMAIN shots : Parent(shots[k]) = Parent(t)}
  IN {k \in siblings :
        \/ shots[k] < t /\ \A j \in siblings : j > k => shots[j] > t
        \/ shots[k] > t /\ \A j \in siblings : j < k => shots[j] < t}

HtmlTransitions == {t \in DOMAIN nodes : Kind(t) = "om-transition" /\ Parent(t) # 0
                                         /\ Kind(Parent(t)) = "om-scene" /\ Parent(Parent(t)) = HtmlFilm}

BundlerRefuses == \E t \in HtmlTransitions : Cardinality(HtmlNeighbors(t)) # 2

\* projectRegionDocument
Removed(selection) ==
  LET shots == HtmlShots
      kept == {shots[k] : k \in selection \cap DOMAIN shots} IN
  {s \in DOMAIN nodes : Kind(s) = "om-scene" /\ Parent(s) = HtmlFilm
                        /\ ~ \E h \in kept : Parent(h) = s}
  \cup (Range(shots) \ kept)
  \cup {t \in HtmlTransitions : ~(HtmlNeighbors(t) \subseteq selection)}

RegionDocument(selection) ==
  LET removed == Removed(selection)
  IN {i \in DOMAIN nodes : IsElement(i) /\ \A n \in Path(i) :
        Kind(n) \notin CompilerOnly /\ n \notin removed}

-----------------------------------------------------------------------------
(* The page.                                                                *)

PageChildren(document, i, kinds) ==
  InOrder({n \in document : Parent(n) = i /\ Kind(n) \in kinds})

PageFilms(document) == {i \in document : Kind(i) = "om-film" /\ AtDocumentLevel(i)}

(* Mutant: the videos of a shot count whether or not the plan has them.     *)
ContentOfAnyMode(plan_, shotNode) == {"video", "om-title", "om-cta"}

\* The children of a shot that have nodes: its videos where the plan has them.
ContentSelector(plan_, shotNode) ==
  {"om-title", "om-cta"} \cup (IF shotNode \in plan_.videoShots THEN {"video"} ELSE {})

\* The structure of the film, in its order
PageStructure(document, root) ==
  LET scenes == PageChildren(document, root, {"om-scene"})
  IN FlattenSeq([s \in DOMAIN scenes |->
       <<scenes[s]>> \o PageChildren(document, scenes[s], {"om-shot", "om-transition"})])

\* One element after the other is given the next place.
Admit(document, plan_, indexed, e) ==
  IF Kind(e) = "om-shot"
  THEN Append(indexed, e) \o PageChildren(document, e, ContentSelector(plan_, Len(indexed) + 1))
  ELSE Append(indexed, e)

\* collectAuthoredNodes
AuthoredNodes(document, plan_) ==
  LET root == CHOOSE f \in PageFilms(document) : TRUE
      structure == PageStructure(document, root)
      index[n \in 0 .. Len(structure)] ==
        IF n = 0 THEN <<root>> ELSE Admit(document, plan_, index[n - 1], structure[n])
  IN index[Len(structure)]

\* requiredNode, requireAuthoredId
Mismatched(plan_, indexed) ==
  \E n \in DOMAIN plan_.nodes :
    \/ n \notin DOMAIN indexed
    \/ Kind(indexed[n]) # plan_.nodes[n].kind
    \/ nodes[indexed[n]].id # plan_.nodes[n].id

\* applyVariantFields: the bound elements of the whole document.
Applied(document, plan_) == {i \in document : nodes[i].field \in plan_.fields}

LoadFailure(document, plan_) ==
  IF Cardinality(PageFilms(document)) # 1 THEN "FilmCount"
  ELSE IF Mismatched(plan_, AuthoredNodes(document, plan_)) THEN "NodeIdentity"
  ELSE IF plan_.fields # {nodes[i].field : i \in Applied(document, plan_)} THEN "MissingBinding"
  ELSE "none"

-----------------------------------------------------------------------------
PageInit ==
  /\ WritingInit
  /\ region = {} /\ plan = {} /\ page = {} /\ bound = <<>> /\ shown = {} /\ failure = "none"

Regions ==
  LET shots == CompiledFilm.shots IN
  {{k} : k \in DOMAIN shots} \cup {{k - 1, k} : k \in {n \in DOMAIN shots : shots[n].cut # {}}}

\* A region is planned, bundled, and loaded by a page that is told of its
\* videos, or given the foreground of its plan.
LoadRegion(selection, browserVideos) ==
  /\ phase = "compiled"
  /\ phase' = "loaded"
  /\ region' = selection
  /\ LET all  == ProjectNodes(selection)
         told == PlanOf(IF browserVideos THEN all ELSE Foreground(all), selection)
         document == RegionDocument(selection)
     IN /\ plan' = {told}
        /\ page' = document
        /\ failure' = IF BundlerRefuses \/ ~(selection \subseteq DOMAIN HtmlShots)
                      THEN "Bundler" ELSE LoadFailure(document, told)
        /\ bound' = IF failure' \in {"none", "MissingBinding"}
                    THEN SubSeq(AuthoredNodes(document, told), 1, Len(told.nodes)) ELSE <<>>
        /\ shown' = IF failure' = "none" THEN Applied(document, told) ELSE {}
  /\ UNCHANGED <<nodes, open, diagnostics, film>>

PageNext ==
  \/ (Write \/ Compile) /\ UNCHANGED pageVars
  \/ phase = "compiled" /\ \E selection \in Regions, browserVideos \in BOOLEAN :
       LoadRegion(selection, browserVideos)

PageSpec == PageInit /\ [][PageNext]_documentVars
-----------------------------------------------------------------------------
(* Type correctness.                                                        *)
PageTypeOK ==
  /\ phase \in {"writing", "parsed", "rejected", "compiled", "loaded"}
  /\ \A i \in DOMAIN nodes : Range(nodes[i].within) \subseteq 1 .. i - 1
  /\ Range(open) \subseteq DOMAIN nodes
  /\ (film # {}) = (phase \in {"compiled", "loaded"})
  /\ (diagnostics # {}) => phase \in {"writing", "parsed", "rejected"}
  /\ page \subseteq DOMAIN nodes /\ shown \subseteq page
  /\ failure \in {"none", "Bundler", "FilmCount", "NodeIdentity", "MissingBinding"}

\* The bundler takes the first film of the document for its own
\* (authored_html.ts:224), the compiler and the page the one at its level:
\* one in presentation markup before it changes what is cut out of a region,
\* although it should change nothing (docs/en/language-specification.md,
\* lines 108-110).
FilmIsFound == HtmlFilm = Film

(* Whatever the compiler accepts, each node of a region's plan is bound to   *)
(* the element it was compiled from: the dense preorder of the projection,   *)
(* with or without its videos, is the order in which the page counts what    *)
(* the bundler has left of the document (presentation.ts:297-301), once the  *)
(* bundler has found the film.                                              *)
PlanAndPageAgree ==
  phase = "loaded" /\ FilmIsFound => \A p \in plan : bound = p.elements

\* An element is lost to the page when it stands in imported captions, which
\* are not among the places where a binding is forbidden, and lost to the
\* film when its owner stands in presentation markup.
InCaptions(i) == \E n \in Path(i) : Kind(n) = "om-captions"
OwnerIsPresentation(i) == Scope(i) \notin Bound

(* A page shows the value of a field wherever it holds an element bound to   *)
(* it, and is told of no field that it has no element for: the scopes the    *)
(* compiler derives for a binding select exactly the regions whose documents *)
(* keep the element.  The two places where an accepted binding is lost are   *)
(* excepted by name.                                                        *)
BindingsReachThePage ==
  phase = "loaded" /\ FilmIsFound =>
    /\ failure = "MissingBinding" => \E b \in Bindings : InCaptions(b)
    /\ failure = "none" => {b \in Bindings \cap page : ~OwnerIsPresentation(b)} \subseteq shown
=============================================================================
